--------------------------- MODULE OperationStore ---------------------------
(***************************************************************************)
(* SQLiteOperationStore (packages/storage-sqlite/src/store.ts), several    *)
(* stores on one database file: a mutation is BEGIN IMMEDIATE, the         *)
(* decision, up to three writes and COMMIT, and any of them may fail.      *)
(*                                                                         *)
(* SQLite itself is assumed: one writer at a time from BEGIN IMMEDIATE on, *)
(* uncommitted writes seen by their own connection only, COMMIT all or     *)
(* nothing, also when it reports failure or the process dies in it.        *)
(* Statements of one store do not interleave with each other, because its  *)
(* driver is synchronous; those of different stores do.  The asynchronous  *)
(* store of storage-expo makes the same decisions and writes, in exclusive *)
(* transactions with connections of their own; its reads never share one   *)
(* with a transaction, and it stays ready when a rollback fails.           *)
(***************************************************************************)
EXTENDS MutationRecords

CONSTANT Stores     \* stores open on the database, possibly in many processes

VARIABLES
    rows, events, ledger,   \* committed contents of the three tables
    ready,          \* per store: opened and usable
    tx,             \* per store: its transaction, or None
    answers         \* per store: the answer its caller has not used yet

durable == <<rows, events, ledger>>
vars == <<rows, events, ledger, ready, tx, answers>>

Tables == {"operations", "operation_events", "operation_mutations"}

(* result is what work() returned, change the row transition() computed,   *)
(* written the tables already written with it.                             *)
Transaction ==
    [request : Request, result : Option(Answer), change : Option(Operation),
     written : SUBSET Tables]

ASSUME StoreAssumption == None \notin Transaction

TypeOK ==
    /\ rows \in [Ids -> Option(Operation)]
    /\ events \subseteq Event
    /\ ledger \subseteq Entry
    /\ ready \in [Stores -> BOOLEAN]
    /\ tx \in [Stores -> Option(Transaction)]
    /\ answers \in [Stores -> Option(Answer)]

Init ==
    /\ rows = [i \in Ids |-> None]
    /\ events = {}
    /\ ledger = {}
    /\ ready = [s \in Stores |-> FALSE]
    /\ tx = [s \in Stores |-> None]
    /\ answers = [s \in Stores |-> None]
-----------------------------------------------------------------------------
(* A transaction left open by a failed ROLLBACK: its store is not ready.   *)
Running(s) == tx[s] # None /\ ready[s]

(* Mutant of LockIsFree: BEGIN, not BEGIN IMMEDIATE.                       *)
NoLock == TRUE

LockIsFree == \A s \in Stores : tx[s] = None

(* The durable tables once the writes of a transaction are in them.        *)
Written(t, table) == t # None /\ table \in t.written

RowsWith(t) ==
    IF Written(t, "operations")
    THEN [rows EXCEPT ![t.request.id] = t.change] ELSE rows
EventsWith(t) ==
    IF Written(t, "operation_events")
    THEN events \cup EventOf(rows, t.request.id, t.change) ELSE events
LedgerWith(t) ==
    IF Written(t, "operation_mutations")
    THEN ledger \cup {[request |-> t.request, operation |-> t.change]}
    ELSE ledger

MakeDurable(s) ==
    /\ rows' = RowsWith(tx[s])
    /\ events' = EventsWith(tx[s])
    /\ ledger' = LedgerWith(tx[s])

(* open(): its own transaction needs the lock, and refuses a connection    *)
(* that is still in one.                                                   *)
Open(s) ==
    /\ ~ready[s] /\ LockIsFree
    /\ ready' = [ready EXCEPT ![s] = TRUE]
    /\ UNCHANGED <<durable, tx, answers>>

(* close(), between two calls; the driver drops an open transaction.       *)
Close(s) ==
    /\ ~Running(s)
    /\ ready[s] \/ tx[s] # None
    /\ ready' = [ready EXCEPT ![s] = FALSE]
    /\ tx' = [tx EXCEPT ![s] = None]
    /\ UNCHANGED <<durable, answers>>

(* The process dies; a COMMIT it was in may have taken effect.             *)
Crash(s) ==
    /\ ready[s] \/ tx[s] # None \/ answers[s] # None
    /\ ready' = [ready EXCEPT ![s] = FALSE]
    /\ tx' = [tx EXCEPT ![s] = None]
    /\ answers' = [answers EXCEPT ![s] = None]
    /\ \/ UNCHANGED durable
       \/ /\ Running(s)
          /\ tx[s].result # None
          /\ MakeDurable(s)
-----------------------------------------------------------------------------
Answers(s, a) == answers' = [answers EXCEPT ![s] = a]

(* BEGIN IMMEDIATE.                                                        *)
Begin(s, r) ==
    /\ ready[s] /\ answers[s] = None
    /\ LockIsFree
    /\ tx' = [tx EXCEPT ![s] = [request |-> r, result |-> None,
                                change |-> None, written |-> {}]]
    /\ UNCHANGED <<durable, ready, answers>>

(* The store is not ready, or BEGIN fails, as it does when another store   *)
(* holds the lock for too long.  The catch block tries to roll back what   *)
(* an earlier call may have left open.                                     *)
CannotBegin(s, r) ==
    /\ ~Running(s) /\ answers[s] = None
    /\ Answers(s, Reply("ERROR", r))
    /\ \E t \in {tx[s], None} : tx' = [tx EXCEPT ![s] = t]
    /\ UNCHANGED <<durable, ready>>

(* What work() returns when it has nothing to write: prior(), then the     *)
(* identity checks of accept().                                            *)
Known(r) ==
    IF r.kind = "CHANGE" /\ rows[r.id] = None THEN {}
    ELSE IF Prior(ledger, r) # {}
    THEN {IF e.request = r THEN ReplyWith("COMMITTED", r, e.operation)
          ELSE Reply("CONFLICT", r) : e \in Prior(ledger, r)}
    ELSE IF r.kind = "CHANGE" THEN {}
    ELSE IF rows[r.id] # None
    THEN {IF rows[r.id].intent = r.intent
          THEN ReplyWith("EXISTING", r, rows[r.id])
          ELSE Reply("CONFLICT", r)}
    ELSE {Reply("CONFLICT", q) : q \in {x \in {r} : KeyTaken(rows, x.intent)}}

Undecided(s) == Running(s) /\ tx[s].result = None /\ tx[s].change = None

Return(s) ==
    /\ Undecided(s)
    /\ \E a \in Known(tx[s].request) : tx' = [tx EXCEPT ![s].result = a]
    /\ UNCHANGED <<durable, ready, answers>>

(* transition(), or the proposal of accept().                              *)
Compute(s) ==
    /\ Undecided(s)
    /\ Known(tx[s].request) = {}
    /\ \E op \in Results(rows, tx[s].request) :
          tx' = [tx EXCEPT ![s].change = op]
    /\ UNCHANGED <<durable, ready, answers>>

(* persist(): the row, an event if the status changes, the ledger entry.   *)
Persisting(s) == Running(s) /\ tx[s].change # None /\ tx[s].result = None

(* Mutant of EventDue: an accepted operation gets no first event.          *)
EventDueUnlessNew(t) ==
    /\ rows[t.request.id] # None
    /\ EventOf(rows, t.request.id, t.change) # {}
    /\ ~Written(t, "operation_events")

EventDue(t) ==
    /\ EventOf(rows, t.request.id, t.change) # {}
    /\ ~Written(t, "operation_events")

WriteRow(s) ==
    /\ Persisting(s) /\ ~Written(tx[s], "operations")
    /\ tx' = [tx EXCEPT ![s].written = @ \cup {"operations"}]
    /\ UNCHANGED <<durable, ready, answers>>

WriteEvent(s) ==
    /\ Persisting(s) /\ Written(tx[s], "operations") /\ EventDue(tx[s])
    /\ tx' = [tx EXCEPT ![s].written = @ \cup {"operation_events"}]
    /\ UNCHANGED <<durable, ready, answers>>

WriteEntry(s) ==
    /\ Persisting(s) /\ Written(tx[s], "operations") /\ ~EventDue(tx[s])
    /\ tx' = [tx EXCEPT
          ![s].written = @ \cup {"operation_mutations"},
          ![s].result = ReplyWith("COMMITTED", tx[s].request, tx[s].change)]
    /\ UNCHANGED <<durable, ready, answers>>
-----------------------------------------------------------------------------
(* Mutant of RollBack: a store whose ROLLBACK failed goes on.              *)
RollBackStillReady(s) ==
    \/ tx' = [tx EXCEPT ![s] = None] /\ UNCHANGED ready
    \/ UNCHANGED <<tx, ready>>

(* ROLLBACK; when it fails too, the store is no longer ready and keeps the *)
(* transaction, and with it the lock, until it is closed or used again.    *)
RollBack(s) ==
    \/ /\ tx' = [tx EXCEPT ![s] = None]
       /\ UNCHANGED ready
    \/ /\ ready' = [ready EXCEPT ![s] = FALSE]
       /\ UNCHANGED tx

(* transition() refuses the change, the only refusal answered as conflict. *)
Refused(s) ==
    /\ Undecided(s)
    /\ tx[s].request.kind = "CHANGE"
    /\ rows[tx[s].request.id] # None
    /\ Known(tx[s].request) = {}

(* work() throws: any statement may fail, any record be unreadable.        *)
Throw(s) ==
    /\ Running(s) /\ tx[s].result = None
    /\ \/ Answers(s, Reply("ERROR", tx[s].request))
       \/ Refused(s) /\ Answers(s, Reply("CONFLICT", tx[s].request))
    /\ RollBack(s)
    /\ UNCHANGED durable

(* COMMIT.                                                                 *)
Commit(s) ==
    /\ Running(s) /\ tx[s].result # None
    /\ MakeDurable(s)
    /\ Answers(s, tx[s].result)
    /\ tx' = [tx EXCEPT ![s] = None]
    /\ UNCHANGED ready

(* Mutant of CommitFails: every failure is taken for a rollback.           *)
CommitFailsForSure(s) ==
    /\ Running(s) /\ tx[s].result # None
    /\ Answers(s, Reply("ERROR", tx[s].request))
    /\ \/ /\ MakeDurable(s)
          /\ tx' = [tx EXCEPT ![s] = None]
          /\ UNCHANGED ready
       \/ RollBack(s) /\ UNCHANGED durable

(* COMMIT reports failure, after taking effect or without.                 *)
CommitFails(s) ==
    /\ Running(s) /\ tx[s].result # None
    /\ Answers(s, Reply("INDETERMINATE", tx[s].request))
    /\ \/ /\ MakeDurable(s)
          /\ tx' = [tx EXCEPT ![s] = None]
          /\ UNCHANGED ready
       \/ RollBack(s) /\ UNCHANGED durable
-----------------------------------------------------------------------------
(* getMutation() after an indeterminate answer; it reads what its own      *)
(* connection sees.  When it fails the caller knows no more than before.   *)
GetMutation(s) ==
    /\ answers[s] # None /\ answers[s].kind = "INDETERMINATE"
    /\ ready[s]
    /\ LET r == answers[s].request
           seen == IF RowsWith(tx[s])[r.id] = None THEN {}
                   ELSE Prior(LedgerWith(tx[s]), r)
       IN \/ \E e \in seen : Answers(s, ReplyWith("FOUND", r, e.operation))
          \/ seen = {} /\ Answers(s, Reply("ABSENT", r))
    /\ UNCHANGED <<durable, ready, tx>>

(* The caller has used the answer, and may repeat the request.             *)
Used(s) ==
    /\ answers[s] # None
    /\ answers' = [answers EXCEPT ![s] = None]
    /\ UNCHANGED <<durable, ready, tx>>

Next == \E s \in Stores :
    \/ Open(s) \/ Close(s) \/ Crash(s)
    \/ \E r \in Request : Begin(s, r) \/ CannotBegin(s, r)
    \/ Return(s) \/ Compute(s)
    \/ WriteRow(s) \/ WriteEvent(s) \/ WriteEntry(s) \/ Throw(s)
    \/ Commit(s) \/ CommitFails(s)
    \/ GetMutation(s) \/ Used(s)

Spec == Init /\ [][Next]_vars
-----------------------------------------------------------------------------
Ledger == INSTANCE MutationLedger

(* Every store does what StoragePort promises: seen from outside, a        *)
(* mutation happens in one step or not at all, whatever fails in between,  *)
(* and its answer is true.                                                 *)
ImplementsLedger == Ledger!Spec

LedgerIsComplete == Ledger!LedgerIsComplete
JournalMatchesLedger == Ledger!JournalMatchesLedger
KeysAreUnique == Ledger!KeysAreUnique
AnswersAreDurable == Ledger!AnswersAreDurable
=============================================================================

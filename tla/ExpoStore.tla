------------------------------ MODULE ExpoStore ------------------------------
(***************************************************************************)
(* AsyncSQLiteOperationStore (packages/storage-expo/src/store.ts): one     *)
(* store whose calls overlap, since every statement is awaited.  A mutation*)
(* runs in withExclusiveTransactionAsync, with the statements of           *)
(* OperationStore; reads, several awaits each, see what is committed.      *)
(*                                                                         *)
(* The driver is outside the repository and is assumed to keep its word:   *)
(* one exclusive transaction at a time, on a connection of its own, which  *)
(* is given back however the transaction ends, so that a failed ROLLBACK   *)
(* leaves nothing behind.                                                  *)
(***************************************************************************)
EXTENDS MutationRecords

CONSTANT Calls      \* calls of the store that may be under way at a time

VARIABLES
    rows, events, ledger,   \* committed contents of the three tables
    up,         \* is the process alive?
    ready,      \* the store's flag
    opening,    \* is an open() under way?
    queued,     \* per call: its request, past the ready check, or None
    tx,         \* per call: its transaction, or None
    looking,    \* calls of getMutation that have found the row
    answers     \* per call: the answer its caller has not used yet

durable == <<rows, events, ledger>>
vars == <<durable, up, ready, opening, queued, tx, looking, answers>>

(* The statements, as of a store per call that nothing but its own call    *)
(* makes ready or not.                                                     *)
Statements == INSTANCE OperationStore
    WITH Stores <- Calls, ready <- [c \in Calls |-> TRUE]

Ledger == INSTANCE MutationLedger WITH Stores <- Calls

ASSUME CallsAssumption == None \notin Statements!Transaction \cup Request

TypeOK ==
    /\ Statements!TypeOK
    /\ up \in BOOLEAN /\ ready \in BOOLEAN /\ opening \in BOOLEAN
    /\ queued \in [Calls -> Option(Request)]
    /\ looking \subseteq Calls

Init ==
    /\ Ledger!Init
    /\ tx = [c \in Calls |-> None]
    /\ up = TRUE /\ ready = FALSE /\ opening = FALSE
    /\ queued = [c \in Calls |-> None]
    /\ looking = {}
-----------------------------------------------------------------------------
(* open() clears the flag, and sets it when it has initialised the file in *)
(* a transaction of its own, whatever happened to the flag meanwhile.      *)
OpenBegins ==
    /\ up /\ ~opening
    /\ ready' = FALSE /\ opening' = TRUE
    /\ UNCHANGED <<durable, up, queued, tx, looking, answers>>

OpenEnds ==
    /\ opening
    /\ opening' = FALSE
    /\ \/ UNCHANGED ready
       \/ Statements!LockIsFree /\ ready' = TRUE
    /\ UNCHANGED <<durable, up, queued, tx, looking, answers>>

(* close() waits for nobody: transactions under way go on.                 *)
Close ==
    /\ ready
    /\ ready' = FALSE
    /\ UNCHANGED <<durable, up, opening, queued, tx, looking, answers>>

(* The process dies.  What its calls held goes one by one before it comes  *)
(* up again; the COMMIT one of them was in may have taken effect.          *)
Crash ==
    /\ up
    /\ up' = FALSE /\ ready' = FALSE /\ opening' = FALSE
    /\ looking' = {}
    /\ UNCHANGED <<durable, queued, tx, answers>>

Die(c) ==
    /\ ~up
    /\ queued[c] # None \/ tx[c] # None \/ answers[c] # None
    /\ queued' = [queued EXCEPT ![c] = None]
    /\ tx' = [tx EXCEPT ![c] = None]
    /\ answers' = [answers EXCEPT ![c] = None]
    /\ \/ UNCHANGED durable
       \/ /\ tx[c] # None /\ tx[c].result # None
          /\ Statements!MakeDurable(c)
    /\ UNCHANGED <<up, ready, opening, looking>>

Restart ==
    /\ ~up
    /\ \A c \in Calls : queued[c] = None /\ tx[c] = None /\ answers[c] = None
    /\ up' = TRUE
    /\ UNCHANGED <<durable, ready, opening, queued, tx, looking, answers>>
-----------------------------------------------------------------------------
Idle(c) == queued[c] = None /\ tx[c] = None /\ answers[c] = None

(* The flag is looked at once, before the first await.                     *)
Call(c, r) ==
    /\ up /\ Idle(c)
    /\ IF ready
       THEN /\ queued' = [queued EXCEPT ![c] = r]
            /\ UNCHANGED answers
       ELSE /\ Statements!Answers(c, Reply("ERROR", r))
            /\ UNCHANGED queued
    /\ UNCHANGED <<durable, up, ready, opening, tx, looking>>

Begin(c) ==
    /\ up /\ queued[c] # None
    /\ Statements!Begin(c, queued[c])
    /\ queued' = [queued EXCEPT ![c] = None]
    /\ UNCHANGED <<up, ready, opening, looking>>

(* No connection, no lock, or a database closed meanwhile.                 *)
BeginFails(c) ==
    /\ up /\ queued[c] # None
    /\ Statements!Answers(c, Reply("ERROR", queued[c]))
    /\ queued' = [queued EXCEPT ![c] = None]
    /\ UNCHANGED <<durable, up, ready, opening, tx, looking>>

(* The callback up to its end; an exception in it is answered for what it  *)
(* is, and the driver rolls back.                                          *)
Work(c) ==
    \/ Statements!Return(c) \/ Statements!Compute(c)
    \/ Statements!WriteRow(c) \/ Statements!WriteEvent(c)
    \/ Statements!WriteEntry(c) \/ Statements!Throw(c)

(* Mutant of Finish: a rejection is a failure wherever it comes from.      *)
FinishForSure(c) == Statements!Commit(c) \/ Statements!CommitFailsForSure(c)

(* After callbackCompleted: the driver commits, or rejects and the outcome *)
(* is not known, even when the callback had nothing to write.              *)
Finish(c) == Statements!Commit(c) \/ Statements!CommitFails(c)

Transact(c) ==
    /\ up
    /\ Work(c) \/ Finish(c)
    /\ UNCHANGED <<up, ready, opening, queued, looking>>
-----------------------------------------------------------------------------
(* getMutation() after an indeterminate answer, two reads.                 *)
LookUpRow(c) ==
    /\ ready /\ answers[c] # None /\ c \notin looking
    /\ answers[c].kind = "INDETERMINATE"
    /\ LET r == answers[c].request
       IN IF rows[r.id] = None
          THEN Statements!Answers(c, Reply("ABSENT", r)) /\ UNCHANGED looking
          ELSE looking' = looking \cup {c} /\ UNCHANGED answers
    /\ UNCHANGED <<durable, up, ready, opening, queued, tx>>

(* Mutant of Visible: reads share the connection of the transaction.       *)
VisibleUncommitted == UNION {Statements!LedgerWith(tx[c]) : c \in Calls}

(* The ledger as a read outside the transaction sees it.                   *)
Visible == ledger

LookUpEntry(c) ==
    /\ c \in looking
    /\ looking' = looking \ {c}
    /\ LET r == answers[c].request IN
        \/ \E e \in Prior(Visible, r) :
              Statements!Answers(c, ReplyWith("FOUND", r, e.operation))
        \/ /\ Prior(Visible, r) = {}
           /\ Statements!Answers(c, Reply("ABSENT", r))
        \/ UNCHANGED answers    \* the read fails; nothing is learned
    /\ UNCHANGED <<durable, up, ready, opening, queued, tx>>

(* The caller has used the answer, and may repeat the request.             *)
Used(c) ==
    /\ up /\ answers[c] # None /\ c \notin looking
    /\ answers' = [answers EXCEPT ![c] = None]
    /\ UNCHANGED <<durable, up, ready, opening, queued, tx, looking>>

Next ==
    \/ OpenBegins \/ OpenEnds \/ Close \/ Crash \/ Restart
    \/ \E c \in Calls :
        \/ \E r \in Request : Call(c, r)
        \/ Begin(c) \/ BeginFails(c) \/ Transact(c)
        \/ LookUpRow(c) \/ LookUpEntry(c) \/ Used(c) \/ Die(c)

Spec == Init /\ [][Next]_vars
-----------------------------------------------------------------------------
(* The asynchronous store keeps the same promise as the synchronous ones:  *)
(* calls that overlap, a flag that is stale when it is used, reads between *)
(* the statements of others and a commit nobody heard of do not show.      *)
ImplementsLedger == Ledger!Spec

(* What a caller was told, or looked up, is durable.                       *)
AnswersAreDurable == Ledger!AnswersAreDurable

(* Operations accepted by overlapping calls never share an idempotency key.*)
KeysAreUnique == Ledger!KeysAreUnique
=============================================================================

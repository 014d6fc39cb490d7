-------------------------- MODULE MutationRecords --------------------------
(***************************************************************************)
(* What the store keeps durably: a row per operation, the journal of its   *)
(* status changes, and the ledger with the outcome of every mutation       *)
(* (packages/storage-sqlite/src/schema.ts), and what one request may do    *)
(* to them.  All operations live under one scope.                          *)
(*                                                                         *)
(* A row keeps its intent (all that sameIntent() compares besides the      *)
(* identifier), its status and its revision.  The command of a change is   *)
(* abstracted to its effect: whatever transition() computes, the status    *)
(* moves along ALLOWED_TRANSITIONS or stays, and the revision goes up.     *)
(***************************************************************************)
EXTENDS Naturals, FiniteSets

CONSTANTS
    None,           \* an absent value
    Ids,            \* operation identifiers
    Intents,        \* what may be asked of an operation
    Keys,           \* idempotency keys
    KeyOf,          \* the key of an intent, or None
    MutationIds,    \* identifiers of mutations
    MaxExpected     \* bound on the revision a change expects

Option(S) == S \cup {None}

AllowedTransitions ==
    [ACCEPTED  |-> {"EXECUTING", "FAILED"},
     EXECUTING |-> {"ACCEPTED", "UNKNOWN", "COMPLETED", "FAILED"},
     UNKNOWN   |-> {"EXECUTING", "VERIFYING"},
     VERIFYING |-> {"ACCEPTED", "UNKNOWN", "COMPLETED", "FAILED"},
     COMPLETED |-> {},
     FAILED    |-> {}]

Statuses == DOMAIN AllowedTransitions
TerminalStatuses == {"COMPLETED", "FAILED"}

(* SCHEDULE and RENEW keep the status; nothing touches a terminal row.     *)
MayBecome(status) ==
    AllowedTransitions[status] \cup ({status} \ TerminalStatuses)

Operation == [intent : Intents, status : Statuses, revision : Nat]

Acceptance == [kind : {"ACCEPT"}, id : Ids, mutationId : MutationIds,
               intent : Intents]
Mutation == [kind : {"CHANGE"}, id : Ids, mutationId : MutationIds,
             expectedRevision : 0 .. MaxExpected]
Request == Acceptance \cup Mutation

Event == [id : Ids, revision : Nat, from : Option(Statuses), to : Statuses]
Entry == [request : Request, operation : Operation]

AnswerKinds == {"COMMITTED", "EXISTING", "CONFLICT", "ERROR",
                "INDETERMINATE", "FOUND", "ABSENT"}
Answer == [kind : AnswerKinds, request : Request,
           operation : Option(Operation)]

ASSUME RecordsAssumption ==
    /\ MaxExpected \in Nat
    /\ KeyOf \in [Intents -> Option(Keys)]
    /\ None \notin Operation \cup Statuses \cup Answer

Reply(kind, r) == [kind |-> kind, request |-> r, operation |-> None]
ReplyWith(kind, r, op) == [kind |-> kind, request |-> r, operation |-> op]
-----------------------------------------------------------------------------
(* The ledger entry under a mutation identifier.                           *)
Prior(ledger, r) ==
    {e \in ledger : /\ e.request.id = r.id
                    /\ e.request.mutationId = r.mutationId}

(* Mutant of KeyTaken: the key of a finished operation counts as free.     *)
KeyTakenByUnfinished(rows, intent) ==
    /\ KeyOf[intent] # None
    /\ \E i \in Ids : /\ rows[i] # None
                     /\ KeyOf[rows[i].intent] = KeyOf[intent]
                     /\ rows[i].status \notin TerminalStatuses

(* An intent whose idempotency key an operation already has.               *)
KeyTaken(rows, intent) ==
    /\ KeyOf[intent] # None
    /\ \E i \in Ids : rows[i] # None /\ KeyOf[rows[i].intent] = KeyOf[intent]

(* Mutant of Results: acceptance forgets the revision.                     *)
ResultsUnversioned(rows, r) ==
    IF r.kind = "ACCEPT"
    THEN IF rows[r.id] = None /\ ~KeyTaken(rows, r.intent)
         THEN {[intent |-> r.intent, status |-> "ACCEPTED"]} ELSE {}
    ELSE IF rows[r.id] # None /\ rows[r.id].revision = r.expectedRevision
         THEN {[rows[r.id] EXCEPT !.status = s, !.revision = @ + 1] :
                  s \in MayBecome(rows[r.id].status)}
         ELSE {}

(* The rows the request may put in place of the current one.               *)
Results(rows, r) ==
    CASE r.kind = "ACCEPT" ->
            IF rows[r.id] = None /\ ~KeyTaken(rows, r.intent)
            THEN {[intent |-> r.intent, status |-> "ACCEPTED",
                   revision |-> 0]}
            ELSE {}
      [] r.kind = "CHANGE" ->
            IF /\ rows[r.id] # None
               /\ rows[r.id].revision = r.expectedRevision
            THEN {[rows[r.id] EXCEPT !.status = s, !.revision = @ + 1] :
                     s \in MayBecome(rows[r.id].status)}
            ELSE {}

(* The journal entry of putting op in place of the row; none for a change  *)
(* that keeps the status.                                                  *)
EventOf(rows, id, op) ==
    LET from == IF rows[id] = None THEN None ELSE rows[id].status
    IN IF from = op.status THEN {}
       ELSE {[id |-> id, revision |-> op.revision,
              from |-> from, to |-> op.status]}
=============================================================================

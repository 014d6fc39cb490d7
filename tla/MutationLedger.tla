--------------------------- MODULE MutationLedger ---------------------------
(***************************************************************************)
(* What StoragePort promises of its mutations (ports.ts): each happens at  *)
(* once or not at all, row, event and ledger together, at most once per    *)
(* mutation identifier, and its answer never claims more than is durable.  *)
(* The answer may be lost, or be INDETERMINATE; it is settled by looking   *)
(* the identifier up.                                                      *)
(***************************************************************************)
EXTENDS MutationRecords

CONSTANT Stores     \* open stores, each a connection of its own

VARIABLES
    rows,           \* durable row of each operation, or None
    events,         \* durable journal of status changes
    ledger,         \* durable outcomes of mutations
    answers         \* answer a store gave and its caller has not used yet

durable == <<rows, events, ledger>>
vars == <<rows, events, ledger, answers>>

TypeOK ==
    /\ rows \in [Ids -> Option(Operation)]
    /\ events \subseteq Event
    /\ ledger \subseteq Entry
    /\ answers \in [Stores -> Option(Answer)]

Init ==
    /\ rows = [i \in Ids |-> None]
    /\ events = {}
    /\ ledger = {}
    /\ answers = [s \in Stores |-> None]
-----------------------------------------------------------------------------
(* The mutation takes effect; its caller learns so, or that it may have,   *)
(* or dies before it learns anything.                                      *)
Apply(s, r) ==
    /\ answers[s] = None
    /\ Prior(ledger, r) = {}
    /\ \E op \in Results(rows, r) :
        /\ rows' = [rows EXCEPT ![r.id] = op]
        /\ events' = events \cup EventOf(rows, r.id, op)
        /\ ledger' = ledger \cup {[request |-> r, operation |-> op]}
        /\ \E a \in {ReplyWith("COMMITTED", r, op),
                     Reply("INDETERMINATE", r), None} :
               answers' = [answers EXCEPT ![s] = a]

(* What may be answered without any effect: an outcome only if the ledger  *)
(* has it, an existing operation only if it is the one meant, a conflict   *)
(* only if the request never took effect.                                  *)
Truthful(r) ==
    {ReplyWith("COMMITTED", r, e.operation) :
        e \in {f \in ledger : f.request = r}}
    \cup {ReplyWith("EXISTING", r, op) :
        op \in {rows[i] : i \in {j \in Ids :
                    /\ r.kind = "ACCEPT" /\ r.id = j
                    /\ rows[j] # None
                    /\ rows[j].intent = r.intent}}}
    \cup {Reply("CONFLICT", q) :
        q \in {r} \ {e.request : e \in ledger}}
    \cup {Reply("ERROR", r), Reply("INDETERMINATE", r)}

Respond(s, r) ==
    /\ answers[s] = None
    /\ \E a \in Truthful(r) : answers' = [answers EXCEPT ![s] = a]
    /\ UNCHANGED durable

(* The caller looks an indeterminate mutation up.                          *)
Resolve(s) ==
    /\ answers[s] # None
    /\ answers[s].kind = "INDETERMINATE"
    /\ LET r == answers[s].request IN
        \/ \E e \in Prior(ledger, r) :
            answers' = [answers EXCEPT
                           ![s] = ReplyWith("FOUND", r, e.operation)]
        \/ /\ Prior(ledger, r) = {}
           /\ answers' = [answers EXCEPT ![s] = Reply("ABSENT", r)]
    /\ UNCHANGED durable

(* The caller goes on, or dies.                                            *)
Forget(s) ==
    /\ answers[s] # None
    /\ answers' = [answers EXCEPT ![s] = None]
    /\ UNCHANGED durable

Next == \E s \in Stores :
    \/ \E r \in Request : Apply(s, r) \/ Respond(s, r)
    \/ Resolve(s)
    \/ Forget(s)

Spec == Init /\ [][Next]_vars
-----------------------------------------------------------------------------
EntriesAt(entries, i, n) ==
    {e \in entries : e.request.id = i /\ e.operation.revision = n}

(* The ledger of an operation is its complete history: one entry for each  *)
(* revision from 0 to the row's and none beyond, all of the row's intent,  *)
(* the last one being the row; no mutation identifier twice.  The code     *)
(* reconciles a lost answer by this, however many mutations came after.    *)
LedgerIsComplete ==
    /\ \A e \in ledger :
        /\ rows[e.request.id] # None
        /\ e.operation.intent = rows[e.request.id].intent
        /\ e.operation.revision <= rows[e.request.id].revision
    /\ \A i \in Ids : rows[i] # None =>
        /\ \A n \in 0 .. rows[i].revision :
            \E e \in ledger : EntriesAt(ledger, i, n) = {e}
        /\ \A e \in EntriesAt(ledger, i, rows[i].revision) :
            e.operation = rows[i]
    /\ \A e, f \in ledger : f \in Prior(ledger, e.request) => e = f

StatusBefore(entries, e) ==
    IF e.operation.revision = 0 THEN {None}
    ELSE {f.operation.status :
             f \in EntriesAt(entries, e.request.id, e.operation.revision - 1)}

(* The journal is exactly the status changes the ledger records.           *)
JournalMatchesLedger ==
    events = UNION {{[id |-> e.request.id, revision |-> e.operation.revision,
                      from |-> from, to |-> e.operation.status] :
                        from \in StatusBefore(ledger, e) \ {e.operation.status}} :
                    e \in ledger}

(* Two operations never share an idempotency key.                          *)
KeysAreUnique ==
    \A i, j \in Ids :
        /\ rows[i] # None /\ rows[j] # None
        /\ KeyOf[rows[i].intent] = KeyOf[rows[j].intent]
        /\ KeyOf[rows[i].intent] # None
        => i = j

(* What a caller was told is and stays durable: COMMITTED and FOUND name   *)
(* an outcome of the ledger, EXISTING an operation of the same intent.     *)
AnswersAreDurable ==
    \A s \in Stores : answers[s] # None =>
        LET a == answers[s] IN
        /\ a.kind = "COMMITTED" =>
            [request |-> a.request, operation |-> a.operation] \in ledger
        /\ a.kind = "FOUND" =>
            \E e \in Prior(ledger, a.request) : e.operation = a.operation
        /\ a.kind = "EXISTING" =>
            /\ a.operation # None
            /\ rows[a.request.id] # None
            /\ rows[a.request.id].intent = a.request.intent
            /\ a.operation.revision <= rows[a.request.id].revision
=============================================================================

------------------------------ MODULE WorkScan ------------------------------
(***************************************************************************)
(* How passes reach the work (OperationEngine.runOnce in                   *)
(* packages/core/src/engine.ts, scanWork in                                *)
(* packages/storage-sqlite/src/store.ts): pages by key over the operations *)
(* of one scope, while rows are accepted, taken and ended by overlapping   *)
(* passes and a row may become unreadable.  Identifiers are numbers, their *)
(* order is the order of the keys.  A visit of a row is one step: what may *)
(* go wrong inside it is OperationEngine's subject.                        *)
(***************************************************************************)
EXTENDS Naturals, FiniteSetsExt

CONSTANTS
    Size,           \* identifiers are 1 .. Size
    Passes,
    Limit,          \* rows of a page
    MaxMishaps      \* bound: passes broken off and rows damaged

ASSUME ScanAssumption ==
    Size \in Nat /\ Limit \in Nat \ {0} /\ MaxMishaps \in Nat

Ids == 1 .. Size

VARIABLES
    row,        \* per identifier: what scanWork would find
    due,        \* identifiers whose row has work a visit would take up
    stage,      \* per pass: where runOnce stands
    cursor,     \* per pass: where its next page begins; 0 for null
    items,      \* per pass: the rest of the page it is working through
    current,    \* per pass: those of them whose row is still as it was read
    missed,     \* history, per pass: open all along and not yet visited
    mishaps

passVars == <<stage, cursor, items>>
vars == <<row, due, passVars, current, missed, mishaps>>

TypeOK ==
    /\ row \in [Ids -> {"absent", "open", "unreadable", "ended"}]
    /\ due \in SUBSET Ids
    /\ stage \in [Passes -> {"idle", "scanning", "visiting", "done"}]
    /\ cursor \in [Passes -> 0 .. Size]
    /\ items \in [Passes -> SUBSET Ids]
    /\ \A p \in Passes : Cardinality(items[p]) <= Limit
    /\ current \in [Passes -> SUBSET Ids] /\ missed \in [Passes -> SUBSET Ids]
    /\ mishaps \in 0 .. MaxMishaps

Init ==
    /\ row \in [Ids -> {"absent", "open"}] /\ due = {i \in Ids : row[i] = "open"}
    /\ stage = [p \in Passes |-> "idle"]
    /\ cursor = [p \in Passes |-> 0]
    /\ items = [p \in Passes |-> {}]
    /\ current = [p \in Passes |-> {}] /\ missed = [p \in Passes |-> {}]
    /\ mishaps = 0
-----------------------------------------------------------------------------
(* The rows scanWork fetches: one more than the page holds, in key order.  *)
Listed(after) == {i \in Ids : i > after /\ row[i] \in {"open", "unreadable"}}
Lowest(n, ids) == {i \in ids : Cardinality({j \in ids : j < i}) < n}
Fetched(after) == Lowest(Limit + 1, Listed(after))

(* Mutant of Page: the extra row is given out too.                         *)
PageOfAllFetched(after) == Fetched(after)

Page(after) == Lowest(Limit, Fetched(after))

(* Mutant of NextCursor: the cursor is the extra row, which is then skipped. *)
NextCursorOfExtra(after) ==
    IF Fetched(after) # Page(after) THEN Max(Fetched(after)) ELSE 0

(* Mutant of NextCursor: there is never a second page.                     *)
NextCursorNone(after) == 0

NextCursor(after) ==
    IF Fetched(after) # Page(after) THEN Max(Page(after)) ELSE 0

Open == {i \in Ids : row[i] = "open"}

Start(p) ==
    /\ stage[p] \in {"idle", "done"}
    /\ stage' = [stage EXCEPT ![p] = "scanning"]
    /\ cursor' = [cursor EXCEPT ![p] = 0]
    /\ missed' = [missed EXCEPT ![p] = Open]
    /\ UNCHANGED <<row, due, items, current, mishaps>>

ScanPage(p) ==
    /\ stage[p] = "scanning"
    /\ \A i \in Page(cursor[p]) : row[i] = "open"
    /\ stage' = [stage EXCEPT ![p] = "visiting"]
    /\ items' = [items EXCEPT ![p] = Page(cursor[p])]
    /\ cursor' = [cursor EXCEPT ![p] = NextCursor(@)]
    /\ current' = [current EXCEPT ![p] = Page(cursor[p])]
    /\ UNCHANGED <<row, due, missed, mishaps>>

(* The pass ends where it stands.                                          *)
EndsEarly(p) ==
    /\ stage' = [stage EXCEPT ![p] = "idle"]
    /\ items' = [items EXCEPT ![p] = {}]
    /\ current' = [current EXCEPT ![p] = {}]
    /\ missed' = [missed EXCEPT ![p] = {}]
    /\ cursor' = [cursor EXCEPT ![p] = 0]
    /\ UNCHANGED <<row, due>>

(* One row of the page does not decode: the page is an ERROR.              *)
ScanFails(p) ==
    /\ stage[p] = "scanning"
    /\ \E i \in Page(cursor[p]) : row[i] = "unreadable"
    /\ EndsEarly(p) /\ UNCHANGED mishaps

(* Storage fails, a listener throws, or the process dies.                  *)
BreakOff(p) ==
    /\ stage[p] \in {"scanning", "visiting"} /\ mishaps < MaxMishaps
    /\ mishaps' = mishaps + 1
    /\ EndsEarly(p)

Visited(p) ==
    /\ items' = [items EXCEPT ![p] = @ \ {Min(items[p])}]
    /\ missed' = [missed EXCEPT ![p] = @ \ {Min(items[p])}]
    /\ UNCHANGED <<stage, cursor, mishaps>>

(* The row is due and still as it was read: claimed and worked on, or      *)
(* recovered.  It may be due again later.                                  *)
Take(p) ==
    /\ stage[p] = "visiting" /\ items[p] # {}
    /\ LET i == Min(items[p])
       IN  /\ i \in due \cap current[p]
           /\ due' = due \ {i}
           /\ \E to \in {"open", "ended"} : row' = [row EXCEPT ![i] = to]
           /\ current' = [q \in Passes |-> current[q] \ {i}]
    /\ Visited(p)

(* Nothing is due, or the row has changed and storage refuses.             *)
Skip(p) ==
    /\ stage[p] = "visiting" /\ items[p] # {}
    /\ Min(items[p]) \notin due \cap current[p]
    /\ current' = [current EXCEPT ![p] = @ \ {Min(items[p])}]
    /\ Visited(p)
    /\ UNCHANGED <<row, due>>

TurnPage(p) ==
    /\ stage[p] = "visiting" /\ items[p] = {}
    /\ stage' = [stage EXCEPT ![p] = IF cursor[p] = 0 THEN "done" ELSE "scanning"]
    /\ UNCHANGED <<row, due, cursor, items, current, missed, mishaps>>
-----------------------------------------------------------------------------
Accept(i) ==
    /\ row[i] = "absent"
    /\ row' = [row EXCEPT ![i] = "open"]
    /\ due' = due \cup {i}
    /\ UNCHANGED <<passVars, current, missed, mishaps>>

(* Time passes: a retry falls due, or the lease of a claim expires.        *)
FallDue(i) ==
    /\ row[i] = "open" /\ i \notin due
    /\ due' = due \cup {i}
    /\ UNCHANGED <<row, passVars, current, missed, mishaps>>

(* The stored record is damaged, or larger than the limits in force.       *)
Corrupt(i) ==
    /\ row[i] = "open" /\ mishaps < MaxMishaps
    /\ row' = [row EXCEPT ![i] = "unreadable"]
    /\ mishaps' = mishaps + 1
    /\ due' = due \ {i}
    /\ current' = [q \in Passes |-> current[q] \ {i}]
    /\ UNCHANGED <<passVars, missed>>

Next ==
    \/ \E p \in Passes : \/ Start(p) \/ ScanPage(p) \/ ScanFails(p) \/ BreakOff(p)
                         \/ Take(p) \/ Skip(p) \/ TurnPage(p)
    \/ \E i \in Ids : Accept(i) \/ FallDue(i) \/ Corrupt(i)

(* The host starts some pass again and again, it may always be the same    *)
(* one; and each that was started goes on: the store answers, a call of    *)
(* the transport ends.                                                     *)
Fairness ==
    /\ WF_vars(\E p \in Passes : Start(p))
    /\ \A p \in Passes :
        /\ WF_vars(ScanPage(p) \/ ScanFails(p) \/ TurnPage(p))
        /\ WF_vars(Take(p) \/ Skip(p))

Spec == Init /\ [][Next]_vars /\ Fairness
-----------------------------------------------------------------------------
(* A pass that comes to its end has visited every operation that was open  *)
(* when it began and still is, whatever was accepted or ended meanwhile.   *)
PassReachesAll ==
    \A p \in Passes : stage[p] = "done" => missed[p] \cap Open = {}

(* Work that is due is taken up in the end, also when it comes late in the *)
(* order and a pass breaks off, unless some row of the scope is unreadable. *)
DueWorkIsTaken ==
    \A i \in Ids :
        (i \in due) ~> (i \notin due \/ \E j \in Ids : row[j] = "unreadable")

(* "Unreadable records are isolated from the scheduler" (ARCHITECTURE.md,  *)
(* section 10.1): they do not keep it from the others.                     *)
UnreadableIsIsolated == \A i \in Ids : (i \in due) ~> (i \notin due)
=============================================================================

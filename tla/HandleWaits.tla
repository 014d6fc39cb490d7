---------------------------- MODULE HandleWaits -----------------------------
(***************************************************************************)
(* Who is told that an operation ended (packages/core/src/engine.ts):      *)
(* promises of OperationHandle.confirmed() and listeners given to          *)
(* subscribe(), on one operation in the memory of one activation.  Other   *)
(* activations share the row and publish nothing here.                     *)
(*                                                                         *)
(* JavaScript runs to completion: while publish() walks a Set of listeners *)
(* nothing else of this activation runs, except what the listener just     *)
(* called does.  The store answers at any time.                            *)
(***************************************************************************)
EXTENDS Naturals, SequencesExt

CONSTANTS
    None,           \* an absent value
    Waiters,        \* calls of confirmed()
    Watchers,       \* listeners the application gives to subscribe()
    Throwers,       \* those that may throw
    Passes,         \* passes and calls of execute() that publish
    MaxDisposals    \* bound: how often a watcher calls its unsubscribe

Listeners == Waiters \cup Watchers
Outcomes == {"COMPLETED", "FAILED"}
Statuses == Outcomes \cup {"OPEN"}

(* A publish() under way: what it tells, the Set it walks, whom it called. *)
Publications == [status : Statuses, set : Listeners,
                 called : SUBSET Listeners, last : Listeners \cup {None}]

ASSUME WaitsAssumption ==
    /\ Throwers \subseteq Watchers /\ Waiters \cap Watchers = {}
    /\ MaxDisposals \in Nat
    /\ None \notin Listeners \cup Statuses \cup Publications

VARIABLES
    row,        \* the operation's status in the store: "OPEN" until it ends
    carried,    \* per pass: the operation it was answered and will publish
    announced,  \* history: has a pass been answered that the operation ended?
    joined,     \* subscribed listeners, in the order of their subscription
    setOf,      \* per listener: the Set it joined, named by its first member
    mapped,     \* the Set the engine's map holds for the operation, or None
    loop,       \* the publish() under way, or None
    promise,    \* per waiter: its promise
    read,       \* per waiter: its status() read
    disposals,  \* per watcher: calls of its unsubscribe so far
    deprived    \* history: waiters a throwing listener cost the outcome

storeVars == <<row, carried, announced>>
engineVars == <<joined, setOf, mapped, loop>>
vars == <<storeVars, engineVars, promise, read, disposals, deprived>>

TypeOK ==
    /\ row \in Statuses /\ announced \in BOOLEAN
    /\ carried \in [Passes -> Statuses \cup {None}]
    /\ joined \in Seq(Listeners) /\ IsInjective(joined)
    /\ setOf \in [Listeners -> Listeners \cup {None}]
    /\ mapped \in Listeners \cup {None}
    /\ loop \in Publications \cup {None}
    /\ promise \in [Waiters -> {"none", "pending", "ERROR"} \cup Outcomes]
    /\ read \in [Waiters -> {"none", "asked", "done", "ERROR"} \cup Statuses]
    /\ disposals \in [Watchers -> 0 .. MaxDisposals]
    /\ deprived \subseteq Waiters

Init ==
    /\ row = "OPEN" /\ announced = FALSE
    /\ carried = [p \in Passes |-> None]
    /\ joined = <<>>
    /\ setOf = [l \in Listeners |-> None]
    /\ mapped = None /\ loop = None
    /\ promise = [w \in Waiters |-> "none"]
    /\ read = [w \in Waiters |-> "none"]
    /\ disposals = [l \in Watchers |-> 0]
    /\ deprived = {}
-----------------------------------------------------------------------------
(* Application code runs between jobs, or in a watcher just called.        *)
AppRuns == loop # None => loop.last \in Watchers

Members(set) == {l \in Range(joined) : setOf[l] = set}

Subscribe(l) ==
    /\ joined' = Append(joined, l)
    /\ mapped' = IF mapped = None THEN l ELSE mapped
    /\ setOf' = [setOf EXCEPT ![l] = mapped']

(* Mutant of Unsubscribe: the map forgets the Set whoever is left in it.   *)
UnsubscribeAll(l) ==
    /\ joined' = RemoveFirst(joined, l)
    /\ mapped' = None
    /\ UNCHANGED setOf

(* Mutant of Unsubscribe: an empty Set stays in the map.                   *)
UnsubscribeOnly(l) ==
    /\ joined' = RemoveFirst(joined, l)
    /\ UNCHANGED <<mapped, setOf>>

(* The closure keeps the Set it joined, and forgets whatever Set the map   *)
(* holds by now once its own is empty.                                     *)
Unsubscribe(l) ==
    /\ joined' = RemoveFirst(joined, l)
    /\ mapped' = IF Members(setOf[l]) \ {l} = {} THEN None ELSE mapped
    /\ UNCHANGED setOf

Settle(w, outcome) ==
    /\ promise' = [promise EXCEPT ![w] = outcome]
    /\ Unsubscribe(w)
-----------------------------------------------------------------------------
(* Mutant of Commit: the revision is not compared.                         *)
CommitOver(p) ==
    /\ carried[p] = None
    /\ row' \in Statuses
    /\ carried' = [carried EXCEPT ![p] = row']
    /\ announced' = (announced \/ row' \in Outcomes)
    /\ UNCHANGED <<engineVars, promise, read, disposals, deprived>>

(* A mutation of this activation commits and is answered COMMITTED.        *)
Commit(p) ==
    /\ carried[p] = None /\ row = "OPEN"
    /\ row' \in Statuses
    /\ carried' = [carried EXCEPT ![p] = row']
    /\ announced' = (announced \/ row' \in Outcomes)
    /\ UNCHANGED <<engineVars, promise, read, disposals, deprived>>

(* execute() of an operation that exists is answered its current row.      *)
FindExisting(p) ==
    /\ carried[p] = None
    /\ carried' = [carried EXCEPT ![p] = row]
    /\ announced' = (announced \/ row \in Outcomes)
    /\ UNCHANGED <<row, engineVars, promise, read, disposals, deprived>>

(* Another activation ends the operation, or a commit of this one takes    *)
(* effect and is answered INDETERMINATE: nothing is published here.        *)
EndUnheard ==
    /\ row = "OPEN"
    /\ row' \in Outcomes
    /\ UNCHANGED <<carried, announced, engineVars, promise, read, disposals, deprived>>

(* The pass resumes and calls publish().                                   *)
Publish(p) ==
    /\ carried[p] # None /\ loop = None
    /\ loop' = IF mapped = None THEN None
               ELSE [status |-> carried[p], set |-> mapped, called |-> {}, last |-> None]
    /\ carried' = [carried EXCEPT ![p] = None]
    /\ UNCHANGED <<row, announced, joined, setOf, mapped, promise, read, disposals, deprived>>

(* The Set is walked in insertion order; members that join it on the way   *)
(* are reached, members that left are not.                                 *)
Uncalled == Members(loop.set) \ loop.called

IsNext(l) ==
    \E i \in DOMAIN joined :
        joined[i] = l /\ \A j \in 1 .. i - 1 : joined[j] \notin Uncalled

CallNext ==
    /\ loop # None
    /\ \E l \in Uncalled :
          /\ IsNext(l)
          /\ loop' = [loop EXCEPT !.called = @ \cup {l}, !.last = l]
          /\ IF l \in Waiters /\ loop.status \in Outcomes
             THEN Settle(l, loop.status)
             ELSE UNCHANGED <<joined, setOf, mapped, promise>>
    /\ UNCHANGED <<storeVars, read, disposals, deprived>>

EndLoop ==
    /\ loop # None /\ Uncalled = {}
    /\ loop' = None
    /\ UNCHANGED <<storeVars, joined, setOf, mapped, promise, read, disposals, deprived>>

(* The exception leaves publish() and ends the pass.                       *)
Throw ==
    /\ loop # None /\ loop.last \in Throwers
    /\ loop' = None
    /\ deprived' = IF loop.status \in Outcomes
                   THEN deprived \cup (Uncalled \cap Waiters) ELSE deprived
    /\ UNCHANGED <<storeVars, joined, setOf, mapped, promise, read, disposals>>
-----------------------------------------------------------------------------
(* Mutant of Confirmed: the status is the one the handle was made with.    *)
ConfirmedFromSnapshot(w) ==
    /\ promise[w] = "none" /\ AppRuns
    /\ Subscribe(w)
    /\ promise' = [promise EXCEPT ![w] = "pending"]
    /\ read' = [read EXCEPT ![w] = "OPEN"]
    /\ UNCHANGED <<storeVars, loop, disposals, deprived>>

(* confirmed(): subscribe first, then ask the store.                       *)
Confirmed(w) ==
    /\ promise[w] = "none" /\ AppRuns
    /\ Subscribe(w)
    /\ promise' = [promise EXCEPT ![w] = "pending"]
    /\ read' = [read EXCEPT ![w] = "asked"]
    /\ UNCHANGED <<storeVars, loop, disposals, deprived>>

(* The store reads the row, or fails.                                      *)
ReadRow(w) ==
    /\ read[w] = "asked"
    /\ \E value \in {row, "ERROR"} : read' = [read EXCEPT ![w] = value]
    /\ UNCHANGED <<storeVars, engineVars, promise, disposals, deprived>>

(* Mutant of ReadReturns: whatever was read settles the promise.           *)
ReadReturnsAny(w) ==
    /\ read[w] \in Statuses \cup {"ERROR"} /\ loop = None
    /\ read' = [read EXCEPT ![w] = "done"]
    /\ IF promise[w] = "pending"
       THEN Settle(w, read[w])
       ELSE UNCHANGED <<joined, setOf, mapped, promise>>
    /\ UNCHANGED <<storeVars, loop, disposals, deprived>>

(* The continuation of the read, a job of its own.                         *)
ReadReturns(w) ==
    /\ read[w] \in Statuses \cup {"ERROR"} /\ loop = None
    /\ read' = [read EXCEPT ![w] = "done"]
    /\ IF promise[w] = "pending" /\ read[w] # "OPEN"
       THEN Settle(w, read[w])
       ELSE UNCHANGED <<joined, setOf, mapped, promise>>
    /\ UNCHANGED <<storeVars, loop, disposals, deprived>>

Watch(l) ==
    /\ setOf[l] = None /\ AppRuns
    /\ Subscribe(l)
    /\ UNCHANGED <<storeVars, loop, promise, read, disposals, deprived>>

Dispose(l) ==
    /\ setOf[l] # None /\ AppRuns
    /\ disposals[l] < MaxDisposals
    /\ disposals' = [disposals EXCEPT ![l] = @ + 1]
    /\ Unsubscribe(l)
    /\ UNCHANGED <<storeVars, loop, promise, read, deprived>>

Next ==
    \/ \E p \in Passes : Commit(p) \/ FindExisting(p) \/ Publish(p)
    \/ EndUnheard
    \/ CallNext \/ EndLoop \/ Throw
    \/ \E w \in Waiters : Confirmed(w) \/ ReadRow(w) \/ ReadReturns(w)
    \/ \E l \in Watchers : Watch(l) \/ Dispose(l)

(* The store answers reads.  Every job that is ready gets its turn, though *)
(* others may come before it again and again: the queue is first in, first *)
(* out.  Nobody has to commit, subscribe or call execute().                *)
Fairness ==
    /\ WF_vars(CallNext \/ EndLoop)
    /\ \A p \in Passes : SF_vars(Publish(p))
    /\ \A w \in Waiters : WF_vars(ReadRow(w)) /\ SF_vars(ReadReturns(w))

Spec == Init /\ [][Next]_vars /\ Fairness
-----------------------------------------------------------------------------
(* A listener left twice: its second unsubscribe forgets the Set of those  *)
(* who joined in between.                                                  *)
LeftTwice == \E l \in Watchers : disposals[l] > 1

(* A promise still pending keeps its listener, and the Set of that is the  *)
(* one the map holds, so the next publication reaches it, unless some      *)
(* listener left twice.                                                    *)
PendingIsReachable ==
    \A w \in Waiters : promise[w] = "pending" =>
        w \in Range(joined) /\ (setOf[w] = mapped \/ LeftTwice)

(* Nothing outlives its purpose: a settled promise leaves no listener      *)
(* behind, and the map holds no Set without members.                       *)
NothingLeaks ==
    /\ \A w \in Waiters : promise[w] # "pending" => w \notin Range(joined)
    /\ mapped # None => Members(mapped) # {}

(* Whichever way a promise is settled, by a publication that was delayed,  *)
(* by a read that was, in whatever order with those of other passes, it    *)
(* has the outcome the store has.                                          *)
SettledAsStored == \A w \in Waiters : promise[w] \in Outcomes => promise[w] = row

(* A pending promise of an end that was announced is never forgotten: the  *)
(* outcome is carried to it by a pass, or published to it next, or it has  *)
(* a read ahead that will settle it, unless it was deprived of it or some  *)
(* listener left twice.  This is what may not be lost on the way to        *)
(* AnnouncedEndIsHeard.                                                    *)
EndIsOnItsWay ==
    \A w \in Waiters : (announced /\ promise[w] = "pending") =>
        \/ \E p \in Passes : carried[p] \in Outcomes
        \/ loop # None /\ loop.status \in Outcomes /\ w \in Uncalled
        \/ read[w] \in {"asked", "ERROR"} \cup Outcomes
        \/ w \in deprived \/ LeftTwice

(* Once this activation has been answered that the operation ended, every  *)
(* promise, asked for before or after, is settled, whichever way reads,    *)
(* publications and subscriptions interleave, unless a listener that       *)
(* subscribed earlier threw out of the very publication it waited for, or  *)
(* some listener left twice.                                               *)
AnnouncedEndIsHeard ==
    \A w \in Waiters :
        (announced /\ promise[w] = "pending")
            ~> (promise[w] # "pending" \/ w \in deprived \/ LeftTwice)
=============================================================================

# Mobile Operation Reliability, in TLA+

This directory specifies the core of the SDK: how a durable operation is
accepted, claimed, executed, verified, recovered and settled, by engines that
share one store, die, overlap and talk to a backend over a network that loses
and delays requests. The modules are translated from the sources under
`packages/`; the documents (`ARCHITECTURE.md`, `RELIABILITY.md`, `docs/`) are
used only for what they ask of code that lies outside the repository, the
application's transport and its backend.

## 1. Inventory

| Component | State it keeps | Operations |
|---|---|---|
| Operation record and state machine (`core/src/operation.ts`, `state-machine.ts`) | one record: status, uncertainty, counters, fence, lease, active attempt, schedule, hold, evidence, outcome, revision | `proposeAcceptance`; `transition` with CLAIM, EXECUTION_RESULT, VERIFICATION_RESULT, RECOVER_EXPIRED, RENEW, FAIL_LOCAL, SCHEDULE |
| Retry policy (`core/src/retry-policy.ts`) | none | `validateRetryPolicy`, `nextRetryAt`, `isReplaySafe` |
| Engine (`core/src/engine.ts`) | passes in progress, each with a snapshot and an answer | `execute`, `runOnce` = scan, then per row `executeCandidate`, `verifyCandidate` or `maintainLease` |
| Handles and listeners (`core/src/engine.ts`) | listeners per operation, promises waiting in `confirmed()` | `subscribe` and its unsubscribe, `publish`, `confirmed`, `status` |
| Scheduler, network hints (`core/src/engine.ts`) | a timer, a subscription | `run`, `wake`, `start`: they cause passes |
| SQLite store (`storage-sqlite/src/store.ts`, `schema.ts`, `codec.ts`) | operations, event journal, ledger of mutations | `open`, `accept`, `claim`/`renew`/`commitTransition`/`recoverExpired`/`updateScheduling` (all `mutate`), `get`, `scanWork`, `getMutation`, `readEvents`, `close` |
| Expo store (`storage-expo/src`) | the same tables, a ready flag, calls waiting between two statements | the same operations; a mutation runs in an exclusive asynchronous transaction |
| Transport and backend (application; `examples/` hold two) | requests under way, effects applied | `execute`, `verify` |
| Inspector, JSON snapshots, errors, test doubles, screens, scripts, site | none that the protocol depends on | not modelled |

How they interact. The application calls `engine.execute`, which proposes a
record and has the store accept it. Anything, a timer, a reconnection, a
return to the foreground or a call, starts a pass of `runOnce`; passes overlap,
within an activation of the engine and between activations that share the
database. A pass reads a page of rows, and for each row claims it through the
store, calls the transport exactly once for a committed claim, and commits what
the transport says. It never writes a record itself: the store runs
`transition` on the current row inside one transaction, with the store's own
clock, and compares the revision the caller saw.

What is hard.

- *Interleaving*: every `await` lets other passes, activations and the
  application change the row; revision, lease and fence must catch it.
- *Failure*: a process dies between claim, send, answer and commit; a commit
  ends as an error, or with no answer at all.
- *Delivery*: an answer is lost, a request arrives after its attempt was given
  up, or while a lookup is saying that nothing is there.
- *Time*: the wall clock decides about leases, due dates and the deduplication
  window, and it may jump.
- *Long sequences*: holds, reschedules, refused retries and exhausted budgets
  combine; every record a command may write is checked again on every read, and
  a record that fails the check can never be changed again.

What makes it correct, by component: the record stays consistent and its work
runnable, and an uncertain effect is settled only by evidence about the whole
operation (state machine); a replay never leaves the backend's window (replay
policy); at most one pass holds a live lease, a stale pass writes nothing, the work
of the dead comes free and every due row is reached (engine); the business effect
happens at most once and the recorded outcome is the true one (engine, store,
transport together); a mutation is applied once, with its event and its ledger
entry, and its answer is true (both stores); a waiter learns the outcome (handles).

## 2. Modules

| Module | Models | Checked with | Proofs |
|---|---|---|---|
| `RetryPolicy` | policies, back-off, replay safety, as pure operators | through the others | through the others |
| `OperationStateMachine` | the record and, per command, a guard and the record it returns | through the others | through the others |
| `OperationLifecycle` | one row and every command the store may commit on it | `MCOperationLifecycle` | `OperationLifecycleProofs` |
| `DurableOperation` | the promise made to the application: kept until settled, once, never on a guess | as a property of `OperationLifecycle` | in `OperationLifecycleProofs` |
| `OperationEngine` | passes of several activations on one row, crashes, the clock, transport and backend | `MCOperationEngine` | `OperationEngineProofs` |
| `LeaseRenewal` | claims of several activations on several rows under a clock without bound, with fairness | `MCLeaseRenewal`, and as a property of `OperationEngine` | that `OperationEngine` implements it, in `OperationEngineProofs`; liveness is checked |
| `WorkScan` | paging over the rows of a scope while they change, with fairness | `MCWorkScan` | `WorkScanProofs` |
| `HandleWaits` | `confirmed`, `subscribe`, `publish` on one operation, with fairness | `MCHandleWaits` | `HandleWaitsProofs` |
| `ReplayWindow` | the deduplication window of the backend against `isReplaySafe` of the device | `MCReplayWindow` | `ReplayWindowProofs` |
| `MutationRecords` | the three tables and what one request may do to them, as operators | through the others | lemmas in `MutationLedgerProofs` |
| `MutationLedger` | the promise of `StoragePort`: each mutation in one step or not at all, once, truly answered | as a property of `OperationStore` | `MutationLedgerProofs` |
| `OperationStore` | several stores on one file; transactions statement by statement, failures, crashes, `getMutation` | `MCOperationStore` | `OperationStoreProofs` |
| `ExpoStore` | the asynchronous store: calls that overlap at every await, on the statements of `OperationStore` | `MCExpoStore` | `ExpoStoreProofs` |

`OperationStateMachine` follows `transition()`: `XAllowed` is true exactly when
the command does not throw, the function beside it is the record returned, and
`Commit` is the common tail (revision and update time). The code's helper
names are kept (`Idle`, `Failed`, `Unknown`, `Owns` for `assertOwner`). The
checks `transition()` makes of its result, the transition table and
`assertOperationInvariants`, are *not* guards of the model: they are the
properties `StepsAreFenced` and `OperationInvariants`, so that what is shown is
that they never fire, not that they protect.

`OperationLifecycle` takes a mutation as one step, because `mutate` of the
store runs in one exclusive transaction. It puts no protocol on the callers:
any owner that ever held a lease may come back with any evidence, the clock
goes anywhere, and the application reschedules, holds and fails at any time.
`retryAfter` and `reschedules` are history variables.
It implements `DurableOperation` under the mapping at its end: of the record only
the phase, whether anything was tried, `unresolvedEffect` and the scope of the last
evidence remain.

`OperationEngine` restricts the callers to what the engine does. A pass is a
small machine `idle -> scanned -> claimed -> waiting -> answered -> idle`; the
arrows are the awaits of `runOnce`, `executeCandidate` and `verifyCandidate`.
`seen[p]` is the snapshot the pass works on, `answer[p]` what the transport
returned. `Skip` covers every early return and every mutation the store
refuses. `StorageMayFail` adds mutations that end as ERROR or INDETERMINATE; the
engine treats both as "not committed", and a claim that did commit is then left
behind by its pass. Engine and store each read the clock (`engine.ts:103`, `:138`, `:167`
and `store.ts:95`). `Claim` and `RecoverExpired` have one reading for both: the revision
makes the snapshot the row, and the store asks the same of it again, so what passes its
reading is all that can happen. Whether it is time to renew is asked by the engine alone,
and `RenewalDue` gives it a reading of its own when the clock may be set in between. The
backend is three sets: attempts whose request left the
device, attempts the backend will no longer apply, attempts that had their
effect. Its honesty is the contract of `docs/BACKEND_IDEMPOTENCY.md`: it claims
completion only when there is an effect, absence only when there is none and
none will come. Under an IDEMPOTENT or DEDUPLICATED guarantee it never forgets an
operation it has seen, so that `AtMostOneEffect` says most about the policy without
guarantee; a backend that forgets is `ReplayWindow`'s. `AbsenceCloses = FALSE` drops the last clause, which is what the
transports under `examples/` do. Attempt identifiers are numbered in the order
of the claims. Retry-After, holds and verifier absence are left to
`OperationLifecycle`.

`OperationStore` takes apart what the other modules take as one step. A mutation
is `Begin` (BEGIN IMMEDIATE), then `Return` (`prior` and the identity checks of
`accept` have the answer) or `Compute` (`transition`, or the proposal), then
`WriteRow`, `WriteEvent` when the status changes, `WriteEntry`, then `Commit`. Between
any two of these the other stores act, `Throw` may end the transaction (a
statement fails, a record is unreadable, or `transition` refuses, the only
refusal answered as CONFLICT by exception), and the process may `Crash`.
`CommitFails` answers INDETERMINATE with or without the effect. `RollBack` may
fail too, and then the store is not ready and keeps its uncommitted writes, and the
lock, until it is closed, dies, or is called again (the catch block of the next
call, refused with `StoreClosed`, rolls back what is open). `GetMutation` reads
what its own connection sees, uncommitted writes included: that it is safe is a
property, not an assumption. `CannotBegin` covers every call that never starts.
The uniqueness constraints of the schema are not modelled beside the checks
`accept` makes itself: under the lock they cannot fire. The command of a change
is reduced to the revision it expects; its effect is any status
`ALLOWED_TRANSITIONS` permits, or the same status, and what commands really do is
`OperationStateMachine`'s subject. SQLite is assumed to do what it documents: one
writer from BEGIN IMMEDIATE on, a COMMIT that is all or nothing.

`ExpoStore` instantiates `OperationStore` with one "store" per call, for the
statements of a transaction, and adds what is particular to
`AsyncSQLiteOperationStore`: the flag is read before the first await and not
again, so `Close` and `OpenEnds` come between (`queued`); `getMutation` is two reads
with an await between them (`LookUpRow`, `LookUpEntry`) and sees what is
committed (`Visible`); an error after `callbackCompleted` is INDETERMINATE even
if nothing was written; the process dies (`Crash`, then `Die` for each call) and
restarts. The driver, expo-sqlite, is assumed to run one exclusive transaction at
a time on a connection of its own, which is given back however the transaction
ends, so that there is no failed ROLLBACK to live with.

`MutationLedger` is what a caller may rely on. `Apply` changes row, journal and
ledger at once and answers COMMITTED, INDETERMINATE, or nothing (the caller died);
`Respond` changes nothing and may say only what is so; `Resolve` looks an
indeterminate mutation up. `OperationStore` implements it under the mapping that
forgets `tx` and `ready` (`Ledger == INSTANCE MutationLedger`).

`LeaseRenewal` asks what `OperationEngine`, whose clock is bounded, cannot: whether
claimed work ever comes free. A lease is the time it has left; of a record only
status, counters and owner are kept, of the pass that claimed it only whether it is
`gone`, still `waiting` for the transport, or `overtaken` by a renewal that moved the
revision under it (finding 1). A claim may lose its pass at once (the commit was
answered INDETERMINATE, or a listener threw out of `publish`), and `Renew` renews such
a claim too, as `maintainLease` does. That the abstraction leaves out no step of the
engines is not left to inspection: `WorksAsRenewal` at the end of `OperationEngine`
maps a row and its passes to it. A pass works on the row while the row has the fence
of its claim (`Works`), and is overtaken once the revision is another. Only the death
of the last activation has no counterpart: then nobody is left to recover anything.

`WorkScan` is the outer loop of `runOnce` with `scanWork`: one row more than the
page holds is fetched, the last row of the page is the next cursor, and any row
of the page that does not decode makes the page an ERROR and ends the pass. A
visit is one step, `Take` when the row is due and as it was read (`current`),
`Skip` otherwise. `run`, `wake` and `start` of the scheduler are `Start`.

`HandleWaits` is the memory of one activation. JavaScript runs to completion, so
`publish` is a loop (`loop`) inside which only the listener just called acts: it
may subscribe, unsubscribe, call `confirmed()`, or throw, which ends loop and
pass. `joined` and `setOf` are the insertion-ordered Sets of the engine's map;
an unsubscribe closure keeps the Set it joined, but deletes whatever Set the map
holds when its own is empty. `carried` is the operation a pass was answered and
has yet to publish. Reads of `confirmed()` are asked, answered and continued in
three steps.

`ReplayWindow` has two clocks, the true time and the device's. The device measures
the window from `firstExecutionAt`, the backend keeps a key from the arrival of the
request that had the effect; requests are late by up to `MaxDelay`, get lost, and
overtake one another. The integrator's duties are assumptions: the margin covers
the delay (`WindowAssumption`), and `BaseIsTrusted`, that the clock was right at the
first claim. The code enforces neither (`isClockTrusted` is asked at the replay); that
base and margin lie within the backend's retention is for the integration to justify
(`ARCHITECTURE.md:199`).

Left out everywhere: payload, type and versions of the definition, which no
transition changes; the scopes (all operations are reached under one);
`lastError`, which nothing assigns after acceptance; attempt deadlines, which
are handed to the transport and compared with nothing. The jitter sample is
taken as the delay it asks for, in ticks, cut at the cap.

## 3. Runs

| Run | Instance | Shows |
|---|---|---|
| `lifecycle` | three policies, two owners (symmetric), clock 0..2, two reschedules, one hold reason, two attempt identifiers | type and record invariants, budgets, Retry-After, retries due in range, uncertainty, fencing, work that runs out, the promise of `DurableOperation` |
| `effects` | two passes of two activations, policies without guarantee and idempotent, clock jumping in 0..2, failing storage, one reschedule | at most one effect, outcome true, a revision names a row, nobody renews for the dead |
| `lease` | three passes, two of one activation, clock ticking 0..3, failing storage | one live lease, one owner, `LeaseRenewal` is implemented |
| `renewal` | two operations, three activations, lease 2, lead 1, two executions, one verification, replays | work of the dead comes free, also where nothing is claimed; everything comes to rest where it is |
| `scan` | three identifiers, two passes, pages of two, one mishap | a pass reaches every open row, due work is taken |
| `waits` | two waiters, one watcher that may throw and leave twice, two passes | promises stay reachable, nothing leaks, promises are told what the store has, an announced end stays on its way and is heard |
| `history` | two stores, one operation, two intents, three mutation identifiers, changes expecting revision 0 or 1 | the atomic ledger is implemented, the ledger is complete, the journal agrees with it, answers are durable |
| `expo` | two overlapping calls, two operations, two intents of which one has a key, two mutation identifiers, changes expecting revision 0 | the same ledger is implemented, unique keys |
| `replay_window` | keys kept five ticks, margin 2, delay 2, four executions, clock off by 0 or 3, time up to 14 | one effect, replays inside the window |
| `lost_result` | two passes of one activation, no failures | *violated*: an owned result is dropped |
| `absence` | as `effects`, lookups do not close requests | *violated*: FAILED with an effect |
| `scan_unreadable` | two identifiers, one pass, one mishap | *violated*: an unreadable row keeps due work from being taken |

Bounds. A lease lasts two ticks and the clock reads at least three values, so a
claim can be renewed, expire and be recovered, and be claimed again after that;
with clock jumps every order of due date, expiry and reading occurs. Two
executions and one verification are the fewest with a replay after uncertainty
and an exhausted budget of each kind. The third policy has a single execution
and two verifications, so the budgets run out in both orders. Two passes are
enough for a stale one; the third, in `lease`, lets an overlapping pass of the
first owner renew while the second activation tries to take over. One
reschedule in `effects` is what it takes to turn an UNKNOWN operation into an
execution, that is, to replay.

For the stores, two (or two calls of one) are enough for every race on the lock,
and the state between them is all on disk. In `history` three mutation identifiers
allow an acceptance and two changes on top, so an indeterminate mutation may be
looked up after a later one was committed, and an identifier may be used again with
other contents; the two operations in `expo` are what a key can be shared by, and a
change in between lets the first one end. Identifiers, operations, stores and calls
are interchangeable and taken modulo symmetry; all properties there are safety
properties.

In `renewal` three activations let one die after another that still holds a
claim, and the counters reach both budgets. In `scan` three rows and pages of two
put a boundary inside the scope, one pass changes rows under the other, and the one
mishap is a damaged row or a pass broken off. In `waits` two disposals are what it
takes to leave twice, and the second waiter is the one who then waits in vain. In
`replay_window` the time allows two windows after one another, and the clock's error
is as long as the window itself, so a wrong clock can reopen a window that is over
and close one that is not.

Deadlock is checked except in three runs where the system really stops: the clock
only ticks to its bound (`lease`, `lost_result`), or every operation is at rest and
one activation is left (`renewal`).

The three violated properties are statements of the documents, quoted in
`PROJECT.json` with the lines of code that do otherwise.

1. *The result of an attempt is committed only once* (`engine.ts:124`), with the
   revision of the claim. A renewal by an overlapping pass moves the revision, so
   the answer is dropped though lease, fence and attempt are current.
   `ARCHITECTURE.md` section 9 asks for a second try under the live lease. What
   is lost is time and evidence, not safety (`AtMostOneEffect` and `OutcomeIsTrue`
   hold with it). The row goes UNKNOWN when the lease expires, but later passes of the
   same activation, for as long as it lives, renew the lease whenever one of them comes
   in time, and nobody is left who works under it: `KeptWithoutPass`, below.
2. *The example transports call a 404 final absence*, which the contract allows
   only when earlier requests can no longer arrive.
3. *An unreadable row is not isolated from the scheduler* (`ARCHITECTURE.md`,
   section 10.1): it makes an ERROR of its page, and the work on that page and on
   later ones is not visited as long as it is there.

Four more disagreements appear as exceptions in properties that hold; each property
is violated when its exception is taken out.

- `RetryAfterKept` speaks of ACCEPTED operations and of those with verifications
  left: when the last verification is inconclusive, `unknown()` schedules nothing
  and the date is lost (`RELIABILITY.md:13` calls it durable).
- `WorkComesToRest` excepts `KeptWithoutPass`: a claim whose pass never learned of
  it, died on a listener's exception, or had its result dropped (finding 1), is renewed for ever by its own activation
  (`engine.ts:177`), where `ARCHITECTURE.md:242` has it expire and become UNKNOWN.
- `PendingIsReachable` and `AnnouncedEndIsHeard` except `LeftTwice`: an unsubscribe
  that is called again forgets the Set of those who subscribed in between
  (`engine.ts:216`).
- `ReplayIsCovered` and `EffectOnce` assume `BaseIsTrusted`: whether the clock is
  trusted is asked at the replay, not when the base was written
  (`retry-policy.ts:66`).

Fairness. Only liveness properties use any, and each module states what the code's
scheduling gives.

- `LeaseRenewal`: time passes (`Tick`), and the host keeps starting passes of some living
  activation, which recover what has expired (weak fairness per operation, by whichever
  activation). `maintainLease` asks for neither network nor verifier, so this supposes no
  more than a host that goes on; `DeadOwnersWorkComesFree` needs nothing else.
  `WorkComesToRest` has a premise of its own, `WorkGoesOn`: the passes also claim what may
  be claimed, so the device is online, a verifier is registered, definition and
  credentials are ready and nothing is held (`engine.ts:102`, `:110`, `:138`), and a call
  of the transport ends and its result is committed or dropped. An operation that waits
  for a network or a verifier for ever does not come to rest, and no property says it
  would; without the premise TLC finds the property violated, and so it does without its
  part about calls or the one about verifications. Nothing asks anybody to renew in time,
  to schedule a replay, or to crash. `Crash` leaves one activation alive: without a host
  that starts passes nothing is ever recovered.
- `WorkScan`: some pass is started again and again, maybe always the same one
  (`WF_vars(\E p \in Passes : Start(p))`), and each that was started goes on: the store
  answers a scan, a visit ends. That several passes overlap, that a particular one is
  ever started, and acceptances are not asked for.
- `HandleWaits`: the loop of `publish` goes on (it is synchronous); reads are
  answered; a job that is ready runs although others run before it again and again
  (strong fairness of `Publish` and `ReadReturns`, which wait for the loop in
  progress): the job queue is first in, first out. Nobody has to commit, subscribe
  or call `execute()`, so the property is conditional on an end that this activation
  was told of. An end it is not told of (another activation, an indeterminate
  commit) reaches a promise only through a later `execute()`, and no property claims
  more.

## 4. Proofs

`OperationLifecycleProofs` proves for all constants that satisfy
`NoneAssumption` (the absent value is distinct from real ones) and
`LifecycleAssumption` (policies are valid, bounds and durations are natural
numbers):

| Theorem | Statement |
|---|---|
| `TypeCorrect` | `Spec => []TypeOK` |
| `InvariantsHold` | `Spec => []OperationInvariants` |
| `WorkKeepsBudget` | `Spec => []ScheduledWorkHasBudget` |
| `UncertaintyIsKept` | `Spec => UncertaintyEndsByBackend` |
| `EveryStepIsFenced` | `Spec => StepsAreFenced` |
| `RetryAfterIsKept` | `Spec => []RetryAfterKept` |
| `PromiseIsKept` | `Spec => KeepsPromise`, that is, `Durable!Spec` |
| `AttemptsRunOut` | `Spec => WorkRunsOut` |
| `RetriesStayInRange` | `Spec => RetriesAreInRange` |
| `CommandsAreStoredChanges` | `Spec => [][StoredStep]_vars`: what a command does to the row is what `MutationRecords` says a request may |

The inductive invariant is `Inv == TypeOK /\ (op # None => Sound(op))`, where
`Sound` joins `WellFormed` (the code's own invariants) and `WorkHasBudget`.
Neither is inductive alone: that a refused retry may be scheduled again needs
the budget test of the step before, the outcome clauses need that an active
record has an attempt whose ordinal is the counter, and both need the types of
the optional fields. The proof has one lemma per function of
`OperationStateMachine` (`IdleSound`, `ClaimedSound`, `ResolvedSound`, ...) that
says the record it returns is sound if the record it was given is and the guard
held; `CommitSound` adds the tail; `NextInv` takes one step per action.
`UncertaintyIsKept` follows from `ResolvedSettles`: of all functions only
`Resolved` clears uncertainty, and only under global backend evidence. For
`RetryAfterIsKept` the invariant is joined with one that relates the schedule to the
date also across a claim; `EveryStepIsFenced` and `PromiseIsKept` take the commands one by one under `Inv`, the latter
mapping each to one action of `DurableOperation` or to a stutter.
`AttemptsRunOut` measures an operation by the attempts its budgets have left and, below
that, by how far its status is from rest (`WorkLeft`): `Advances` says of each command
what it does to counters and status, and `Inv` that the counters never pass the budgets,
so that the measure is a natural number that no change of status leaves as it was. Why
it is no liveness theorem: that anything happens at all is fairness, left to
`WorkComesToRest`. `RetriesStayInRange` needs `NextRetryAtInRange`, the range of the
back-off for every jitter and date, which needs the cap where the back-off grows past it.
`CommandsAreStoredChanges` joins the record's side to the stores', which reduce a
command to its revision and a status the table permits (`Records!Results`): intent and
revision do as they say for every command, and none touches a terminal row. It assumes
that the absent value is no row (`Records!RecordsAssumption`).

`FAIL_LOCAL` with BUDGET_EXHAUSTED is dead code by `WorkKeepsBudget`: an
ACCEPTED operation always has execution budget left.

`OperationStoreProofs` proves, for any number of stores, operations, intents, keys
and mutation identifiers, from `RecordsAssumption` (keys belong to intents, the
absent value is distinct) and `StoreAssumption`:

| Theorem | Statement |
|---|---|
| `StoreTypeCorrect` | `Spec => []TypeOK` |
| `StoreImplementsLedger` | `Spec => ImplementsLedger`, that is, `Ledger!Spec` |
| `StoreKeepsLedger` | `Spec => [](LedgerIsComplete /\ JournalMatchesLedger /\ KeysAreUnique /\ AnswersAreDurable)` |
| `JournalIsExact`, `ToldIsDurable`, `KeysStayUnique` | its last three parts, each on its own |
| `LedgerHolds` (`MutationLedgerProofs`) | the same of the abstract module |

The refinement rests on an invariant that says why a decision taken before the
COMMIT may be made durable by it: a transaction excludes all others, also one left open by a
failed ROLLBACK (`Exclusive`); so the row it computed is still a result of its
request on the committed row, no entry has its identifier, and when it is about to
commit it has written all its tables or none (`Decided`). A ready store that
answered has no transaction, hence `getMutation` sees only what is durable. That a
conflict is answered only to a request without effect also needs that an identifier
has a single outcome (`OneOutcome`). `NextStep` takes the actions one by one: steps inside a
transaction are invisible (`InsideStep`), a COMMIT that takes effect is `Apply`
or a mere answer (`EffectStep`), whether it is reported or not, everything else that
answers is `Respond`. `LedgerHolds` is proved about `MutationLedger` alone, where the
interleavings are gone, and `StoreKeepsLedger` is inferred from it through the refinement.

`ExpoStoreProofs` proves the same of the asynchronous store, for any number of
overlapping calls, from `CallsAssumption` and `RecordsAssumption`. That its answers
are durable is proved only: the run `expo` checks the refinement and the keys.

| Theorem | Statement |
|---|---|
| `ExpoTypeCorrect` | `Spec => []TypeOK` |
| `ExpoImplementsLedger` | `Spec => ImplementsLedger` |
| `ExpoKeysStayUnique`, `ExpoToldIsDurable` | `Spec => []KeysAreUnique`, `Spec => []AnswersAreDurable` |

It instantiates `OperationStoreProofs` with a store per call that is always ready
(`P`), so that the steps inside a transaction are cited, not proved again, and the
invariant of the synchronous stores is the first half of `Inv`. The other half,
`CallInv`, is what overlapping calls add: a call waits, is in its transaction, or has
its answer, never two of these; a call between the two reads of a lookup still has
its indeterminate answer; the dead look nothing up. The flag occurs in it only in
that a store that is ready is alive: nothing rests on the flag being true when a
transaction begins. `SameRecords`, `SameStatements` and `SameLedger` say that the
instances speak of the same things.

`ReplayWindowProofs` proves, for every retention, margin, budget, delay and set of
skews that satisfy `WindowAssumption`, and under `BaseIsTrusted`:

| Theorem | Statement |
|---|---|
| `WindowTypeCorrect` | `BaseIsTrusted` gives `Spec => []TypeOK` |
| `EffectHappensOnce` | ... `Spec => []EffectOnce` |
| `ReplaysAreCovered` | ... `Spec => []ReplayIsCovered` |

What carries the induction is `RequestsInWindow`: a request under way arrives while a
key taken up at the first claim would still be kept, or it is alone, nothing has
happened yet, and the window is over, so no replay can follow it. The second case is
a first try again after a final absence, long after the first claim; without it the
invariant is not inductive, with `EffectOnce` alone nothing bounds the arrival.

`OperationEngineProofs` proves, for any number of activations, passes, policies,
lease durations, jitters and times that satisfy `EngineAssumption`, storage that may
fail or not, and any schedule of crashes:

| Theorem | Under | Statement |
|---|---|---|
| `EngineTypeCorrect` | | `Spec => []TypeOK` |
| `RowFollowsLifecycle` | | the row keeps the inductive invariant of `OperationLifecycle`, and every step is one of its steps or leaves the row alone |
| `EnginesKeepThePromise` | | so the row keeps `OperationInvariants`, `ScheduledWorkHasBudget`, `StepsAreFenced`, `WorkRunsOut`, `RetriesAreInRange` and `UncertaintyEndsByBackend`, and moves by steps of `DurableOperation` |
| `RevisionsNameRows` | | `Spec => []SnapshotIsRow` |
| `DeadLeasesAreLeft` | | `Spec => DeadLeasesRunOut` |
| `OneOwnerAtMost` | | `Spec => []OneOwner`, whatever the clock does |
| `OneLeaseLivesForward` | a clock never set back | `Spec => []OneLiveLease` |
| `OneLeaseLives` | `ClockJumps = FALSE` | the same, from it |
| `EnginesWorkAsRenewal` | `ClockJumps = FALSE`, one policy | `Spec => WorksAsRenewal`, that is, every step is one of `LeaseRenewal` or none |
| `EnginesStayInRenewal` | the same | so `LeaseRenewal!TypeOK` holds of the engines while one is alive |
| `EffectHappensAtMostOnce` | `AbsenceCloses = TRUE` | `Spec => []AtMostOneEffect` |
| `OutcomeStaysTrue` | `AbsenceCloses = TRUE` | `Spec => []OutcomeIsTrue` |

The module starts from `OperationLifecycleProofs`, instantiated with the engine's
row (`Lifecycle`). The operation of `OperationEngine` is accepted before the first
state, so what is shown is that every step is a step of the lifecycle and that the
first row satisfies its invariant, not `Lifecycle!Spec`, which begins without a row.
Attempt identifiers are the natural numbers there, and the history of Retry-After is
left out: the engine's model has none. Then come the invariants:

- `Base`: the lifecycle's invariant, `TypeOK`, `RowHolds` (the attempt of an active row
  is the number of its claims) and `PassesHold` (a pass in flight has seen an active
  record of an attempt no later than the row's).
- `SnapshotsHold`: no snapshot has a revision above the row's, and one with the same
  revision is the row. The first clause is what makes the second inductive: a pass must
  not hold a revision the row will only reach by another command.
- `DeadRest`: the passes of a dead activation are idle. A renewal asks whether the lease
  of the *snapshot* is its own; that it renews nobody else's lease on the *row* follows
  from the ownership check, and that the owner is alive from this.
- `FencesHold`: a pass in flight has seen a fence no higher than the row's, and no two
  have seen the same. `OneOwner` follows without a word about time.
- `LeasesHold`, for a clock that is not set back: either the row is still the one the
  pass claimed, or the lease it saw has run out. `OneLiveLease` alone is not inductive: it
  says nothing of a pass whose lease is over, and the next claim is safe because of just
  that. With a clock set back it fails, and `OneLiveLease` with it, hence the hypothesis;
  jumps forward do no harm, as the theorem's hypothesis `[][now' >= now]_now` shows.
- `EffectsHold` and `AnswersHold`: where an effect can still come from. Requests sent,
  and claims whose pass has yet to send, are attempts the row has counted; a row that
  is ACCEPTED or FAILED has had no effect and nothing outstanding can have one; an
  executing row without uncertainty has only its own attempt outstanding; where the
  policy gives no replay guarantee, all outstanding attempts and effects are of one
  attempt; and an answer waiting to be committed is still true, so an absence it
  speaks of covers requests that are closed. That last clause is what
  `AbsenceCloses` gives. No theorem rests on the clock here: stale passes and expired
  leases may write nothing that makes these false. Whether an idempotent backend still
  keeps the key is not asked here, that is `ReplayWindowProofs`' subject.
- `WorkersHold`, for the refinement: the row is under a policy of `Policies`, a pass in
  flight holds a lease of its own activation, and the passes at work on the row are of the
  activation the lease names.

`RenewalNext` takes the actions one by one, each in a lemma of its own (`ClaimView`,
`ResultView`, ...). It needs nearly all of the above: that a result is committed by a pass
that was not overtaken is `SnapshotsHold`, that a drop concerns the only pass at work is
`FencesHold`, that a crash takes the right passes along is `WorkersHold`, that only the
living renew and recover is `DeadRest`, that ACCEPTED means an execution is left is the
lifecycle's `Sound`. `LeaseRenewal` has one pair of budgets, hence one policy: a behaviour
has only one in any case, the one its operation was accepted under. The clock has to tick
because a lease is the time it has left there.

`WorkScanProofs` proves, for every number of rows and of passes and every length of
page (`ScanAssumption`):

| Theorem | Statement |
|---|---|
| `ScanTypeCorrect` | `Spec => []TypeOK`, pages no longer than the limit included |
| `PassReachesEveryOpenRow` | `Spec => []PassReachesAll` |

`Reachable` says where a row that a pass owes a visit can be: behind the cursor while
the pass waits for a page, on the rest of the page or behind its end while it visits.
What the LIMIT and the extra row give is in lemmas of their own: `LowestIsDownward` (the
rows fetched are the lowest ones), `LowestIsSmall`, `LowestIsAll` (a page that is not
full is the last), `PageCovers` (whatever is not on the page lies behind its cursor).

`HandleWaitsProofs` proves, for any sets of waiters, watchers and passes and any number
of disposals (`WaitsAssumption`):

| Theorem | Statement |
|---|---|
| `WaitsTypeCorrect` | `Spec => []TypeOK` |
| `PendingStaysReachable` | `Spec => []PendingIsReachable` |
| `NothingIsLeaked` | `Spec => []NothingLeaks` |
| `PromiseTellsTheOutcome` | `Spec => []SettledAsStored` |
| `EndComesToPromises` | `Spec => []EndIsOnItsWay` |

`SetsHold` relates promises and disposals to the subscriptions: a waiter is subscribed
exactly while its promise is pending, a watcher exactly until it first leaves, and all
who are subscribed are in the Set of the map unless somebody left twice. That a Set
in the map is never empty holds even then, which takes the order of `Unsubscribe`:
first out of its own Set, then the test of that Set. `OutcomesHold` follows an outcome
from the store through passes, publication and reads to the promise; it is inductive
because a row that has ended never changes, the guard that `CommitOver` drops.

`WayHolds` adds what `EndIsOnItsWay` needs to be inductive: an end that was announced is
the store's (`AnnouncedEnds`), so whatever a read still finds is an end; and that a
publication about to call a waiter does not lose it when others leave is `SetsHold`. It is
the safety half of `AnnouncedEndIsHeard`: what remains for fairness is only that what is
on its way arrives.

All inductive invariants were evaluated by TLC on the instances of the runs before
they were proved.

Only model-checked: the type invariant of `LeaseRenewal` for several operations (proved
of it is what `EnginesStayInRenewal` says, for the one operation of `OperationEngine`)
and all liveness (`DeadOwnersWorkComesFree`, `WorkComesToRest`, `DueWorkIsTaken`,
`AnnouncedEndIsHeard`). Liveness under fairness and ENABLED are beyond the prover used,
and so is induction over data; recursive definitions are avoided, the back-off uses
exponentiation of the library. The other way round, that the engine's row follows
the lifecycle is proved and not checked: TLC would need the lifecycle's next-state
relation on every step of an instance that already has the size of `effects`.

## 5. Not modelled

- *JSON snapshots and limits* (`core/src/json.ts`), the codec's validation and
  `schema.ts`: pure functions of payloads and rows. A record they refuse is "a
  statement that fails" in the stores and an unreadable row in `WorkScan`; that two
  intents are the same is equality of model values.
- *Error taxonomy and integer helpers*: which error a refused command raises is not
  told apart; timestamps beyond 2^53, where the helpers throw, are not reached.
- *Reads that change nothing*: `get`, `listInspection`, `readEvents`, the inspector.
- *Transport doubles, Node driver, screens, scripts, site*: tests, thin wrappers,
  tooling. What the example transports make of a 404 is modelled (`absence`).
- *Sizes*: a result above `resultLimits` is refused each time it is verified, and a
  record that outgrows `recordLimits` after acceptance by every claim; in the models a
  refused commit is a pass that ends without one, but nothing says it is refused again.
- *Timers and network subscription* of the scheduler: host code; any moment may be
  the start of a pass.
- *A lock held for ever*: nothing in the code bounds how long a store whose ROLLBACK
  failed keeps it, so no property claims that it comes free.

## 6. Plan

Done: the functions, the lifecycle, the engine, the synchronous store and its ledger,
leases and liveness, handles, paging, the asynchronous store, the replay window, the
promise to the application, the engine as `LeaseRenewal` has it, the engine under a clock
that jumps forward. Every safety and action property of a passing run except the type
invariant of `LeaseRenewal` is a theorem. What is left:

1. `ReplayWindow` and `OperationEngine` joined: `AtMostOneEffect` for the DEDUPLICATED
   guarantee with a backend that forgets keys, from the invariants of both proofs.
2. Several operations of `LeaseRenewal` as as many rows of `OperationEngine`: rows share
   nothing but clock and crashes, so the refinement should hold row by row.

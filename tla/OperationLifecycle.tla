------------------------ MODULE OperationLifecycle -------------------------
(***************************************************************************)
(* One durable operation, its row in the store, and every command any      *)
(* engine or application may commit on it, in any order, with any evidence *)
(* a transport may report and under a wall clock that may jump either way. *)
(* An action is one StoragePort mutation that commits: mutate() of         *)
(* packages/storage-sqlite/src/store.ts runs transition() on the current   *)
(* row inside one transaction, with the store's own clock; a mutation      *)
(* whose guard throws rolls back and is no step.                           *)
(***************************************************************************)
EXTENDS OperationStateMachine

CONSTANTS
    Policies,       \* the retry policies operations are accepted under
    MaxTime,        \* bound: the clock reads 0..MaxTime
    MaxReschedules, \* bound: how often one operation is rescheduled
    LeaseDurations, \* lease durations engines ask for
    Jitters,        \* jitter samples, as ticks
    AttemptIds,     \* attempt identifiers presented to the store
    Readinesses     \* what hosts attest when claiming

ASSUME LifecycleAssumption ==
    /\ Policies \subseteq RetryPolicy
    /\ MaxTime \in Nat /\ MaxReschedules \in Nat
    /\ LeaseDurations \subseteq Nat \ {0}
    /\ Jitters \subseteq Nat
    /\ AttemptIds \subseteq Nat
    /\ Readinesses \subseteq Readiness

VARIABLES
    op,         \* the row
    now,        \* the store's wall clock
    retryAfter, \* history: the last Retry-After reported since the last claim
    reschedules \* history: how often the operation was rescheduled

vars == <<op, now, retryAfter, reschedules>>

Times == 0..MaxTime
Dates == Option(Times)

(* Ownerships a caller can hold: those of some lease granted so far.       *)
Ownerships == [ownerId : Owners, fence : 1..op.fence, attemptId : AttemptIds]
Evidences == [attemptId : AttemptIds, source : {"LOCAL", "BACKEND"},
              scope : {"ATTEMPT", "OPERATION"}]
Results == [kind : ExecutionResultKinds \cup VerificationResultKinds,
            evidence : Evidences, retryable : BOOLEAN]
-----------------------------------------------------------------------------
Accept(policy) ==
    /\ op = None
    /\ op' = ProposedAcceptance(policy, now)
    /\ UNCHANGED <<now, retryAfter, reschedules>>

Claim(action, attemptId, ownerId, duration, ready) ==
    /\ op # None
    /\ ClaimAllowed(op, action, ready, now)
    /\ op' = Commit(Claimed(op, action, attemptId, ownerId, duration, now), now)
    /\ retryAfter' = None
    /\ UNCHANGED <<now, reschedules>>

CommitResult(owner) ==
    /\ op # None
    /\ Owns(op, owner, now)
    /\ \E result \in Results :
          /\ ResultAccepted(op, result)
          /\ \E date \in Dates, jitter \in Jitters :
                /\ op' = Commit(Resolved(op, result, date, jitter, now), now)
                /\ retryAfter' = date
    /\ UNCHANGED <<now, reschedules>>

RecoverExpired(jitter) ==
    /\ op # None
    /\ RecoverAllowed(op, now)
    /\ op' = Commit(Recovered(op, now, jitter), now)
    /\ UNCHANGED <<now, retryAfter, reschedules>>

Renew(owner, duration) ==
    /\ op # None
    /\ RenewAllowed(op, owner, duration, now)
    /\ op' = Commit(Renewed(op, duration, now), now)
    /\ UNCHANGED <<now, retryAfter, reschedules>>

FailLocal(reason) ==
    /\ op # None
    /\ FailLocalAllowed(op, reason)
    /\ op' = Commit(Failed(op, reason), now)
    /\ UNCHANGED <<now, retryAfter, reschedules>>

UpdateScheduling(schedule, holdReason, jitter) ==
    /\ op # None
    /\ reschedules < MaxReschedules
    /\ ScheduleAllowed(op, schedule, holdReason, jitter)
    /\ op' = Commit(Scheduled(op, schedule, holdReason), now)
    /\ reschedules' = reschedules + 1
    /\ UNCHANGED <<now, retryAfter>>

(* The wall clock moves, or is set, to any reading.                        *)
SetClock(t) ==
    /\ now' = t
    /\ UNCHANGED <<op, retryAfter, reschedules>>

Init ==
    /\ op = None
    /\ now \in Times
    /\ retryAfter = None
    /\ reschedules = 0

Next ==
    \/ \E policy \in Policies : Accept(policy)
    \/ \E action \in Actions, id \in AttemptIds, o \in Owners,
          d \in LeaseDurations, ready \in Readinesses : Claim(action, id, o, d, ready)
    \/ op # None /\ \E owner \in Ownerships : CommitResult(owner)
    \/ \E jitter \in Jitters : RecoverExpired(jitter)
    \/ op # None /\ \E owner \in Ownerships, d \in LeaseDurations : Renew(owner, d)
    \/ \E reason \in Failures : FailLocal(reason)
    \/ \E schedule \in Option([kind : Actions, at : Times]),
          hold \in Option(HoldReasons), jitter \in Jitters :
             UpdateScheduling(schedule, hold, jitter)
    \/ \E t \in Times : SetClock(t)

Spec == Init /\ [][Next]_vars
-----------------------------------------------------------------------------
(* Every reachable record has the shape the code's types promise.          *)
TypeOK ==
    /\ op \in Option(Operation)
    /\ now \in Nat
    /\ retryAfter \in Option(Nat)
    /\ reschedules \in 0..MaxReschedules

(* assertOperationInvariants (packages/core/src/operation.ts), which the   *)
(* code runs on every record it reads and on every record it is about to   *)
(* write.  Here no action is guarded by it: the property says that no      *)
(* legal command, however late or badly ordered, ever trips it.            *)
BudgetsHold(o) ==
    /\ o.executionCount <= o.policySnapshot.execution.maxAttempts
    /\ o.verificationCount <= o.policySnapshot.verification.maxAttempts
    /\ (o.executionCount = 0) <=> (o.firstExecutionAt = None)
OwnershipHolds(o) ==
    IF o.status \in ActiveStatuses
    THEN /\ o.lease # None /\ o.activeAttempt # None
         /\ o.lease.fence = o.fence /\ o.fence > 0
         /\ o.activeAttempt.kind = (IF o.status = "EXECUTING" THEN "execution"
                                                              ELSE "verification")
         /\ o.activeAttempt.ordinal = Count(o, o.activeAttempt.kind)
         /\ o.activeAttempt.ordinal > 0
    ELSE o.lease = None /\ o.activeAttempt = None
UncertaintyHolds(o) ==
    /\ o.status \in {"UNKNOWN", "VERIFYING"} => o.unresolvedEffect /\ o.executionCount > 0
    /\ o.status \in {"ACCEPTED"} \cup TerminalStatuses => ~o.unresolvedEffect
OutcomeHolds(o) ==
    /\ (o.status = "COMPLETED") <=> (o.completion # None)
    /\ (o.status = "FAILED") <=> (o.failure # None)
    /\ o.status = "COMPLETED" => GlobalBackend(o.completion)
ScheduleHolds(o) ==
    /\ o.status \notin IdleStatuses => o.schedule = None /\ o.holdReason = None
    /\ o.status = "ACCEPTED" /\ o.schedule # None => o.schedule.kind = "execution"
WellFormed(o) ==
    /\ BudgetsHold(o)
    /\ OwnershipHolds(o)
    /\ UncertaintyHolds(o)
    /\ OutcomeHolds(o)
    /\ ScheduleHolds(o)
OperationInvariants == op # None => WellFormed(op)

(* Accepted work is always runnable: it keeps a scheduled execution with   *)
(* an attempt of budget left, whatever holds, reschedulings and refused    *)
(* retries it went through; and whatever is scheduled has budget for it,   *)
(* so a due claim is never refused with BudgetExhausted and FAIL_LOCAL     *)
(* never has a BUDGET_EXHAUSTED to record.                                 *)
WorkHasBudget(o) ==
    /\ o.status = "ACCEPTED" => o.schedule # None
    /\ o.schedule # None => HasBudget(o, o.schedule.kind)
ScheduledWorkHasBudget == op # None => WorkHasBudget(op)

(* An uncertain effect stays uncertain until the backend itself speaks for *)
(* the whole operation: no local guess, no answer about a single attempt,  *)
(* no expiry, hold or renewal makes it certain again.                      *)
SettledByBackend ==
    (op # None /\ op.unresolvedEffect /\ ~op'.unresolvedEffect) =>
        /\ op'.lastEvidence # None
        /\ GlobalBackend(op'.lastEvidence)
        /\ op'.lastEvidence.attemptId = op.activeAttempt.id
UncertaintyEndsByBackend == [][SettledByBackend]_vars

(* ALLOWED_TRANSITIONS of packages/core/src/state-machine.ts.              *)
AllowedTransitions ==
    [ACCEPTED |-> {"EXECUTING", "FAILED"},
     EXECUTING |-> {"ACCEPTED", "UNKNOWN", "COMPLETED", "FAILED"},
     UNKNOWN |-> {"EXECUTING", "VERIFYING"},
     VERIFYING |-> {"ACCEPTED", "UNKNOWN", "COMPLETED", "FAILED"},
     COMPLETED |-> {}, FAILED |-> {}]

(* The table never is what refuses a transition, and every change of state *)
(* moves the revision and never the fence backwards; a new lease has a     *)
(* fence above every fence before it, so no two leases share one.          *)
FencedStep ==
    (op # None /\ op' # op) =>
        /\ op'.status = op.status \/ op'.status \in AllowedTransitions[op.status]
        /\ op'.revision > op.revision
        /\ op'.fence >= op.fence
        /\ (op'.lease # None /\ op.lease = None) => op'.fence > op.fence
StepsAreFenced == [][FencedStep]_vars

(* What an operation may still go through: the attempts its budgets leave  *)
(* it, each of which is claimed and ends, and the end of what is claimed.  *)
WorkLeft(o) ==
    3 * (  (o.policySnapshot.execution.maxAttempts - o.executionCount)
         + (o.policySnapshot.verification.maxAttempts - o.verificationCount))
    + (IF o.status \in ActiveStatuses THEN 2 ELSE IF o.status \in IdleStatuses THEN 1 ELSE 0)

(* Recoveries, retries, replays and verifications feed one another, but    *)
(* not for ever: whatever is committed, by engines or the application,     *)
(* never gives an operation more to go through than it had, and every      *)
(* change of its status uses some of it up.                                *)
UsesUp ==
    (op # None /\ op' # op) =>
        /\ WorkLeft(op') \in 0 .. WorkLeft(op)
        /\ op'.status # op.status => WorkLeft(op') < WorkLeft(op)
WorkRunsOut == [][UsesUp]_vars

(* However often an operation was tried, whatever the clock was set to and *)
(* however an attempt ended, the next one it is left with is never due in  *)
(* the past, nor later than the policy's longest delay or the date the     *)
(* backend asked for.                                                      *)
RescheduledInRange ==
    (op # None /\ op.status \in ActiveStatuses /\ op' # op /\ op'.schedule # None) =>
        /\ op'.schedule.at >= now
        /\ \/ op'.schedule.at <= now + op.policySnapshot[op'.schedule.kind].maxDelay
           \/ op'.schedule.at = retryAfter'
RetriesAreInRange == [][RescheduledInRange]_vars

(* Of all the record keeps, what DurableOperation speaks of.               *)
Phase ==
    IF op = None THEN "absent"
    ELSE IF op.status = "COMPLETED" THEN "completed"
    ELSE IF op.status = "FAILED" THEN "failed" ELSE "open"
Word ==
    IF op = None \/ op.lastEvidence = None THEN "nobody"
    ELSE IF GlobalBackend(op.lastEvidence) THEN "operation" ELSE "attempt"

Durable == INSTANCE DurableOperation WITH
    phase <- Phase, word <- Word,
    tried <- op # None /\ op.executionCount > 0,
    doubt <- op # None /\ op.unresolvedEffect

(* The record and its commands keep the promise made to the application:   *)
(* whatever claims, results, recoveries and reschedulings come in whatever *)
(* order, the operation is settled once, and never on a guess.             *)
KeepsPromise == Durable!Spec

(* A Retry-After the backend gave is honoured as long as the operation has *)
(* a way to remember it: until the next claim the schedule, through holds  *)
(* and reschedulings, stays at or after the date.                          *)
RetryAfterKept ==
    (/\ op # None
     /\ op.status \in IdleStatuses
     /\ retryAfter # None
     /\ op.status = "ACCEPTED" \/ HasBudget(op, "verification"))
       => op.schedule # None /\ op.schedule.at >= retryAfter
=============================================================================

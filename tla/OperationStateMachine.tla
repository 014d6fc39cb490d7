----------------------- MODULE OperationStateMachine -----------------------
(***************************************************************************)
(* The durable record of one operation and the transitions the core        *)
(* computes on it (packages/core/src/operation.ts, state-machine.ts).      *)
(* For each command there is a guard, true when transition() does not      *)
(* throw, and a function giving the record it returns.  Modules that use   *)
(* this one wrap that record in Commit, the tail of transition().          *)
(*                                                                         *)
(* Left out of the record: what acceptance fixes and no transition reads   *)
(* (type, payload, version, acceptedAt), the scopes (one operation, reached *)
(* under its own scope), lastError (never assigned after acceptance), and   *)
(* the deadline of an attempt (passed to the transport, never enforced).   *)
(***************************************************************************)
EXTENDS RetryPolicy

CONSTANTS
    Owners,         \* owner identifiers, one per activation of an engine
    HoldReasons     \* reasons for which an idle operation is held

ASSUME NoneAssumption ==
    /\ None \notin Nat
    /\ None \notin HoldReasons \cup ContractVersions
    /\ None \notin [ownerId : Owners, fence : Nat, expiresAt : Nat]
    /\ None \notin [kind : Actions, at : Nat]
    /\ None \notin [id : Nat, kind : Actions, ordinal : Nat]
    /\ None \notin [attemptId : Nat, source : {"LOCAL", "BACKEND"},
                    scope : {"ATTEMPT", "OPERATION"}]
    /\ None \notin {"BUSINESS_REJECTION", "BUDGET_EXHAUSTED",
                    "LOCAL_REJECTION", "NOT_RETRYABLE"}

Option(S) == S \cup {None}

IdleStatuses == {"ACCEPTED", "UNKNOWN"}
ActiveStatuses == {"EXECUTING", "VERIFYING"}
TerminalStatuses == {"COMPLETED", "FAILED"}
Statuses == IdleStatuses \cup ActiveStatuses \cup TerminalStatuses

Lease == [ownerId : Owners, fence : Nat, expiresAt : Nat]
Attempt == [id : Nat, kind : Actions, ordinal : Nat]
Schedule == [kind : Actions, at : Nat]
Evidence == [attemptId : Nat, source : {"LOCAL", "BACKEND"},
             scope : {"ATTEMPT", "OPERATION"}]
Failures == {"BUSINESS_REJECTION", "BUDGET_EXHAUSTED",
             "LOCAL_REJECTION", "NOT_RETRYABLE"}

Operation ==
    [policySnapshot : RetryPolicy,
     status : Statuses, unresolvedEffect : BOOLEAN,
     revision : Nat, updatedAt : Nat, fence : Nat,
     executionCount : Nat, verificationCount : Nat,
     firstExecutionAt : Option(Nat),
     activeAttempt : Option(Attempt), lease : Option(Lease),
     schedule : Option(Schedule), holdReason : Option(HoldReasons),
     lastEvidence : Option(Evidence), completion : Option(Evidence),
     failure : Option(Failures)]

ASSUME RecordAssumption == None \notin Operation

(* What the host attests when an engine claims.                            *)
Readiness ==
    [credentialsReady : BOOLEAN, definitionReady : BOOLEAN,
     verifierAvailable : BOOLEAN, clockTrusted : BOOLEAN,
     replayContractVersion : Option(ContractVersions)]

ExecutionResultKinds ==
    {"CONFIRMED_COMPLETED", "CONFIRMED_REJECTED", "NOT_APPLIED", "AMBIGUOUS"}
VerificationResultKinds ==
    {"CONFIRMED_COMPLETED", "CONFIRMED_REJECTED", "FINAL_NOT_APPLIED",
     "PENDING", "INCONCLUSIVE"}
Result == [kind : ExecutionResultKinds \cup VerificationResultKinds,
           evidence : Evidence, retryable : BOOLEAN]
-----------------------------------------------------------------------------
(* proposeAcceptance.                                                      *)
ProposedAcceptance(policy, now) ==
    [policySnapshot |-> policy,
     status |-> "ACCEPTED", unresolvedEffect |-> FALSE,
     revision |-> 0, updatedAt |-> now, fence |-> 0,
     executionCount |-> 0, verificationCount |-> 0,
     firstExecutionAt |-> None, activeAttempt |-> None, lease |-> None,
     schedule |-> [kind |-> "execution", at |-> now], holdReason |-> None,
     lastEvidence |-> None, completion |-> None, failure |-> None]

Count(op, action) ==
    IF action = "execution" THEN op.executionCount ELSE op.verificationCount

(* Mutant of HasBudget: one attempt too many.                              *)
HasBudgetInclusive(op, action) == Count(op, action) <= op.policySnapshot[action].maxAttempts

HasBudget(op, action) == Count(op, action) < op.policySnapshot[action].maxAttempts

(* Mutant of Owns: the lease's owner is asked for, not which of its claims. *)
OwnsByName(op, owner, now) ==
    /\ op.status \in ActiveStatuses
    /\ op.lease.ownerId = owner.ownerId
    /\ now < op.lease.expiresAt

(* assertOwner.                                                            *)
Owns(op, owner, now) ==
    /\ op.status \in ActiveStatuses
    /\ op.lease.ownerId = owner.ownerId
    /\ op.lease.fence = owner.fence
    /\ op.activeAttempt.id = owner.attemptId
    /\ now < op.lease.expiresAt

GlobalBackend(evidence) ==
    evidence.source = "BACKEND" /\ evidence.scope = "OPERATION"

(* Mutant of Idle: the finished attempt is not cleared.                    *)
IdleKeepingAttempt(op, status, schedule) ==
    [op EXCEPT !.status = status, !.unresolvedEffect = (status = "UNKNOWN"),
               !.lease = None, !.schedule = schedule, !.holdReason = None]

Idle(op, status, schedule) ==
    [op EXCEPT !.status = status, !.unresolvedEffect = (status = "UNKNOWN"),
               !.activeAttempt = None, !.lease = None, !.schedule = schedule,
               !.holdReason = None, !.completion = None, !.failure = None]

Failed(op, kind) ==
    [op EXCEPT !.status = "FAILED", !.unresolvedEffect = FALSE,
               !.activeAttempt = None, !.lease = None, !.schedule = None,
               !.holdReason = None, !.completion = None, !.failure = kind]

Completed(op, evidence) ==
    [op EXCEPT !.status = "COMPLETED", !.unresolvedEffect = FALSE,
               !.activeAttempt = None, !.lease = None, !.schedule = None,
               !.holdReason = None, !.completion = evidence, !.failure = None]

(* Mutant of Unknown: a read is scheduled whether or not budget is left.   *)
UnknownAlwaysRead(op, now, jitter, retryAfterAt) ==
    Idle(op, "UNKNOWN",
         [kind |-> "verification",
          at |-> NextRetryAt(op.policySnapshot.verification, 1, now, jitter, retryAfterAt)])

(* unknown(): a read is scheduled while the verification budget lasts; a   *)
(* Retry-After given with the result goes nowhere when it does not.        *)
Unknown(op, now, jitter, retryAfterAt) ==
    LET attempts == IF op.verificationCount > 1 THEN op.verificationCount ELSE 1
        policy == op.policySnapshot.verification
    IN  Idle(op, "UNKNOWN",
             IF HasBudget(op, "verification")
             THEN [kind |-> "verification",
                   at |-> NextRetryAt(policy, attempts, now, jitter, retryAfterAt)]
             ELSE None)
-----------------------------------------------------------------------------
(* CLAIM.                                                                  *)
ClaimAllowed(op, action, ready, now) ==
    /\ op.status \in IdleStatuses
    /\ ready.definitionReady /\ ready.credentialsReady
    /\ op.holdReason = None
    /\ op.schedule # None
    /\ op.schedule.kind = action
    /\ op.schedule.at <= now
    /\ action = "verification" => op.status = "UNKNOWN" /\ ready.verifierAvailable
    /\ (action = "execution" /\ op.status = "UNKNOWN") =>
          IsReplaySafe(op.policySnapshot.replay, now, op.firstExecutionAt,
                       ready.replayContractVersion, ready.clockTrusted)
    /\ HasBudget(op, action)

Claimed(op, action, attemptId, ownerId, duration, now) ==
    LET execution == action = "execution"
        ordinal == Count(op, action) + 1
    IN  [op EXCEPT
           !.status = IF execution THEN "EXECUTING" ELSE "VERIFYING",
           !.unresolvedEffect = IF execution THEN @ ELSE TRUE,
           !.executionCount = IF execution THEN ordinal ELSE @,
           !.verificationCount = IF execution THEN @ ELSE ordinal,
           !.firstExecutionAt = IF execution /\ @ = None THEN now ELSE @,
           !.fence = @ + 1,
           !.activeAttempt = [id |-> attemptId, kind |-> action, ordinal |-> ordinal],
           !.lease = [ownerId |-> ownerId, fence |-> op.fence + 1,
                      expiresAt |-> now + duration],
           !.schedule = None, !.holdReason = None,
           !.completion = None, !.failure = None]

(* EXECUTION_RESULT and VERIFICATION_RESULT: the evidence rules ...         *)
ResultAccepted(op, result) ==
    LET evidence == result.evidence
    IN  /\ result.kind \in (IF op.status = "EXECUTING" THEN ExecutionResultKinds
                                                       ELSE VerificationResultKinds)
        /\ evidence.attemptId = op.activeAttempt.id
        /\ result.kind \in {"CONFIRMED_COMPLETED", "FINAL_NOT_APPLIED"} =>
              GlobalBackend(evidence)
        /\ result.kind = "CONFIRMED_REJECTED" =>
              /\ evidence.source = "BACKEND"
              /\ op.status = "VERIFYING" => evidence.scope = "OPERATION"
        /\ result.kind = "NOT_APPLIED" => evidence.scope = "ATTEMPT"

(* Mutants: evidence about one attempt settles the operation regardless.   *)
SettlesAnyRejection(op, result) == result.kind = "CONFIRMED_REJECTED"
SettlesAnyNoEffect(op, result) == result.kind \in {"NOT_APPLIED", "FINAL_NOT_APPLIED"}

(* ... and what the operation becomes. A rejection or a "no effect" that   *)
(* speaks of one attempt only says nothing of earlier attempts, so it      *)
(* cannot settle an operation that was already uncertain.                  *)
SettlesRejection(op, result) ==
    /\ result.kind = "CONFIRMED_REJECTED"
    /\ result.evidence.scope = "OPERATION" \/ ~op.unresolvedEffect

SettlesNoEffect(op, result) ==
    /\ result.kind \in {"NOT_APPLIED", "FINAL_NOT_APPLIED"}
    /\ op.status = "VERIFYING" \/ ~op.unresolvedEffect

Resolved(op, result, retryAfterAt, jitter, now) ==
    LET base == [op EXCEPT !.lastEvidence = result.evidence]
        policy == op.policySnapshot.execution
        retryAt == NextRetryAt(policy, op.executionCount, now, jitter, retryAfterAt)
    IN  CASE result.kind = "CONFIRMED_COMPLETED" -> Completed(base, result.evidence)
          [] SettlesRejection(op, result) -> Failed(base, "BUSINESS_REJECTION")
          [] SettlesNoEffect(op, result) /\ ~result.retryable ->
                Failed(base, "NOT_RETRYABLE")
          [] SettlesNoEffect(op, result) /\ result.retryable /\ ~HasBudget(op, "execution") ->
                Failed(base, "BUDGET_EXHAUSTED")
          [] SettlesNoEffect(op, result) /\ result.retryable /\ HasBudget(op, "execution") ->
                Idle(base, "ACCEPTED", [kind |-> "execution", at |-> retryAt])
          [] OTHER -> Unknown(base, now, jitter, retryAfterAt)

(* RECOVER_EXPIRED.                                                        *)
RecoverAllowed(op, now) ==
    op.status \in ActiveStatuses /\ now >= op.lease.expiresAt

Recovered(op, now, jitter) ==
    [Unknown(op, now, jitter, None) EXCEPT !.fence = op.fence + 1]

(* RENEW.                                                                  *)
RenewAllowed(op, owner, duration, now) ==
    Owns(op, owner, now) /\ now + duration > op.lease.expiresAt

(* Mutant of Renewed: the duration is not added.                           *)
RenewedToNow(op, duration, now) == [op EXCEPT !.lease.expiresAt = now]

Renewed(op, duration, now) == [op EXCEPT !.lease.expiresAt = now + duration]

(* Mutant of FailLocalAllowed: any idle operation may be given up.         *)
FailIdleAllowed(op, reason) ==
    /\ op.status \in IdleStatuses
    /\ reason \in {"LOCAL_REJECTION", "BUDGET_EXHAUSTED"}
    /\ reason = "BUDGET_EXHAUSTED" => ~HasBudget(op, "execution")

(* FAIL_LOCAL.                                                             *)
FailLocalAllowed(op, reason) ==
    /\ op.status = "ACCEPTED"
    /\ reason \in {"LOCAL_REJECTION", "BUDGET_EXHAUSTED"}
    /\ reason = "BUDGET_EXHAUSTED" => ~HasBudget(op, "execution")

(* SCHEDULE, with a schedule or with None.                                 *)
ScheduleAllowed(op, schedule, holdReason, jitter) ==
    /\ op.status \in IdleStatuses
    /\ schedule # None =>
          LET action == schedule.kind
              policy == op.policySnapshot[action]
              count == Count(op, action)
              sameKind == op.schedule # None /\ op.schedule.kind = action
          IN  /\ op.schedule # None => schedule.at >= op.schedule.at
              /\ op.status = "ACCEPTED" => action = "execution"
              /\ HasBudget(op, action)
              /\ (count > 0 /\ ~sameKind) =>
                    schedule.at >= NextRetryAt(policy, count, op.updatedAt, jitter, None)
    /\ schedule = None => op.schedule = None \/ holdReason # None

Scheduled(op, schedule, holdReason) ==
    [op EXCEPT !.schedule = IF schedule = None THEN @ ELSE schedule,
               !.holdReason = holdReason]

(* Mutant of Commit: the revision stays.                                   *)
CommitInPlace(op, now) == [op EXCEPT !.updatedAt = now]

(* The tail of transition().                                               *)
Commit(op, now) == [op EXCEPT !.revision = @ + 1, !.updatedAt = now]
=============================================================================

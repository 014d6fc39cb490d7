---------------------- MODULE OperationLifecycleProofs ----------------------
(***************************************************************************)
(* Theorems about OperationLifecycle, for every set of policies, owners,   *)
(* lease durations and identifiers and for every bound.                    *)
(***************************************************************************)
EXTENDS OperationLifecycle, TLAPS

(* The policies of a record are what validateRetryPolicy lets through.     *)
LEMMA PolicyTypes ==
    ASSUME NEW p \in RetryPolicy, NEW action \in Actions
    PROVE  /\ p[action].maxAttempts \in Nat
           /\ p[action].baseDelay \in Nat
           /\ p[action].maxDelay \in Nat
           /\ p[action] \in [maxAttempts : Nat, baseDelay : Nat, maxDelay : Nat]
           /\ p.execution.maxAttempts \in Nat \ {0}
           /\ p.verification.maxAttempts \in Nat
BY SMT DEF RetryPolicy, AttemptPolicy, Actions

(* A retry is never dated before now, nor before a Retry-After.            *)
LEMMA NextRetryAtIsLate ==
    ASSUME NEW p \in [maxAttempts : Nat, baseDelay : Nat, maxDelay : Nat],
           NEW attempts \in Nat, NEW t \in Nat, NEW jitter \in Nat,
           NEW date \in Option(Nat)
    PROVE  LET at == NextRetryAt(p, attempts, t, jitter, date)
           IN  /\ at \in Nat
               /\ at >= t
               /\ date # None => at >= date
<1>1. Cap(p, attempts) \in Nat
  BY SMT DEF Cap
<1> QED
  BY <1>1, SMT DEF NextRetryAt, Option

(* What every reachable record satisfies.                                  *)
Sound(o) == o \in Operation /\ WellFormed(o) /\ WorkHasBudget(o)

LEMMA AcceptanceSound ==
    ASSUME NEW policy \in RetryPolicy, NEW t \in Nat
    PROVE  Sound(ProposedAcceptance(policy, t))
<1>1. ProposedAcceptance(policy, t) \in Operation
  BY SMT DEF ProposedAcceptance, Operation, Option, Schedule, Actions, Statuses,
     IdleStatuses
<1>2. WellFormed(ProposedAcceptance(policy, t))
  BY PolicyTypes, SMT DEF ProposedAcceptance, WellFormed, BudgetsHold, OwnershipHolds,
     UncertaintyHolds, OutcomeHolds, ScheduleHolds, IdleStatuses, ActiveStatuses,
     TerminalStatuses, Actions
<1>3. WorkHasBudget(ProposedAcceptance(policy, t))
  <2>1. policy["execution"].maxAttempts > 0
    BY PolicyTypes, SMT DEF Actions
  <2>2. [kind |-> "execution", at |-> t] # None
    BY NoneAssumption, SMT DEF Actions
  <2> QED
    BY <2>1, <2>2, SMT DEF ProposedAcceptance, WorkHasBudget, HasBudget, Count
<1> QED
  BY <1>1, <1>2, <1>3 DEF Sound

LEMMA ClaimedSound ==
    ASSUME NEW o, Sound(o), NEW action \in Actions, NEW id \in Nat,
           NEW owner \in Owners, NEW d \in Nat, NEW t \in Nat, NEW ready,
           ClaimAllowed(o, action, ready, t)
    PROVE  Sound(Claimed(o, action, id, owner, d, t))
<1> DEFINE n == Claimed(o, action, id, owner, d, t)
<1>0. o \in Operation /\ WellFormed(o)
  BY DEF Sound
<1>1. n \in Operation
  <2> DEFINE execution == action = "execution"
             ordinal == Count(o, action) + 1
  <2>1. o.fence + 1 \in Nat /\ ordinal \in Nat /\ t + d \in Nat
    BY <1>0, SMT DEF Operation, Count
  <2>2. /\ [ownerId |-> owner, fence |-> o.fence + 1, expiresAt |-> t + d] \in Option(Lease)
        /\ [id |-> id, kind |-> action, ordinal |-> ordinal] \in Option(Attempt)
    BY <2>1, SMT DEF Lease, Attempt, Option
  <2>3. /\ (IF execution THEN "EXECUTING" ELSE "VERIFYING") \in Statuses
        /\ (IF execution THEN o.unresolvedEffect ELSE TRUE) \in BOOLEAN
        /\ (IF execution THEN ordinal ELSE o.executionCount) \in Nat
        /\ (IF execution THEN o.verificationCount ELSE ordinal) \in Nat
        /\ (IF execution /\ o.firstExecutionAt = None THEN t ELSE o.firstExecutionAt)
             \in Option(Nat)
    BY <1>0, <2>1, Zenon DEF Operation, Option, Statuses, ActiveStatuses
  <2>4. /\ None \in Option(Schedule) /\ None \in Option(HoldReasons)
        /\ None \in Option(Evidence) /\ None \in Option(Failures)
    BY Zenon DEF Option
  <2> QED
    BY <1>0, <2>1, <2>2, <2>3, <2>4, ZenonT(60) DEF Claimed, Operation
<1>2. WellFormed(n)
  <2>1. Count(o, action) < o.policySnapshot[action].maxAttempts
    BY DEF ClaimAllowed, HasBudget
  <2>2. BudgetsHold(n)
    BY <1>0, <2>1, PolicyTypes, NoneAssumption, SMT DEF Claimed, Count, WellFormed,
       BudgetsHold, Operation, Option, Actions
  <2>3. OwnershipHolds(n)
    BY <1>0, NoneAssumption, SMT DEF Claimed, Count, OwnershipHolds, Operation, Actions,
       ActiveStatuses
  <2>4. UncertaintyHolds(n)
    BY <1>0, SMT DEF Claimed, Count, WellFormed, UncertaintyHolds, ClaimAllowed,
       Operation, Actions, TerminalStatuses, IdleStatuses
  <2>5. OutcomeHolds(n)
    BY <1>0, SMT DEF Claimed, OutcomeHolds, Operation
  <2>6. ScheduleHolds(n)
    BY <1>0, SMT DEF Claimed, ScheduleHolds, Operation, IdleStatuses
  <2> QED
    BY <2>2, <2>3, <2>4, <2>5, <2>6 DEF WellFormed
<1>3. WorkHasBudget(n)
  BY <1>0, SMT DEF Claimed, WorkHasBudget, Operation
<1> QED
  BY <1>1, <1>2, <1>3 DEF Sound

(* The fields a result, an expiry or a local failure writes.               *)
LEMMA SettledTyped ==
    ASSUME NEW o \in Operation, NEW status \in Statuses, NEW b \in BOOLEAN,
           NEW attempt \in Option(Attempt), NEW lease \in Option(Lease),
           NEW schedule \in Option(Schedule), NEW hold \in Option(HoldReasons),
           NEW evidence \in Option(Evidence), NEW failure \in Option(Failures)
    PROVE  [o EXCEPT !.status = status, !.unresolvedEffect = b,
                     !.activeAttempt = attempt, !.lease = lease, !.schedule = schedule,
                     !.holdReason = hold, !.completion = evidence, !.failure = failure]
             \in Operation
BY ZenonT(60) DEF Operation

LEMMA NoneTyped ==
    /\ None \in Option(Attempt) /\ None \in Option(Lease)
    /\ None \in Option(Schedule) /\ None \in Option(HoldReasons)
    /\ None \in Option(Evidence) /\ None \in Option(Failures)
BY Zenon DEF Option

LEMMA IdleSound ==
    ASSUME NEW o, Sound(o), o.status \in ActiveStatuses,
           NEW status \in IdleStatuses, NEW schedule \in Option(Schedule),
           schedule # None => HasBudget(o, schedule.kind),
           status = "ACCEPTED" => schedule # None /\ schedule.kind = "execution"
    PROVE  Sound(Idle(o, status, schedule))
<1> DEFINE n == Idle(o, status, schedule)
<1>0. o \in Operation /\ WellFormed(o)
  BY DEF Sound
<1>1. n \in Operation
  <2> DEFINE uncertain == status = "UNKNOWN"
  <2>1. status \in Statuses /\ uncertain \in BOOLEAN
    BY Zenon DEF Statuses
  <2>2. n = [o EXCEPT !.status = status, !.unresolvedEffect = uncertain,
                      !.activeAttempt = None, !.lease = None, !.schedule = schedule,
                      !.holdReason = None, !.completion = None, !.failure = None]
    BY DEF Idle
  <2> HIDE DEF uncertain, n
  <2> QED
    BY <1>0, <2>1, <2>2, SettledTyped, NoneTyped, ZenonT(40)
<1>2. /\ BudgetsHold(n) /\ OwnershipHolds(n) /\ OutcomeHolds(n) /\ ScheduleHolds(n)
  BY <1>0, SMT DEF Idle, WellFormed, BudgetsHold, OwnershipHolds, OutcomeHolds,
     ScheduleHolds, Operation, IdleStatuses, ActiveStatuses
<1>3. UncertaintyHolds(n)
  <2>1. o.executionCount > 0
    BY <1>0, SMT DEF WellFormed, OwnershipHolds, UncertaintyHolds, ActiveStatuses, Count,
       Operation
  <2>2. /\ n.status = status /\ n.executionCount = o.executionCount
        /\ n.unresolvedEffect = (status = "UNKNOWN")
    BY <1>0, Zenon DEF Idle, Operation
  <2> HIDE DEF n
  <2>3. CASE status = "UNKNOWN"
    BY <2>1, <2>2, <2>3, Zenon DEF UncertaintyHolds, TerminalStatuses
  <2>4. CASE status = "ACCEPTED"
    BY <2>1, <2>2, <2>4, Zenon DEF UncertaintyHolds, TerminalStatuses
  <2> QED
    BY <2>3, <2>4 DEF IdleStatuses
<1>4. WorkHasBudget(n)
  BY <1>0, SMT DEF Idle, WorkHasBudget, HasBudget, Count, Operation
<1> QED
  BY <1>1, <1>2, <1>3, <1>4 DEF Sound, WellFormed

LEMMA FailedSound ==
    ASSUME NEW o, Sound(o), NEW kind \in Failures
    PROVE  Sound(Failed(o, kind))
<1> DEFINE n == Failed(o, kind)
<1>0. o \in Operation /\ WellFormed(o)
  BY DEF Sound
<1>1. n \in Operation
  <2>1. /\ "FAILED" \in Statuses /\ FALSE \in BOOLEAN /\ kind \in Option(Failures)
    BY Zenon DEF Statuses, TerminalStatuses, Option
  <2> QED
    BY <1>0, <2>1, SettledTyped, NoneTyped, ZenonT(40) DEF Failed
<1>2. kind # None
  BY NoneAssumption, Zenon DEF Failures
<1>3. WellFormed(n) /\ WorkHasBudget(n)
  BY <1>0, <1>2, SMT DEF Failed, WellFormed, BudgetsHold, OwnershipHolds, UncertaintyHolds,
     OutcomeHolds, ScheduleHolds, WorkHasBudget, Operation, IdleStatuses, ActiveStatuses,
     TerminalStatuses
<1> QED
  BY <1>1, <1>3 DEF Sound

LEMMA CompletedSound ==
    ASSUME NEW o, Sound(o), NEW evidence \in Evidence, GlobalBackend(evidence)
    PROVE  Sound(Completed(o, evidence))
<1> DEFINE n == Completed(o, evidence)
<1>0. o \in Operation /\ WellFormed(o)
  BY DEF Sound
<1>1. n \in Operation
  <2>1. /\ "COMPLETED" \in Statuses /\ FALSE \in BOOLEAN
        /\ evidence \in Option(Evidence)
    BY Zenon DEF Statuses, TerminalStatuses, Option
  <2> QED
    BY <1>0, <2>1, SettledTyped, NoneTyped, ZenonT(40) DEF Completed
<1>2. evidence # None
  BY NoneAssumption, Zenon DEF Evidence
<1>3. WellFormed(n) /\ WorkHasBudget(n)
  BY <1>0, <1>2, SMT DEF Completed, WellFormed, BudgetsHold, OwnershipHolds,
     UncertaintyHolds, OutcomeHolds, ScheduleHolds, WorkHasBudget, Operation, IdleStatuses,
     ActiveStatuses, TerminalStatuses
<1> QED
  BY <1>1, <1>3 DEF Sound

LEMMA EvidenceSound ==
    ASSUME NEW o, Sound(o), NEW evidence \in Evidence
    PROVE  LET n == [o EXCEPT !.lastEvidence = evidence]
           IN  /\ Sound(n)
               /\ n.status = o.status /\ n.policySnapshot = o.policySnapshot
               /\ n.executionCount = o.executionCount
<1> DEFINE n == [o EXCEPT !.lastEvidence = evidence]
<1>0. o \in Operation /\ WellFormed(o) /\ WorkHasBudget(o)
  BY DEF Sound
<1>1. n \in Operation
  BY <1>0, Zenon DEF Operation, Option
<1>2. WellFormed(n) /\ WorkHasBudget(n)
  BY <1>0, SMT DEF WellFormed, BudgetsHold, OwnershipHolds, UncertaintyHolds, OutcomeHolds,
     ScheduleHolds, WorkHasBudget, HasBudget, Count, Operation
<1>3. /\ n.status = o.status /\ n.policySnapshot = o.policySnapshot
      /\ n.executionCount = o.executionCount
  BY <1>0, SMT DEF Operation
<1> QED
  BY <1>1, <1>2, <1>3 DEF Sound

LEMMA CommitSound ==
    ASSUME NEW o, Sound(o), NEW t \in Nat
    PROVE  Sound(Commit(o, t))
<1> DEFINE n == Commit(o, t)
<1>0. o \in Operation /\ WellFormed(o) /\ WorkHasBudget(o)
  BY DEF Sound
<1>1. n \in Operation
  <2>1. o.revision + 1 \in Nat
    BY <1>0, SMT DEF Operation
  <2> QED
    BY <1>0, <2>1, Zenon DEF Commit, Operation
<1>2. WellFormed(n) /\ WorkHasBudget(n)
  BY <1>0, SMT DEF Commit, WellFormed, BudgetsHold, OwnershipHolds, UncertaintyHolds,
     OutcomeHolds, ScheduleHolds, WorkHasBudget, HasBudget, Count, Operation
<1> QED
  BY <1>1, <1>2 DEF Sound

LEMMA UnknownSound ==
    ASSUME NEW o, Sound(o), o.status \in ActiveStatuses,
           NEW t \in Nat, NEW jitter \in Nat, NEW date \in Option(Nat)
    PROVE  Sound(Unknown(o, t, jitter, date))
<1> DEFINE attempts == IF o.verificationCount > 1 THEN o.verificationCount ELSE 1
           policy == o.policySnapshot.verification
           at == NextRetryAt(policy, attempts, t, jitter, date)
           read == [kind |-> "verification", at |-> at]
           schedule == IF HasBudget(o, "verification") THEN read ELSE None
<1>1. o \in Operation
  BY DEF Sound
<1>2. at \in Nat
  <2>1. policy \in [maxAttempts : Nat, baseDelay : Nat, maxDelay : Nat]
    BY <1>1, PolicyTypes, SMT DEF Operation, Actions
  <2>2. attempts \in Nat
    BY <1>1, SMT DEF Operation
  <2> QED
    BY <2>1, <2>2, NextRetryAtIsLate, Zenon
<1> HIDE DEF at
<1>3. read \in Schedule /\ read.kind = "verification"
  BY <1>2, SMT DEF Schedule, Actions
<1>4. schedule \in Option(Schedule) /\ (schedule # None => HasBudget(o, schedule.kind))
  BY <1>3, Zenon DEF Option
<1>5. "UNKNOWN" \in IdleStatuses /\ "UNKNOWN" # "ACCEPTED"
  BY Zenon DEF IdleStatuses
<1>6. Sound(Idle(o, "UNKNOWN", schedule))
  BY <1>4, <1>5, IdleSound, Zenon
<1> QED
  BY <1>6, Zenon DEF Unknown, at

LEMMA ResolvedSound ==
    ASSUME NEW o, Sound(o), o.status \in ActiveStatuses,
           NEW result \in Result, ResultAccepted(o, result),
           NEW date \in Option(Nat), NEW jitter \in Nat, NEW t \in Nat
    PROVE  Sound(Resolved(o, result, date, jitter, t))
<1> DEFINE base == [o EXCEPT !.lastEvidence = result.evidence]
           at == NextRetryAt(o.policySnapshot.execution, o.executionCount, t, jitter, date)
           again == [kind |-> "execution", at |-> at]
<1>1. result.evidence \in Evidence
  BY Zenon DEF Result
<1>2. /\ Sound(base) /\ base.status \in ActiveStatuses
      /\ HasBudget(o, "execution") => HasBudget(base, "execution")
  BY <1>1, EvidenceSound, SMT DEF HasBudget, Count
<1>3. again \in Schedule /\ again.kind = "execution"
  <2>1. o \in Operation
    BY DEF Sound
  <2>2. /\ o.policySnapshot.execution \in [maxAttempts : Nat, baseDelay : Nat, maxDelay : Nat]
        /\ o.executionCount \in Nat
    BY <2>1, PolicyTypes, SMT DEF Operation, Actions
  <2>3. at \in Nat
    BY <2>2, NextRetryAtIsLate, Zenon
  <2> HIDE DEF at
  <2> QED
    BY <2>3, SMT DEF Schedule, Actions
<1> HIDE DEF base, again
<1>4. again \in Option(Schedule) /\ again # None
  BY <1>3, NoneAssumption, Zenon DEF Option, Schedule
<1>5. CASE result.kind = "CONFIRMED_COMPLETED"
  <2>1. GlobalBackend(result.evidence)
    BY <1>5, Zenon DEF ResultAccepted
  <2>2. Resolved(o, result, date, jitter, t) = Completed(base, result.evidence)
    BY <1>5, SMT DEF Resolved, base, SettlesRejection, SettlesNoEffect
  <2> QED
    BY <1>1, <1>2, <2>1, <2>2, CompletedSound
<1>6. CASE SettlesRejection(o, result)
  <2>1. Resolved(o, result, date, jitter, t) = Failed(base, "BUSINESS_REJECTION")
    BY <1>6, SMT DEF Resolved, base, SettlesRejection, SettlesNoEffect
  <2> QED
    BY <1>2, <2>1, FailedSound DEF Failures
<1>7. CASE SettlesNoEffect(o, result) /\ ~result.retryable
  <2>1. Resolved(o, result, date, jitter, t) = Failed(base, "NOT_RETRYABLE")
    BY <1>7, SMT DEF Resolved, base, SettlesRejection, SettlesNoEffect
  <2> QED
    BY <1>2, <2>1, FailedSound DEF Failures
<1>8. CASE SettlesNoEffect(o, result) /\ result.retryable /\ ~HasBudget(o, "execution")
  <2>1. Resolved(o, result, date, jitter, t) = Failed(base, "BUDGET_EXHAUSTED")
    BY <1>8, SMT DEF Resolved, base, SettlesRejection, SettlesNoEffect
  <2> QED
    BY <1>2, <2>1, FailedSound DEF Failures
<1>9. CASE SettlesNoEffect(o, result) /\ result.retryable /\ HasBudget(o, "execution")
  <2>1. Resolved(o, result, date, jitter, t) = Idle(base, "ACCEPTED", again)
    BY <1>9, SMT DEF Resolved, base, again, SettlesRejection, SettlesNoEffect
  <2>2. Sound(Idle(base, "ACCEPTED", again))
    BY <1>2, <1>3, <1>4, <1>9, IdleSound DEF IdleStatuses
  <2> QED
    BY <2>1, <2>2
<1>10. CASE /\ result.kind # "CONFIRMED_COMPLETED"
            /\ ~SettlesRejection(o, result) /\ ~SettlesNoEffect(o, result)
  <2>1. Resolved(o, result, date, jitter, t) = Unknown(base, t, jitter, date)
    BY <1>10, Zenon DEF Resolved, base
  <2> QED
    BY <1>2, <2>1, UnknownSound
<1> QED
  BY <1>5, <1>6, <1>7, <1>8, <1>9, <1>10

LEMMA RecoveredSound ==
    ASSUME NEW o, Sound(o), NEW t \in Nat, RecoverAllowed(o, t), NEW jitter \in Nat
    PROVE  Sound(Recovered(o, t, jitter))
<1> DEFINE u == Unknown(o, t, jitter, None)
           n == [u EXCEPT !.fence = o.fence + 1]
<1>1. Sound(u)
  BY UnknownSound, Zenon DEF RecoverAllowed, Option
<1>2. u.status = "UNKNOWN"
  BY Zenon DEF Unknown, Idle, Sound, Operation
<1> HIDE DEF u
<1>3. u \in Operation /\ WellFormed(u) /\ WorkHasBudget(u) /\ o.fence + 1 \in Nat
  BY <1>1, SMT DEF Sound, Operation
<1>4. n \in Operation
  BY <1>3, Zenon DEF Operation
<1>5. WellFormed(n) /\ WorkHasBudget(n)
  BY <1>2, <1>3, SMT DEF WellFormed, BudgetsHold, OwnershipHolds, UncertaintyHolds,
     OutcomeHolds, ScheduleHolds, WorkHasBudget, HasBudget, Count, Operation, ActiveStatuses
<1> QED
  BY <1>4, <1>5 DEF Sound, Recovered, u

LEMMA RenewedSound ==
    ASSUME NEW o, Sound(o), o.status \in ActiveStatuses, NEW t \in Nat, NEW d \in Nat
    PROVE  Sound(Renewed(o, d, t))
<1> DEFINE n == Renewed(o, d, t)
           lease == [o.lease EXCEPT !.expiresAt = t + d]
<1>1. o \in Operation /\ WellFormed(o) /\ WorkHasBudget(o)
  BY DEF Sound
<1>2. o.lease \in Lease
  BY <1>1, Zenon DEF WellFormed, OwnershipHolds, Operation, Option
<1>3. lease \in Lease /\ lease.fence = o.lease.fence
  BY <1>2, SMT DEF Lease
<1>4. lease # None
  BY <1>3, NoneAssumption, Zenon DEF Lease
<1>5. n = [o EXCEPT !.lease = lease]
  BY DEF Renewed
<1> HIDE DEF n, lease
<1>6. n \in Operation
  BY <1>1, <1>3, <1>5, Zenon DEF Operation, Option
<1>7. WellFormed(n) /\ WorkHasBudget(n)
  BY <1>1, <1>3, <1>4, <1>5, SMT DEF WellFormed, BudgetsHold, OwnershipHolds,
     UncertaintyHolds, OutcomeHolds, ScheduleHolds, WorkHasBudget, HasBudget, Count,
     Operation, ActiveStatuses
<1> QED
  BY <1>6, <1>7 DEF Sound, n

LEMMA ScheduledSound ==
    ASSUME NEW o, Sound(o), NEW schedule \in Option(Schedule),
           NEW hold \in Option(HoldReasons), NEW jitter,
           ScheduleAllowed(o, schedule, hold, jitter)
    PROVE  Sound(Scheduled(o, schedule, hold))
<1> DEFINE n == Scheduled(o, schedule, hold)
           s == IF schedule = None THEN o.schedule ELSE schedule
<1>1. o \in Operation /\ WellFormed(o) /\ WorkHasBudget(o)
  BY DEF Sound
<1>2. s \in Option(Schedule)
  BY <1>1, Zenon DEF Operation
<1>3. /\ o.status = "ACCEPTED" => s # None /\ s.kind = "execution"
      /\ s # None => HasBudget(o, s.kind)
  BY <1>1, Zenon DEF WorkHasBudget, ScheduleAllowed, WellFormed, ScheduleHolds
<1>4. n = [o EXCEPT !.schedule = s, !.holdReason = hold]
  BY DEF Scheduled
<1>5. o.status \in IdleStatuses
  BY DEF ScheduleAllowed
<1> HIDE DEF n, s
<1>6. n \in Operation
  BY <1>1, <1>2, <1>4, Zenon DEF Operation
<1>7. WellFormed(n) /\ WorkHasBudget(n)
  BY <1>1, <1>3, <1>4, <1>5, SMT DEF WellFormed, BudgetsHold, OwnershipHolds,
     UncertaintyHolds, OutcomeHolds, ScheduleHolds, WorkHasBudget, HasBudget, Count,
     Operation, IdleStatuses, ActiveStatuses, TerminalStatuses
<1> QED
  BY <1>6, <1>7 DEF Sound, n

(* The inductive invariant: the types, and the record sound once accepted. *)
Inv == TypeOK /\ (op # None => Sound(op))

LEMMA InitInv == Init => Inv
<1> SUFFICES ASSUME Init PROVE Inv
  OBVIOUS
<1> QED
  BY LifecycleAssumption, SMT DEF Init, Inv, TypeOK, Option, Times

LEMMA ResultsTyped == Results \subseteq Result
<1>1. ASSUME NEW e \in Evidences PROVE e \in Evidence
  BY LifecycleAssumption, Zenon DEF Evidences, Evidence
<1> QED
  BY <1>1, Zenon DEF Results, Result

(* The row is there to stay.                                               *)
RowStays == op # None => op' # None

(* A committed sound record keeps the invariant.                           *)
LEMMA CommitInv ==
    ASSUME Inv, NEW o, Sound(o), op' = Commit(o, now), now' = now,
           retryAfter' \in Option(Nat), reschedules' \in 0..MaxReschedules
    PROVE  Inv' /\ RowStays
<1>1. now \in Nat
  BY DEF Inv, TypeOK
<1>2. Sound(op')
  BY <1>1, CommitSound
<1>3. TypeOK'
  BY <1>1, <1>2, Zenon DEF Sound, TypeOK, Option
<1> QED
  BY <1>2, <1>3, RecordAssumption DEF Inv, Sound, WellFormed, WorkHasBudget, RowStays

LEMMA NextInv == Inv /\ [Next]_vars => Inv' /\ RowStays
<1> SUFFICES ASSUME Inv, [Next]_vars PROVE Inv' /\ RowStays
  OBVIOUS
<1> USE LifecycleAssumption
<1>0. /\ now \in Nat /\ retryAfter \in Option(Nat) /\ reschedules \in 0..MaxReschedules
      /\ op # None => Sound(op)
  BY DEF Inv, TypeOK
<1>1. ASSUME NEW policy \in Policies, Accept(policy)
      PROVE  Inv' /\ RowStays
  <2>1. Sound(op')
    BY <1>0, <1>1, AcceptanceSound, Zenon DEF Accept
  <2>2. TypeOK'
    BY <1>0, <1>1, <2>1, Zenon DEF Accept, Sound, TypeOK, Option
  <2> QED
    BY <1>1, <2>1, <2>2 DEF Inv, Accept, RowStays
<1>2. ASSUME NEW action \in Actions, NEW id \in AttemptIds, NEW owner \in Owners,
             NEW d \in LeaseDurations, NEW ready \in Readinesses,
             Claim(action, id, owner, d, ready)
      PROVE  Inv' /\ RowStays
  <2>1. Sound(Claimed(op, action, id, owner, d, now))
    BY <1>0, <1>2, ClaimedSound, Zenon DEF Claim
  <2> QED
    BY <1>0, <1>2, <2>1, CommitInv, Zenon DEF Claim, Option
<1>3. ASSUME op # None, NEW owner \in Ownerships, CommitResult(owner)
      PROVE  Inv' /\ RowStays
  <2>1. op.status \in ActiveStatuses
    BY <1>3 DEF CommitResult, Owns
  <2>2. PICK result \in Results :
            /\ ResultAccepted(op, result)
            /\ \E date \in Dates, jitter \in Jitters :
                  /\ op' = Commit(Resolved(op, result, date, jitter, now), now)
                  /\ retryAfter' = date
    BY <1>3, Zenon DEF CommitResult
  <2>3. PICK date \in Dates, jitter \in Jitters :
            /\ op' = Commit(Resolved(op, result, date, jitter, now), now)
            /\ retryAfter' = date
    BY <2>2
  <2>4. result \in Result
    BY ResultsTyped
  <2>5. date \in Option(Nat) /\ jitter \in Nat
    BY SMT DEF Dates, Times, Option
  <2>6. Sound(Resolved(op, result, date, jitter, now))
    BY <1>0, <1>3, <2>1, <2>2, <2>4, <2>5, ResolvedSound
  <2> QED
    BY <1>0, <1>3, <2>3, <2>5, <2>6, CommitInv, Zenon DEF CommitResult
<1>4. ASSUME NEW jitter \in Jitters, RecoverExpired(jitter)
      PROVE  Inv' /\ RowStays
  <2>1. Sound(Recovered(op, now, jitter))
    BY <1>0, <1>4, RecoveredSound, Zenon DEF RecoverExpired
  <2> QED
    BY <1>0, <1>4, <2>1, CommitInv, Zenon DEF RecoverExpired
<1>5. ASSUME op # None, NEW owner \in Ownerships, NEW d \in LeaseDurations, Renew(owner, d)
      PROVE  Inv' /\ RowStays
  <2>1. Sound(Renewed(op, d, now))
    BY <1>0, <1>5, RenewedSound, Zenon DEF Renew, RenewAllowed, Owns
  <2> QED
    BY <1>0, <1>5, <2>1, CommitInv, Zenon DEF Renew
<1>6. ASSUME NEW reason \in Failures, FailLocal(reason)
      PROVE  Inv' /\ RowStays
  <2>1. Sound(Failed(op, reason))
    BY <1>0, <1>6, FailedSound, Zenon DEF FailLocal
  <2> QED
    BY <1>0, <1>6, <2>1, CommitInv, Zenon DEF FailLocal
<1>7. ASSUME NEW schedule \in Option([kind : Actions, at : Times]),
             NEW hold \in Option(HoldReasons), NEW jitter \in Jitters,
             UpdateScheduling(schedule, hold, jitter)
      PROVE  Inv' /\ RowStays
  <2>1. schedule \in Option(Schedule)
    BY SMT DEF Option, Schedule, Times
  <2>2. Sound(Scheduled(op, schedule, hold))
    BY <1>0, <1>7, <2>1, ScheduledSound, Zenon DEF UpdateScheduling
  <2>3. reschedules' \in 0..MaxReschedules
    BY <1>0, <1>7, SMT DEF UpdateScheduling
  <2> QED
    BY <1>0, <1>7, <2>2, <2>3, CommitInv, Zenon DEF UpdateScheduling
<1>8. ASSUME NEW t \in Times, SetClock(t)
      PROVE  Inv' /\ RowStays
  <2>1. t \in Nat
    BY SMT DEF Times
  <2> QED
    BY <1>0, <1>8, <2>1, Zenon DEF SetClock, Inv, TypeOK, Sound, WellFormed, WorkHasBudget,
       RowStays
<1>9. CASE UNCHANGED vars
  BY <1>9 DEF vars, Inv, TypeOK, Sound, WellFormed, WorkHasBudget, RowStays
<1> QED
  BY <1>1, <1>2, <1>3, <1>4, <1>5, <1>6, <1>7, <1>8, <1>9, Zenon DEF Next

LEMMA SpecInv == Spec => []Inv
BY InitInv, NextInv, PTL DEF Spec

(* Every reachable record has the shape the code's types promise.          *)
THEOREM TypeCorrect == Spec => []TypeOK
<1>1. Inv => TypeOK
  BY DEF Inv
<1> QED
  BY SpecInv, <1>1, PTL

(* assertOperationInvariants never throws: no sequence of committed        *)
(* mutations reaches a record that operation.ts calls invalid.             *)
THEOREM InvariantsHold == Spec => []OperationInvariants
<1>1. Inv => OperationInvariants
  BY DEF Inv, Sound, OperationInvariants
<1> QED
  BY SpecInv, <1>1, PTL

(* Accepted work always has a scheduled execution with budget left, and    *)
(* nothing is ever scheduled that claim() would refuse as BudgetExhausted. *)
THEOREM WorkKeepsBudget == Spec => []ScheduledWorkHasBudget
<1>1. Inv => ScheduledWorkHasBudget
  BY DEF Inv, Sound, ScheduledWorkHasBudget
<1> QED
  BY SpecInv, <1>1, PTL

-----------------------------------------------------------------------------
(* The forms a resolved record takes, by what the evidence settles.        *)
Answers(o, result, base, r) ==
    \/ r = Completed(base, result.evidence) /\ result.kind = "CONFIRMED_COMPLETED"
    \/ \E f \in Failures : r = Failed(base, f) /\ SettlesRejection(o, result)
    \/ \E f \in Failures : r = Failed(base, f) /\ SettlesNoEffect(o, result)
    \/ \E s : r = Idle(base, "ACCEPTED", s) /\ SettlesNoEffect(o, result)
    \/ \E s : r = Idle(base, "UNKNOWN", s)

LEMMA ResolvedForms ==
    ASSUME NEW o, NEW result, NEW date, NEW jitter, NEW t
    PROVE  Answers(o, result, [o EXCEPT !.lastEvidence = result.evidence],
                   Resolved(o, result, date, jitter, t))
<1> USE DEF Answers
<1> DEFINE base == [o EXCEPT !.lastEvidence = result.evidence]
<1>1. CASE result.kind = "CONFIRMED_COMPLETED"
  BY <1>1, SMT DEF Resolved, SettlesRejection, SettlesNoEffect
<1>2. CASE SettlesRejection(o, result)
  <2>1. Resolved(o, result, date, jitter, t) = Failed(base, "BUSINESS_REJECTION")
    BY <1>2, SMT DEF Resolved, SettlesRejection, SettlesNoEffect
  <2> QED
    BY <1>2, <2>1, Zenon DEF Failures
<1>3. CASE SettlesNoEffect(o, result) /\ ~result.retryable
  <2>1. Resolved(o, result, date, jitter, t) = Failed(base, "NOT_RETRYABLE")
    BY <1>3, SMT DEF Resolved, SettlesRejection, SettlesNoEffect
  <2> QED
    BY <1>3, <2>1, Zenon DEF Failures
<1>4. CASE SettlesNoEffect(o, result) /\ result.retryable /\ ~HasBudget(o, "execution")
  <2>1. Resolved(o, result, date, jitter, t) = Failed(base, "BUDGET_EXHAUSTED")
    BY <1>4, SMT DEF Resolved, SettlesRejection, SettlesNoEffect
  <2> QED
    BY <1>4, <2>1, Zenon DEF Failures
<1>5. CASE SettlesNoEffect(o, result) /\ result.retryable /\ HasBudget(o, "execution")
  <2> DEFINE s == [kind |-> "execution",
                   at |-> NextRetryAt(o.policySnapshot.execution, o.executionCount, t,
                                      jitter, date)]
  <2>1. Resolved(o, result, date, jitter, t) = Idle(base, "ACCEPTED", s)
    BY <1>5, SMT DEF Resolved, SettlesRejection, SettlesNoEffect
  <2> HIDE DEF s
  <2> QED
    BY <1>5, <2>1, Zenon
<1>6. CASE /\ result.kind # "CONFIRMED_COMPLETED"
           /\ ~SettlesRejection(o, result) /\ ~SettlesNoEffect(o, result)
  <2>1. Resolved(o, result, date, jitter, t) = Unknown(base, t, jitter, date)
    BY <1>6, Zenon DEF Resolved
  <2>2. \E s : Unknown(base, t, jitter, date) = Idle(base, "UNKNOWN", s)
    BY Zenon DEF Unknown
  <2> QED
    BY <2>1, <2>2, Zenon
<1> QED
  BY <1>1, <1>2, <1>3, <1>4, <1>5, <1>6

(* What settles an operation that may be in doubt speaks for all of it.    *)
LEMMA SettlesGlobally ==
    ASSUME NEW o, o.status \in ActiveStatuses, NEW result, ResultAccepted(o, result),
           \/ result.kind = "CONFIRMED_COMPLETED"
           \/ SettlesRejection(o, result)
           \/ SettlesNoEffect(o, result)
    PROVE  /\ GlobalBackend(result.evidence) \/ ~o.unresolvedEffect
           /\ result.kind = "CONFIRMED_COMPLETED" => GlobalBackend(result.evidence)
<1>1. CASE result.kind = "CONFIRMED_COMPLETED"
  BY <1>1, Zenon DEF ResultAccepted
<1>2. CASE SettlesRejection(o, result)
  BY <1>2, Zenon DEF ResultAccepted, SettlesRejection, GlobalBackend
<1>3. CASE SettlesNoEffect(o, result)
  <2>1. CASE o.status = "VERIFYING"
    <3>1. result.kind = "FINAL_NOT_APPLIED"
      BY <1>3, <2>1, SMT DEF ResultAccepted, SettlesNoEffect, VerificationResultKinds
    <3> QED
      BY <3>1, Zenon DEF ResultAccepted
  <2>2. CASE ~o.unresolvedEffect
    BY <1>3, <2>2, SMT DEF SettlesNoEffect
  <2> QED
    BY <1>3, <2>1, <2>2 DEF SettlesNoEffect
<1> QED
  BY <1>1, <1>2, <1>3
(* What a committed result does to an uncertain operation.                 *)
LEMMA ResolvedSettles ==
    ASSUME NEW o \in Operation, o.status \in ActiveStatuses, o.unresolvedEffect,
           NEW result \in Result, ResultAccepted(o, result),
           NEW date, NEW jitter, NEW t,
           ~Commit(Resolved(o, result, date, jitter, t), t).unresolvedEffect
    PROVE  /\ Commit(Resolved(o, result, date, jitter, t), t).lastEvidence = result.evidence
           /\ GlobalBackend(result.evidence)
           /\ result.evidence.attemptId = o.activeAttempt.id
<1> DEFINE base == [o EXCEPT !.lastEvidence = result.evidence]
           r == Resolved(o, result, date, jitter, t)
<1>1. base \in Operation /\ base.lastEvidence = result.evidence
  BY Zenon DEF Operation, Option, Result
<1>2. Answers(o, result, base, r)
  BY ResolvedForms, Zenon
<1> HIDE DEF base, r
<1>3. /\ Commit(r, t).unresolvedEffect = r.unresolvedEffect
      /\ Commit(r, t).lastEvidence = result.evidence
  BY <1>1, <1>2, Zenon DEF Answers, Completed, Failed, Idle, Commit, Operation
<1>4. ~(\E s : r = Idle(base, "UNKNOWN", s))
  BY <1>1, <1>3, Zenon DEF Idle, Operation, r
<1>5. GlobalBackend(result.evidence)
  BY <1>2, <1>4, SettlesGlobally, Zenon DEF Answers
<1> QED
  BY <1>3, <1>5, Zenon DEF ResultAccepted, r

LEMMA SettledStep == Inv /\ [Next]_vars => [SettledByBackend]_vars
<1> SUFFICES ASSUME Inv, Next, op # None, op.unresolvedEffect, ~op'.unresolvedEffect
             PROVE  SettledByBackend
  BY DEF SettledByBackend
<1> USE LifecycleAssumption
<1>0. op \in Operation /\ Sound(op)
  BY DEF Inv, Sound
<1>1. ASSUME NEW policy \in Policies, Accept(policy)
      PROVE  FALSE
  BY <1>1 DEF Accept
<1>2. ASSUME NEW action \in Actions, NEW id \in AttemptIds, NEW owner \in Owners,
             NEW d \in LeaseDurations, NEW ready \in Readinesses,
             Claim(action, id, owner, d, ready)
      PROVE  FALSE
  BY <1>0, <1>2, Zenon DEF Claim, Claimed, Commit, Operation
<1>3. ASSUME op # None, NEW owner \in Ownerships, CommitResult(owner)
      PROVE  SettledByBackend
  <2>1. op.status \in ActiveStatuses
    BY <1>3 DEF CommitResult, Owns
  <2>2. PICK result \in Results :
            /\ ResultAccepted(op, result)
            /\ \E date \in Dates, jitter \in Jitters :
                  /\ op' = Commit(Resolved(op, result, date, jitter, now), now)
                  /\ retryAfter' = date
    BY <1>3, Zenon DEF CommitResult
  <2>3. result \in Result
    BY ResultsTyped
  <2>4. /\ op'.lastEvidence = result.evidence
        /\ GlobalBackend(result.evidence)
        /\ result.evidence.attemptId = op.activeAttempt.id
    <3>1. PICK date \in Dates, jitter \in Jitters :
            op' = Commit(Resolved(op, result, date, jitter, now), now)
      BY <2>2
    <3>2. ~Commit(Resolved(op, result, date, jitter, now), now).unresolvedEffect
      BY <3>1
    <3> QED
      BY <1>0, <2>1, <2>2, <2>3, <3>1, <3>2, ResolvedSettles
  <2>5. result.evidence # None
    BY <2>3, NoneAssumption, Zenon DEF Result, Evidence
  <2> QED
    BY <2>4, <2>5, Zenon DEF SettledByBackend
<1>4. ASSUME NEW jitter \in Jitters, RecoverExpired(jitter)
      PROVE  FALSE
  BY <1>0, <1>4, Zenon DEF RecoverExpired, Recovered, Unknown, Idle, Commit, Operation
<1>5. ASSUME op # None, NEW owner \in Ownerships, NEW d \in LeaseDurations, Renew(owner, d)
      PROVE  FALSE
  BY <1>0, <1>5, Zenon DEF Renew, Renewed, Commit, Operation
<1>6. ASSUME NEW reason \in Failures, FailLocal(reason)
      PROVE  FALSE
  BY <1>0, <1>6, Zenon DEF FailLocal, FailLocalAllowed, Sound, WellFormed, UncertaintyHolds
<1>7. ASSUME NEW schedule \in Option([kind : Actions, at : Times]),
             NEW hold \in Option(HoldReasons), NEW jitter \in Jitters,
             UpdateScheduling(schedule, hold, jitter)
      PROVE  FALSE
  BY <1>0, <1>7, Zenon DEF UpdateScheduling, Scheduled, Commit, Operation
<1>8. ASSUME NEW t \in Times, SetClock(t)
      PROVE  FALSE
  BY <1>8 DEF SetClock
<1> QED
  BY <1>1, <1>2, <1>3, <1>4, <1>5, <1>6, <1>7, <1>8, Zenon DEF Next

(* Uncertainty about a remote effect ends only with the backend's word on  *)
(* the whole operation, correlated to the attempt that asked.              *)
THEOREM UncertaintyIsKept == Spec => UncertaintyEndsByBackend
BY SpecInv, SettledStep, PTL DEF Spec, UncertaintyEndsByBackend

-----------------------------------------------------------------------------
(* The records the stores are modelled with, for this operation alone; of  *)
(* an intent its policy is what a command could change.                    *)
Records == INSTANCE MutationRecords WITH
    Ids <- {"operation"}, Intents <- RetryPolicy, Keys <- {},
    KeyOf <- [policy \in RetryPolicy |-> None], MutationIds <- {}, MaxExpected <- 0

(* What a store keeps of the row, and the request that its step answers:   *)
(* an acceptance, or a change that expects the revision there is.          *)
RowOf(o) ==
    IF o = None THEN None
    ELSE [intent |-> o.policySnapshot, status |-> o.status, revision |-> o.revision]
Rows == [i \in {"operation"} |-> RowOf(op)]
RequestOf(o, n) ==
    IF o = None
    THEN [kind |-> "ACCEPT", id |-> "operation", intent |-> n.policySnapshot]
    ELSE [kind |-> "CHANGE", id |-> "operation", expectedRevision |-> o.revision]

(* Every command does to the row what MutationRecords says a request may.  *)
StoredStep ==
    op' # op => RowOf(op') \in Records!Results(Rows, RequestOf(op, op'))

(* How a command may change what orders the owners of an operation, and    *)
(* how many attempts it had.                                               *)
Attempts(o) == o.executionCount + o.verificationCount
Advances(o, n) ==
    /\ \/ n.status = o.status /\ o.status \notin TerminalStatuses
       \/ n.status \in AllowedTransitions[o.status]
    /\ n.policySnapshot = o.policySnapshot
    /\ n.revision = o.revision
    /\ n.fence \in Nat /\ n.fence >= o.fence
    /\ n.lease # None /\ o.lease = None => n.fence > o.fence
    /\ Attempts(n) = IF o.status \in IdleStatuses /\ n.status \in ActiveStatuses
                     THEN Attempts(o) + 1 ELSE Attempts(o)

LEMMA ClaimAdvances ==
    ASSUME NEW o \in Operation, NEW action \in Actions, NEW ready, NEW id, NEW owner,
           NEW d, NEW t, ClaimAllowed(o, action, ready, t)
    PROVE  Advances(o, Claimed(o, action, id, owner, d, t))
<1> DEFINE n == Claimed(o, action, id, owner, d, t)
<1>1. /\ n.status = (IF action = "execution" THEN "EXECUTING" ELSE "VERIFYING")
      /\ n.revision = o.revision /\ n.fence = o.fence + 1
      /\ n.policySnapshot = o.policySnapshot
  BY Zenon DEF Claimed, Operation
<1>2. n.status \in AllowedTransitions[o.status]
  BY <1>1, SMT DEF ClaimAllowed, AllowedTransitions, IdleStatuses, Actions
<1>3. /\ n.executionCount = (IF action = "execution" THEN o.executionCount + 1
                                                    ELSE o.executionCount)
      /\ n.verificationCount = (IF action = "execution" THEN o.verificationCount
                                                       ELSE o.verificationCount + 1)
  BY Zenon DEF Claimed, Count, Operation
<1> HIDE DEF n
<1>4. /\ o.fence \in Nat /\ o.executionCount \in Nat /\ o.verificationCount \in Nat
      /\ o.status \in IdleStatuses
  BY DEF Operation, ClaimAllowed
<1>5. Attempts(n) = Attempts(o) + 1 /\ n.status \in ActiveStatuses
  BY <1>1, <1>3, <1>4, SMT DEF Attempts, ActiveStatuses
<1> QED
  BY <1>1, <1>2, <1>4, <1>5, SMT DEF Advances, n

LEMMA ResolvedAdvances ==
    ASSUME NEW o \in Operation, o.status \in ActiveStatuses, NEW result \in Result,
           NEW date, NEW jitter, NEW t
    PROVE  Advances(o, Resolved(o, result, date, jitter, t))
<1> DEFINE base == [o EXCEPT !.lastEvidence = result.evidence]
           r == Resolved(o, result, date, jitter, t)
<1>1. base \in Operation /\ base.status = o.status /\ base.revision = o.revision
      /\ base.fence = o.fence /\ base.policySnapshot = o.policySnapshot
      /\ base.executionCount = o.executionCount
      /\ base.verificationCount = o.verificationCount
  BY Zenon DEF Operation, Option, Result
<1>2. {"ACCEPTED", "UNKNOWN", "COMPLETED", "FAILED"} \subseteq AllowedTransitions[o.status]
  BY SMT DEF AllowedTransitions, ActiveStatuses
<1>3. ASSUME NEW n, \/ n = Completed(base, result.evidence)
                    \/ \E f \in Failures : n = Failed(base, f)
                    \/ \E s : n = Idle(base, "ACCEPTED", s)
                    \/ \E s : n = Idle(base, "UNKNOWN", s)
      PROVE  /\ n.status \in {"ACCEPTED", "UNKNOWN", "COMPLETED", "FAILED"}
             /\ n.revision = o.revision /\ n.fence = o.fence /\ n.lease = None
             /\ n.policySnapshot = o.policySnapshot
             /\ n.executionCount = o.executionCount
             /\ n.verificationCount = o.verificationCount
  <2> HIDE DEF base
  <2>1. CASE n = Completed(base, result.evidence)
    BY <1>1, <2>1, Zenon DEF Completed, Idle, Operation
  <2>2. CASE \E f \in Failures : n = Failed(base, f)
    BY <1>1, <2>2, Zenon DEF Failed, Idle, Operation
  <2>3. CASE \E s : n = Idle(base, "ACCEPTED", s)
    BY <1>1, <2>3, Zenon DEF Idle, Operation
  <2>4. CASE \E s : n = Idle(base, "UNKNOWN", s)
    BY <1>1, <2>4, Zenon DEF Idle, Operation
  <2> QED
    BY <1>3, <2>1, <2>2, <2>3, <2>4
<1>4. /\ r.status \in {"ACCEPTED", "UNKNOWN", "COMPLETED", "FAILED"}
      /\ r.revision = o.revision /\ r.fence = o.fence /\ r.lease = None
      /\ r.policySnapshot = o.policySnapshot
      /\ r.executionCount = o.executionCount /\ r.verificationCount = o.verificationCount
  <2>1. Answers(o, result, base, r)
    BY ResolvedForms, Zenon
  <2> HIDE DEF base, r
  <2> QED
    BY <1>3, <2>1, Zenon DEF Answers
<1> HIDE DEF r
<1>5. o.fence \in Nat /\ o.status \notin IdleStatuses
  BY DEF Operation, ActiveStatuses, IdleStatuses
<1>6. Attempts(r) = Attempts(o)
  BY <1>4, Zenon DEF Attempts
<1> QED
  BY <1>2, <1>4, <1>5, <1>6, SMT DEF Advances, r

LEMMA RecoveredAdvances ==
    ASSUME NEW o \in Operation, o.status \in ActiveStatuses, NEW t, NEW jitter
    PROVE  Advances(o, Recovered(o, t, jitter))
<1> DEFINE n == Recovered(o, t, jitter)
<1>1. /\ n.status = "UNKNOWN" /\ n.revision = o.revision
      /\ n.fence = o.fence + 1 /\ n.policySnapshot = o.policySnapshot
      /\ n.executionCount = o.executionCount /\ n.verificationCount = o.verificationCount
  BY Zenon DEF Recovered, Unknown, Idle, Operation
<1>2. "UNKNOWN" \in AllowedTransitions[o.status]
  BY SMT DEF AllowedTransitions, ActiveStatuses
<1> HIDE DEF n
<1>3. o.fence \in Nat /\ o.status \notin IdleStatuses
  BY DEF Operation, ActiveStatuses, IdleStatuses
<1>4. Attempts(n) = Attempts(o)
  BY <1>1, Zenon DEF Attempts
<1> QED
  BY <1>1, <1>2, <1>3, <1>4, SMT DEF Advances, n

(* Every command proposes the record, or commits one that advances it.     *)
Advancing ==
    \/ op = None /\ \E policy \in Policies : op' = ProposedAcceptance(policy, now)
    \/ op # None /\ \E n \in Operation : op' = Commit(n, now) /\ Advances(op, n)

LEMMA CommandsAdvance == Inv /\ [Next]_vars /\ op' # op => Advancing
<1> SUFFICES ASSUME Inv, Next, op' # op
             PROVE  Advancing
  BY DEF vars
<1> USE LifecycleAssumption
<1>0. op # None => op \in Operation /\ Sound(op)
  BY DEF Inv, Sound
<1>1. ASSUME op # None, NEW n \in Operation, op' = Commit(n, now), Advances(op, n)
      PROVE  Advancing
  BY <1>1 DEF Advancing
<1>2. ASSUME NEW policy \in Policies, Accept(policy)
      PROVE  Advancing
  BY <1>2 DEF Accept, Advancing
<1>3. ASSUME NEW action \in Actions, NEW id \in AttemptIds, NEW owner \in Owners,
             NEW d \in LeaseDurations, NEW ready \in Readinesses,
             Claim(action, id, owner, d, ready)
      PROVE  Advancing
  <2>0. op # None /\ op \in Operation /\ Sound(op)
    BY <1>0, <1>3 DEF Claim
  <2>1. ClaimAllowed(op, action, ready, now) /\ now \in Nat
    BY <1>3, Zenon DEF Claim, Inv, TypeOK
  <2>2. Sound(Claimed(op, action, id, owner, d, now))
    BY <2>0, <2>1, ClaimedSound, Zenon
  <2>3. Advances(op, Claimed(op, action, id, owner, d, now))
    BY <2>0, <2>1, ClaimAdvances, Zenon
  <2> QED
    BY <1>1, <2>0, <1>3, <2>2, <2>3, Zenon DEF Claim, Sound
<1>4. ASSUME op # None, NEW owner \in Ownerships, CommitResult(owner)
      PROVE  Advancing
  <2>0. op # None /\ op \in Operation /\ Sound(op)
    BY <1>0, <1>4
  <2>1. op.status \in ActiveStatuses
    BY <1>4 DEF CommitResult, Owns
  <2>2. PICK result \in Results :
            /\ ResultAccepted(op, result)
            /\ \E date \in Dates, jitter \in Jitters :
                  op' = Commit(Resolved(op, result, date, jitter, now), now)
    BY <1>4, Zenon DEF CommitResult
  <2>3. PICK date \in Dates, jitter \in Jitters :
            op' = Commit(Resolved(op, result, date, jitter, now), now)
    BY <2>2
  <2>4. result \in Result /\ date \in Option(Nat) /\ jitter \in Nat /\ now \in Nat
    BY ResultsTyped, SMT DEF Dates, Times, Option, Inv, TypeOK
  <2>5. Sound(Resolved(op, result, date, jitter, now))
    BY <2>0, <2>1, <2>2, <2>4, ResolvedSound
  <2>6. Advances(op, Resolved(op, result, date, jitter, now))
    BY <2>0, <2>1, <2>4, ResolvedAdvances
  <2> QED
    BY <1>1, <2>0, <2>3, <2>5, <2>6 DEF Sound
<1>5. ASSUME NEW jitter \in Jitters, RecoverExpired(jitter)
      PROVE  Advancing
  <2>0. op # None /\ op \in Operation /\ Sound(op)
    BY <1>0, <1>5 DEF RecoverExpired
  <2>1. RecoverAllowed(op, now) /\ now \in Nat /\ jitter \in Nat
    BY <1>5, Zenon DEF RecoverExpired, Inv, TypeOK
  <2>2. Sound(Recovered(op, now, jitter)) /\ Advances(op, Recovered(op, now, jitter))
    BY <2>0, <2>1, RecoveredSound, RecoveredAdvances, Zenon DEF RecoverAllowed
  <2> QED
    BY <1>1, <2>0, <1>5, <2>2, Zenon DEF RecoverExpired, Sound
<1>6. ASSUME op # None, NEW owner \in Ownerships, NEW d \in LeaseDurations, Renew(owner, d)
      PROVE  Advancing
  <2>0. op # None /\ op \in Operation /\ Sound(op)
    BY <1>0, <1>6
  <2>1. op.status \in ActiveStatuses /\ now \in Nat
    BY <1>6, Zenon DEF Renew, RenewAllowed, Owns, Inv, TypeOK
  <2>2. op.lease # None
    BY <2>0, <2>1, Zenon DEF Sound, WellFormed, OwnershipHolds
  <2>3. Sound(Renewed(op, d, now))
    BY <2>0, <2>1, RenewedSound, Zenon
  <2>4. Advances(op, Renewed(op, d, now))
    <3> DEFINE n == Renewed(op, d, now)
    <3>1. /\ n.status = op.status /\ n.revision = op.revision /\ n.fence = op.fence
          /\ n.policySnapshot = op.policySnapshot
          /\ n.executionCount = op.executionCount
          /\ n.verificationCount = op.verificationCount
      BY <2>0, Zenon DEF Renewed, Operation
    <3>2. /\ op.status \notin TerminalStatuses /\ op.status \notin IdleStatuses
          /\ op.fence \in Nat
      BY <2>0, <2>1, SMT DEF ActiveStatuses, IdleStatuses, TerminalStatuses, Operation
    <3>3. Attempts(n) = Attempts(op)
      BY <3>1, Zenon DEF Attempts
    <3> HIDE DEF n
    <3> QED
      BY <2>2, <3>1, <3>2, <3>3, SMT DEF Advances, n
  <2> QED
    BY <1>1, <2>0, <1>6, <2>3, <2>4, Zenon DEF Renew, Sound
<1>7. ASSUME NEW reason \in Failures, FailLocal(reason)
      PROVE  Advancing
  <2>0. op # None /\ op \in Operation /\ Sound(op)
    BY <1>0, <1>7 DEF FailLocal
  <2>1. op.status = "ACCEPTED" /\ Sound(Failed(op, reason))
    BY <2>0, <1>7, FailedSound, Zenon DEF FailLocal, FailLocalAllowed
  <2>2. Advances(op, Failed(op, reason))
    BY <2>0, <2>1, SMT DEF Advances, Attempts, Failed, Operation, AllowedTransitions,
       ActiveStatuses
  <2> QED
    BY <1>1, <2>0, <1>7, <2>1, <2>2, Zenon DEF FailLocal, Sound
<1>8. ASSUME NEW schedule \in Option([kind : Actions, at : Times]),
             NEW hold \in Option(HoldReasons), NEW jitter \in Jitters,
             UpdateScheduling(schedule, hold, jitter)
      PROVE  Advancing
  <2>0. op # None /\ op \in Operation /\ Sound(op)
    BY <1>0, <1>8 DEF UpdateScheduling
  <2>1. schedule \in Option(Schedule)
    BY SMT DEF Option, Schedule, Times
  <2>2. Sound(Scheduled(op, schedule, hold))
    BY <2>0, <1>8, <2>1, ScheduledSound, Zenon DEF UpdateScheduling
  <2>3. Advances(op, Scheduled(op, schedule, hold))
    <3> DEFINE n == Scheduled(op, schedule, hold)
    <3>1. /\ n.status = op.status /\ n.revision = op.revision /\ n.fence = op.fence
          /\ n.policySnapshot = op.policySnapshot /\ n.lease = op.lease
          /\ n.executionCount = op.executionCount
          /\ n.verificationCount = op.verificationCount
      BY <2>0, Zenon DEF Scheduled, Operation
    <3>2. /\ op.status \notin TerminalStatuses /\ op.status \notin ActiveStatuses
          /\ op.fence \in Nat
      BY <1>8, <2>0, SMT
      DEF UpdateScheduling, ScheduleAllowed, IdleStatuses, ActiveStatuses,
          TerminalStatuses, Operation
    <3>3. Attempts(n) = Attempts(op)
      BY <3>1, Zenon DEF Attempts
    <3> HIDE DEF n
    <3> QED
      BY <3>1, <3>2, <3>3, SMT DEF Advances, n
  <2> QED
    BY <1>1, <2>0, <1>8, <2>2, <2>3, Zenon DEF UpdateScheduling, Sound
<1>9. ASSUME NEW t \in Times, SetClock(t)
      PROVE  Advancing
  BY <1>9 DEF SetClock
<1> QED
  BY <1>2, <1>3, <1>4, <1>5, <1>6, <1>7, <1>8, <1>9, Zenon DEF Next

LEMMA FencedSteps == Inv /\ [Next]_vars => [FencedStep]_vars
<1> SUFFICES ASSUME Inv, [Next]_vars, op # None, op' # op
             PROVE  FencedStep
  BY DEF FencedStep, vars
<1>1. PICK n \in Operation : op' = Commit(n, now) /\ Advances(op, n)
  BY CommandsAdvance DEF Advancing
<1>2. /\ op'.status = n.status /\ op'.revision = n.revision + 1
      /\ op'.fence = n.fence /\ op'.lease = n.lease
  BY <1>1, Zenon DEF Commit, Operation
<1>3. op \in Operation /\ op.revision \in Nat
  BY DEF Inv, Sound, Operation
<1> QED
  BY <1>1, <1>2, <1>3, SMT DEF Advances, FencedStep

(* An attempt is claimed out of the budget, and ends; it is three of what  *)
(* is left, a claim of it two, an operation that waits one.                *)
LEMMA SpendingSteps == Inv /\ [Next]_vars => [UsesUp]_vars
<1> SUFFICES ASSUME Inv, [Next]_vars, op # None, op' # op
             PROVE  UsesUp
  BY DEF UsesUp, vars
<1>1. PICK n \in Operation : op' = Commit(n, now) /\ Advances(op, n)
  BY CommandsAdvance DEF Advancing
<1>2. /\ op'.status = n.status /\ Attempts(op') = Attempts(n)
      /\ op'.policySnapshot = op.policySnapshot
  BY <1>1, Zenon DEF Commit, Operation, Attempts, Advances
<1>3. op \in Operation /\ op' \in Operation /\ Sound(op')
  BY NextInv DEF Inv, Sound, RowStays
<1> DEFINE rank(o) == IF o.status \in ActiveStatuses THEN 2
                      ELSE IF o.status \in IdleStatuses THEN 1 ELSE 0
           budget == op.policySnapshot.execution.maxAttempts
                       + op.policySnapshot.verification.maxAttempts
<1>4. /\ op.policySnapshot.execution.maxAttempts \in Nat
      /\ op.policySnapshot.verification.maxAttempts \in Nat
      /\ op.executionCount \in Nat /\ op.verificationCount \in Nat
      /\ op'.executionCount \in Nat /\ op'.verificationCount \in Nat
  <2>1. op.policySnapshot \in RetryPolicy
    BY <1>3, Zenon DEF Operation
  <2>2. /\ op.executionCount \in Nat /\ op.verificationCount \in Nat
        /\ op'.executionCount \in Nat /\ op'.verificationCount \in Nat
    BY <1>3, Zenon DEF Operation
  <2>3. "execution" \in Actions
    BY DEF Actions
  <2> QED
    BY <2>1, <2>2, <2>3, PolicyTypes, SMT
<1>5. /\ op'.executionCount <= op.policySnapshot.execution.maxAttempts
      /\ op'.verificationCount <= op.policySnapshot.verification.maxAttempts
  BY <1>2, <1>3, Zenon DEF Sound, WellFormed, BudgetsHold
<1>6. /\ WorkLeft(op) = 3 * (budget - Attempts(op)) + rank(op)
      /\ WorkLeft(op') = 3 * (budget - Attempts(op')) + rank(op')
  BY <1>2, <1>4, SMT DEF WorkLeft, Attempts
<1>7. Attempts(op) \in Nat /\ Attempts(op') \in Nat /\ Attempts(op') <= budget
  BY <1>4, <1>5, SMT DEF Attempts
<1>8. budget \in Nat
  BY <1>4, SMT
<1> HIDE DEF budget
<1>9. CASE op.status \in IdleStatuses /\ op'.status \in ActiveStatuses
  BY <1>1, <1>2, <1>6, <1>7, <1>8, <1>9, SMT
  DEF Advances, IdleStatuses, ActiveStatuses, UsesUp
<1>10. CASE ~(op.status \in IdleStatuses /\ op'.status \in ActiveStatuses)
  <2>1. Attempts(op') = Attempts(op)
    BY <1>1, <1>2, <1>10, Zenon DEF Advances
  <2>2. op'.status # op.status => rank(op') < rank(op)
    BY <1>1, <1>2, <1>3, <1>10, SMT
    DEF Advances, AllowedTransitions, Operation, Statuses, IdleStatuses, ActiveStatuses,
        TerminalStatuses
  <2>3. op'.status = op.status => rank(op') = rank(op)
    OBVIOUS
  <2>4. rank(op) \in 0..2 /\ rank(op') \in 0..2
    BY SMT
  <2> HIDE DEF rank
  <2> QED
    BY <1>6, <1>7, <1>8, <2>1, <2>2, <2>3, <2>4, SMT DEF UsesUp
<1> QED
  BY <1>9, <1>10

LEMMA ChangedRow ==
    ASSUME NEW row \in Records!Operation, NEW status, NEW n,
           n = [row EXCEPT !.status = status, !.revision = @ + 1]
    PROVE  n = [intent |-> row.intent, status |-> status, revision |-> row.revision + 1]
  BY DEF Records!Operation

LEMMA StoredSteps ==
    ASSUME Records!RecordsAssumption, Inv, [Next]_vars, op' # op
    PROVE  RowOf(op') \in Records!Results(Rows, RequestOf(op, op'))
<1> DEFINE r == RequestOf(op, op')
           row == Rows[r.id]
<1>1. CASE op = None
  <2>1. PICK policy \in Policies : op' = ProposedAcceptance(policy, now)
    BY <1>1, CommandsAdvance DEF Advancing
  <2>2. op' # None
    BY <1>1
  <2>3. RowOf(op') = [intent |-> policy, status |-> "ACCEPTED", revision |-> 0]
    BY <2>1, <2>2 DEF RowOf, ProposedAcceptance
  <2>4. r.kind = "ACCEPT" /\ r.id = "operation" /\ r.intent = policy
    BY <1>1, <2>1 DEF RequestOf, ProposedAcceptance
  <2>5. row = None /\ ~Records!KeyTaken(Rows, policy)
    BY <1>1, <2>4 DEF Rows, RowOf, Records!KeyTaken
  <2> QED
    BY <2>3, <2>4, <2>5 DEF Records!Results
<1>2. CASE op # None
  <2>1. PICK n \in Operation : op' = Commit(n, now) /\ Advances(op, n)
    BY <1>2, CommandsAdvance DEF Advancing
  <2>2. op \in Operation
    BY <1>2 DEF Inv, Sound
  <2>3. /\ op'.status = n.status /\ op'.revision = op.revision + 1
        /\ op'.policySnapshot = op.policySnapshot
    BY <2>1, Zenon DEF Commit, Operation, Advances
  <2>4. op' # None
    <3>1. Commit(n, now) \in Operation
      <4>1. n.revision + 1 \in Nat /\ now \in Nat
        BY <2>1, SMT DEF Operation, Inv, TypeOK
      <4> QED
        BY <2>1, <4>1, Zenon DEF Commit, Operation
    <3> QED
      BY <2>1, <3>1, RecordAssumption
  <2>5. r.kind = "CHANGE" /\ r.id = "operation" /\ r.expectedRevision = op.revision
    BY <1>2 DEF RequestOf
  <2>6. row = [intent |-> op.policySnapshot, status |-> op.status, revision |-> op.revision]
    BY <1>2, <2>5 DEF Rows, RowOf
  <2>7. row \in Records!Operation
    BY <2>2, <2>6, SMT
    DEF Operation, Records!Operation, Records!Statuses, Records!AllowedTransitions,
        Statuses, IdleStatuses, ActiveStatuses, TerminalStatuses
  <2>8. n.status \in Records!MayBecome(op.status)
    BY <2>1, <2>2 DEF Advances, Records!MayBecome, Records!AllowedTransitions,
       AllowedTransitions, Records!TerminalStatuses, TerminalStatuses
  <2> HIDE DEF row
  <2>9. RowOf(op') = [row EXCEPT !.status = n.status, !.revision = @ + 1]
    <3>1. RowOf(op') = [intent |-> op.policySnapshot, status |-> n.status,
                        revision |-> op.revision + 1]
      BY <2>3, <2>4 DEF RowOf
    <3>2. row.revision = op.revision /\ row.intent = op.policySnapshot
      BY <2>6
    <3>3. [row EXCEPT !.status = n.status, !.revision = @ + 1]
             = [intent |-> row.intent, status |-> n.status, revision |-> row.revision + 1]
      BY <2>7, ChangedRow
    <3> QED
      BY <3>1, <3>2, <3>3, Zenon
  <2>10. row # None
    BY <2>7 DEF Records!RecordsAssumption
  <2> HIDE DEF r
  <2>11. RowOf(op') \in {[Rows[r.id] EXCEPT !.status = s, !.revision = @ + 1] :
                            s \in Records!MayBecome(Rows[r.id].status)}
    <3>1. row.status = op.status
      BY <2>6
    <3> QED
      BY <2>8, <2>9, <3>1 DEF row
  <2>12. Rows[r.id] # None /\ Rows[r.id].revision = r.expectedRevision
    BY <2>5, <2>6, <2>10 DEF row
  <2>13. RowOf(op') \in Records!Results(Rows, r)
    BY <2>5, <2>11, <2>12 DEF Records!Results
  <2> QED
    BY <2>13 DEF r
<1> QED
  BY <1>1, <1>2

(* No step goes back: every change follows ALLOWED_TRANSITIONS, moves the  *)
(* revision, and gives a new lease a fence no earlier owner can present.   *)
THEOREM EveryStepIsFenced == Spec => StepsAreFenced
BY SpecInv, FencedSteps, PTL DEF Spec, StepsAreFenced

(* Claims, expiries, retries and reads of one operation cannot follow one  *)
(* another for ever: each change of status leaves it less to go through.   *)
THEOREM AttemptsRunOut == Spec => WorkRunsOut
BY SpecInv, SpendingSteps, PTL DEF Spec, WorkRunsOut

(* The stores are modelled with requests whose effect is any status the    *)
(* table permits, or none (MutationRecords): no command does anything to   *)
(* the row that those requests do not, so what the stores keep of them,    *)
(* ledger, journal and revisions, they keep of the commands.               *)
THEOREM CommandsAreStoredChanges ==
    ASSUME Records!RecordsAssumption
    PROVE  Spec => [][StoredStep]_vars
<1>1. Inv /\ [Next]_vars => [StoredStep]_vars
  BY StoredSteps DEF StoredStep, vars
<1> QED
  BY SpecInv, <1>1, PTL DEF Spec
-----------------------------------------------------------------------------
Tried == op # None /\ op.executionCount > 0
InDoubt == op # None /\ op.unresolvedEffect

(* What DurableOperation sees of a record, and of the record a command     *)
(* leaves behind.                                                          *)
PhaseOf(o) ==
    IF o.status = "COMPLETED" THEN "completed"
    ELSE IF o.status = "FAILED" THEN "failed" ELSE "open"
WordOf(o) ==
    IF o.lastEvidence = None THEN "nobody"
    ELSE IF GlobalBackend(o.lastEvidence) THEN "operation" ELSE "attempt"

LEMMA Observed ==
    ASSUME Inv, op # None
    PROVE  /\ op \in Operation /\ Sound(op)
           /\ Phase = PhaseOf(op) /\ Word = WordOf(op)
           /\ Tried = (op.executionCount > 0) /\ InDoubt = op.unresolvedEffect
<1>1. op \in Operation /\ Sound(op)
  BY DEF Inv, Sound
<1>2. InDoubt = op.unresolvedEffect
  BY <1>1, SMT DEF Operation, InDoubt
<1>3. Tried = (op.executionCount > 0)
  BY SMT DEF Tried
<1> QED
  BY <1>1, <1>2, <1>3, Zenon DEF Phase, PhaseOf, Word, WordOf

LEMMA ObservedNext ==
    ASSUME Inv, NEW n, Sound(n), op' = Commit(n, now)
    PROVE  /\ op' # None
           /\ Phase' = PhaseOf(n) /\ Word' = WordOf(n)
           /\ Tried' = (n.executionCount > 0) /\ InDoubt' = n.unresolvedEffect
<1>1. n \in Operation /\ op' \in Operation
  BY CommitSound, Zenon DEF Sound, Inv, TypeOK
<1>2. op' # None
  BY <1>1, RecordAssumption
<1>3. /\ op'.status = n.status /\ op'.lastEvidence = n.lastEvidence
      /\ op'.executionCount = n.executionCount
      /\ op'.unresolvedEffect = n.unresolvedEffect
  BY <1>1, Zenon DEF Commit, Operation
<1>4. InDoubt' = n.unresolvedEffect
  BY <1>1, <1>2, <1>3, SMT DEF Operation, InDoubt
<1>5. Tried' = (n.executionCount > 0)
  BY <1>2, <1>3, SMT DEF Tried
<1> QED
  BY <1>2, <1>3, <1>4, <1>5, Zenon DEF Phase, PhaseOf, Word, WordOf

(* A claim of an execution starts an attempt; one of a read is not seen.   *)
LEMMA ClaimKeeps ==
    ASSUME Inv, NEW action \in Actions, NEW id \in AttemptIds, NEW owner \in Owners,
           NEW d \in LeaseDurations, NEW ready, Claim(action, id, owner, d, ready)
    PROVE  Durable!Next \/ UNCHANGED Durable!vars
<1> DEFINE n == Claimed(op, action, id, owner, d, now)
<1>0. /\ op # None /\ ClaimAllowed(op, action, ready, now) /\ op' = Commit(n, now)
      /\ now \in Nat /\ id \in Nat /\ d \in Nat
  BY LifecycleAssumption, Zenon DEF Claim, Inv, TypeOK
<1>1. /\ op \in Operation /\ Sound(op)
      /\ Phase = PhaseOf(op) /\ Word = WordOf(op)
      /\ Tried = (op.executionCount > 0) /\ InDoubt = op.unresolvedEffect
  BY <1>0, Observed
<1>2. Sound(n)
  BY <1>0, <1>1, ClaimedSound, Zenon
<1>3. /\ n.status = (IF action = "execution" THEN "EXECUTING" ELSE "VERIFYING")
      /\ n.lastEvidence = op.lastEvidence
      /\ n.unresolvedEffect = (IF action = "execution" THEN op.unresolvedEffect ELSE TRUE)
      /\ n.executionCount = (IF action = "execution" THEN op.executionCount + 1
                                                    ELSE op.executionCount)
  BY <1>1, Zenon DEF Claimed, Count, Operation
<1> HIDE DEF n
<1>4. /\ Phase' = PhaseOf(n) /\ Word' = WordOf(n)
      /\ Tried' = (n.executionCount > 0) /\ InDoubt' = n.unresolvedEffect
  BY <1>0, <1>2, ObservedNext
<1>5. /\ PhaseOf(op) = "open" /\ PhaseOf(n) = "open"
      /\ WordOf(n) = WordOf(op)
  BY <1>0, <1>3, SMT DEF PhaseOf, WordOf, ClaimAllowed, IdleStatuses, ActiveStatuses
<1>6. CASE action = "execution"
  <2>1. op.executionCount + 1 > 0
    BY <1>1, SMT DEF Operation
  <2>2. Durable!Start
    BY <1>1, <1>3, <1>4, <1>5, <1>6, <2>1, Zenon DEF Durable!Start, Tried, InDoubt
  <2> QED
    BY <2>2 DEF Durable!Next
<1>7. CASE action = "verification"
  <2>1. op.status = "UNKNOWN"
    BY <1>0, <1>7, Zenon DEF ClaimAllowed
  <2>2. op.unresolvedEffect = TRUE
    BY <1>1, <2>1, Zenon DEF Sound, WellFormed, UncertaintyHolds, Operation
  <2> QED
    BY <1>1, <1>3, <1>4, <1>5, <1>7, <2>2, Zenon DEF Durable!vars, Tried, InDoubt
<1> QED
  BY <1>6, <1>7 DEF Actions

(* Whoever holds an attempt, an execution was claimed.                     *)
LEMMA ActiveTried ==
    ASSUME NEW o, Sound(o), o.status \in ActiveStatuses
    PROVE  o.executionCount > 0
BY SMT DEF Sound, WellFormed, OwnershipHolds, UncertaintyHolds, ActiveStatuses, Count,
   Operation

LEMMA ResultKeeps ==
    ASSUME Inv, op # None, NEW owner \in Ownerships, CommitResult(owner)
    PROVE  Durable!Next
<1>0. op.status \in ActiveStatuses /\ now \in Nat
  BY DEF CommitResult, Owns, Inv, TypeOK
<1>1. PICK result \in Results :
          /\ ResultAccepted(op, result)
          /\ \E date \in Dates, jitter \in Jitters :
                op' = Commit(Resolved(op, result, date, jitter, now), now)
  BY Zenon DEF CommitResult
<1>2. PICK date \in Dates, jitter \in Jitters :
          op' = Commit(Resolved(op, result, date, jitter, now), now)
  BY <1>1
<1> DEFINE base == [op EXCEPT !.lastEvidence = result.evidence]
           n == Resolved(op, result, date, jitter, now)
<1>3. result \in Result /\ date \in Option(Nat) /\ jitter \in Nat
  BY ResultsTyped, LifecycleAssumption, SMT DEF Dates, Times, Option
<1>4. /\ op \in Operation /\ Sound(op)
      /\ Phase = PhaseOf(op) /\ Word = WordOf(op)
      /\ Tried = (op.executionCount > 0) /\ InDoubt = op.unresolvedEffect
  BY Observed
<1>5. Sound(n)
  BY <1>0, <1>1, <1>3, <1>4, ResolvedSound
<1>6. Answers(op, result, base, n)
  BY ResolvedForms, Zenon
<1>7. /\ base \in Operation /\ base.lastEvidence = result.evidence
      /\ base.executionCount = op.executionCount
      /\ result.evidence # None
  <2>1. result.evidence \in Evidence /\ result.evidence # None
    BY <1>3, NoneAssumption, Zenon DEF Result, Evidence
  <2> QED
    BY <1>4, <2>1, Zenon DEF Operation, Option
<1>8. op.executionCount > 0 /\ PhaseOf(op) = "open"
  <2>1. op.executionCount > 0
    BY <1>0, <1>4, ActiveTried
  <2>2. PhaseOf(op) = "open"
    BY <1>0, SMT DEF PhaseOf, ActiveStatuses
  <2> QED
    BY <2>1, <2>2
<1> HIDE DEF base, n
<1>9. /\ Phase' = PhaseOf(n) /\ Word' = WordOf(n)
      /\ Tried' = (n.executionCount > 0) /\ InDoubt' = n.unresolvedEffect
  BY <1>2, <1>5, ObservedNext DEF n
<1>10. n.lastEvidence = result.evidence /\ n.executionCount = op.executionCount
  BY <1>6, <1>7, Zenon DEF Answers, Completed, Failed, Idle, Operation
<1>11. WordOf(n) = IF GlobalBackend(result.evidence) THEN "operation" ELSE "attempt"
  BY <1>7, <1>10, Zenon DEF WordOf
<1>12. Tried /\ Tried'
  BY <1>4, <1>8, <1>9, <1>10, Zenon
<1>13. CASE \E s : n = Idle(base, "UNKNOWN", s)
  <2>1. PhaseOf(n) = "open" /\ n.unresolvedEffect = TRUE
    BY <1>7, <1>13, Zenon DEF Idle, Operation, PhaseOf
  <2>2. Durable!Doubt
    BY <1>4, <1>8, <1>9, <1>11, <1>12, <2>1, Zenon DEF Durable!Doubt, Tried, InDoubt
  <2> QED
    BY <2>2 DEF Durable!Next
<1>14. CASE \/ n = Completed(base, result.evidence) /\ result.kind = "CONFIRMED_COMPLETED"
            \/ \E f \in Failures : n = Failed(base, f) /\ SettlesRejection(op, result)
            \/ \E f \in Failures : n = Failed(base, f) /\ SettlesNoEffect(op, result)
            \/ \E s : n = Idle(base, "ACCEPTED", s) /\ SettlesNoEffect(op, result)
  <2>1. /\ PhaseOf(n) \in {"open", "completed", "failed"} /\ n.unresolvedEffect = FALSE
        /\ PhaseOf(n) = "completed" => result.kind = "CONFIRMED_COMPLETED"
    BY <1>7, <1>14, Zenon DEF Completed, Failed, Idle, Operation, PhaseOf
  <2>2. /\ GlobalBackend(result.evidence) \/ ~op.unresolvedEffect
        /\ result.kind = "CONFIRMED_COMPLETED" => GlobalBackend(result.evidence)
    BY <1>0, <1>1, <1>14, SettlesGlobally, Zenon
  <2>3. CASE GlobalBackend(result.evidence)
    <3>1. Durable!Settle
      BY <1>4, <1>8, <1>9, <1>11, <1>12, <2>1, <2>3, Zenon
      DEF Durable!Settle, Tried, InDoubt
    <3> QED
      BY <3>1 DEF Durable!Next
  <2>4. CASE ~GlobalBackend(result.evidence)
    <3>1. ~InDoubt /\ ~InDoubt'
      BY <1>4, <1>9, <2>1, <2>2, <2>4, Zenon
    <3>2. PhaseOf(n) \in {"open", "failed"}
      BY <2>1, <2>2, <2>4, Zenon
    <3>3. Durable!Refuse
      BY <1>4, <1>8, <1>9, <1>11, <1>12, <2>4, <3>1, <3>2, Zenon
      DEF Durable!Refuse, Tried, InDoubt
    <3> QED
      BY <3>3 DEF Durable!Next
  <2> QED
    BY <2>3, <2>4
<1> QED
  BY <1>6, <1>13, <1>14, Zenon DEF Answers

LEMMA KeepsStep == Inv /\ [Next]_vars => [Durable!Next]_Durable!vars
<1> SUFFICES ASSUME Inv, [Next]_vars PROVE Durable!Next \/ UNCHANGED Durable!vars
  OBVIOUS
<1> USE LifecycleAssumption
<1>0. now \in Nat
  BY DEF Inv, TypeOK
<1>1. ASSUME NEW policy \in Policies, Accept(policy)
      PROVE  Durable!Next
  <2> DEFINE n == ProposedAcceptance(policy, now)
  <2>1. op = None /\ op' = n /\ Sound(n) /\ n # None
    BY <1>0, <1>1, AcceptanceSound, RecordAssumption, Zenon DEF Accept, Sound
  <2>2. /\ n.status = "ACCEPTED" /\ n.executionCount = 0 /\ n.unresolvedEffect = FALSE
        /\ n.lastEvidence = None
    BY Zenon DEF ProposedAcceptance
  <2> HIDE DEF n
  <2>3. /\ Phase = "absent" /\ Phase' = "open" /\ Word = "nobody" /\ Word' = "nobody"
        /\ ~InDoubt /\ ~InDoubt'
    BY <2>1, <2>2, Zenon DEF Phase, Word, InDoubt
  <2>4. ~Tried /\ ~Tried'
    BY <2>1, <2>2, SMT DEF Tried
  <2>5. Durable!Accept
    BY <2>3, <2>4, Zenon DEF Durable!Accept, Tried, InDoubt
  <2> QED
    BY <2>5 DEF Durable!Next
<1>2. ASSUME NEW n, op # None, Sound(n), op' = Commit(n, now),
             /\ n.status = op.status /\ n.lastEvidence = op.lastEvidence
             /\ n.executionCount = op.executionCount
             /\ n.unresolvedEffect = op.unresolvedEffect
      PROVE  UNCHANGED Durable!vars
  BY <1>2, Observed, ObservedNext, Zenon
  DEF Durable!vars, Tried, InDoubt, PhaseOf, WordOf
<1>3. ASSUME NEW action \in Actions, NEW id \in AttemptIds, NEW owner \in Owners,
             NEW d \in LeaseDurations, NEW ready \in Readinesses,
             Claim(action, id, owner, d, ready)
      PROVE  Durable!Next \/ UNCHANGED Durable!vars
  BY <1>3, ClaimKeeps
<1>4. ASSUME op # None, NEW owner \in Ownerships, CommitResult(owner)
      PROVE  Durable!Next
  BY <1>4, ResultKeeps
<1>5. ASSUME NEW jitter \in Jitters, RecoverExpired(jitter)
      PROVE  Durable!Next
  <2> DEFINE n == Recovered(op, now, jitter)
  <2>1. op # None /\ RecoverAllowed(op, now) /\ op' = Commit(n, now) /\ jitter \in Nat
    BY <1>5, Zenon DEF RecoverExpired
  <2>2. /\ op \in Operation /\ Sound(op)
        /\ Phase = PhaseOf(op) /\ Word = WordOf(op)
        /\ Tried = (op.executionCount > 0)
    BY <2>1, Observed
  <2>3. Sound(n) /\ op.executionCount > 0 /\ PhaseOf(op) = "open"
    BY <1>0, <2>1, <2>2, RecoveredSound, ActiveTried, Zenon
    DEF RecoverAllowed, PhaseOf, ActiveStatuses
  <2>4. /\ n.status = "UNKNOWN" /\ n.lastEvidence = op.lastEvidence
        /\ n.executionCount = op.executionCount /\ n.unresolvedEffect = TRUE
    BY <2>2, Zenon DEF Recovered, Unknown, Idle, Operation
  <2> HIDE DEF n
  <2>5. /\ Phase' = "open" /\ Word' = Word /\ Tried' /\ InDoubt' = TRUE
    BY <2>1, <2>2, <2>3, <2>4, ObservedNext, Zenon DEF PhaseOf, WordOf
  <2>6. Phase = "open" /\ Tried
    BY <2>2, <2>3, Zenon
  <2>7. Durable!Doubt
    BY <2>5, <2>6, Zenon DEF Durable!Doubt, Tried, InDoubt
  <2> QED
    BY <2>7 DEF Durable!Next
<1>6. ASSUME op # None, NEW owner \in Ownerships, NEW d \in LeaseDurations, Renew(owner, d)
      PROVE  UNCHANGED Durable!vars
  <2>1. op \in Operation /\ Sound(Renewed(op, d, now)) /\ op' = Commit(Renewed(op, d, now), now)
    BY <1>0, <1>6, RenewedSound, Zenon DEF Renew, RenewAllowed, Owns, Inv, Sound
  <2> QED
    BY <1>2, <1>6, <2>1, Zenon DEF Renewed, Operation
<1>7. ASSUME NEW reason \in Failures, FailLocal(reason)
      PROVE  Durable!Next
  <2> DEFINE n == Failed(op, reason)
  <2>1. op # None /\ op.status = "ACCEPTED" /\ op' = Commit(n, now)
    BY <1>7, Zenon DEF FailLocal, FailLocalAllowed
  <2>2. /\ op \in Operation /\ Sound(op)
        /\ Phase = PhaseOf(op) /\ Word = WordOf(op)
        /\ Tried = (op.executionCount > 0) /\ InDoubt = op.unresolvedEffect
    BY <2>1, Observed
  <2>3. Sound(n) /\ ~op.unresolvedEffect
    BY <2>1, <2>2, FailedSound, Zenon DEF Sound, WellFormed, UncertaintyHolds
  <2>4. /\ n.status = "FAILED" /\ n.lastEvidence = op.lastEvidence
        /\ n.executionCount = op.executionCount /\ n.unresolvedEffect = FALSE
    BY <2>2, Zenon DEF Failed, Operation
  <2> HIDE DEF n
  <2>5. /\ Phase' = "failed" /\ Word' = Word /\ Tried' = Tried /\ ~InDoubt'
    BY <2>1, <2>2, <2>3, <2>4, ObservedNext, Zenon DEF PhaseOf, WordOf
  <2>6. Phase = "open" /\ ~InDoubt
    BY <2>1, <2>2, <2>3, Zenon DEF PhaseOf
  <2>7. Durable!Refuse
    BY <2>5, <2>6, Zenon DEF Durable!Refuse, Tried, InDoubt
  <2> QED
    BY <2>7 DEF Durable!Next
<1>8. ASSUME NEW schedule \in Option([kind : Actions, at : Times]),
             NEW hold \in Option(HoldReasons), NEW jitter \in Jitters,
             UpdateScheduling(schedule, hold, jitter)
      PROVE  UNCHANGED Durable!vars
  <2>1. schedule \in Option(Schedule)
    BY SMT DEF Option, Schedule, Times
  <2>2. /\ op # None /\ op \in Operation /\ Sound(Scheduled(op, schedule, hold))
        /\ op' = Commit(Scheduled(op, schedule, hold), now)
    BY <1>8, <2>1, ScheduledSound, Zenon DEF UpdateScheduling, Inv, Sound
  <2> QED
    BY <1>2, <2>2, Zenon DEF Scheduled, Operation
<1>9. ASSUME op' = op
      PROVE  UNCHANGED Durable!vars
  BY <1>9, Zenon DEF Durable!vars, Phase, Word
<1>10. ASSUME NEW t \in Times, SetClock(t)
       PROVE  UNCHANGED Durable!vars
  BY <1>9, <1>10 DEF SetClock
<1> QED
  BY <1>1, <1>3, <1>4, <1>5, <1>6, <1>7, <1>8, <1>9, <1>10, Zenon DEF Next, vars

(* Whatever commands are committed in whatever order, the application sees *)
(* DurableOperation: its operation stays open until it is settled once, a  *)
(* doubt about its effect ends only by the backend's word on all of it,    *)
(* and it never fails while its effect is in doubt.                        *)
THEOREM PromiseIsKept == Spec => KeepsPromise
<1>1. Init => Durable!Init
  BY SMT DEF Init, Durable!Init, Phase, Word
<1> QED
  BY <1>1, SpecInv, KeepsStep, PTL DEF Spec, KeepsPromise, Durable!Spec
-----------------------------------------------------------------------------
(* A Retry-After is remembered between a result and the next claim only.   *)
Remembered ==
    /\ op = None \/ op.status \in ActiveStatuses => retryAfter = None
    /\ RetryAfterKept

(* What a result with a Retry-After leaves to do, it leaves for later.     *)
LEMMA ResolvedIsLate ==
    ASSUME NEW o, Sound(o), o.status \in ActiveStatuses, NEW result \in Result,
           NEW date \in Option(Nat), date # None, NEW jitter \in Nat, NEW t \in Nat,
           LET n == Resolved(o, result, date, jitter, t)
           IN  \/ n.status = "ACCEPTED"
               \/ n.status = "UNKNOWN" /\ HasBudget(n, "verification")
    PROVE  LET n == Resolved(o, result, date, jitter, t)
           IN  n.schedule # None /\ n.schedule.at >= date
<1> DEFINE base == [o EXCEPT !.lastEvidence = result.evidence]
           n == Resolved(o, result, date, jitter, t)
           execution == NextRetryAt(o.policySnapshot.execution, o.executionCount, t, jitter,
                                    date)
           attempts == IF base.verificationCount > 1 THEN base.verificationCount ELSE 1
           verification == NextRetryAt(base.policySnapshot.verification, attempts, t, jitter,
                                       date)
<1>1. /\ o \in Operation /\ base \in Operation
      /\ base.verificationCount \in Nat /\ o.executionCount \in Nat
  BY Zenon DEF Sound, Operation, Option, Result
<1>2. /\ o.policySnapshot.execution \in [maxAttempts : Nat, baseDelay : Nat, maxDelay : Nat]
      /\ base.policySnapshot.verification
           \in [maxAttempts : Nat, baseDelay : Nat, maxDelay : Nat]
  BY <1>1, PolicyTypes, SMT DEF Operation, Actions
<1>3. attempts \in Nat
  BY <1>1, SMT
<1>4. execution \in Nat /\ execution >= date
  BY <1>1, <1>2, NextRetryAtIsLate, Zenon
<1>5. verification \in Nat /\ verification >= date
  BY <1>2, <1>3, NextRetryAtIsLate, Zenon
<1> HIDE DEF attempts, execution, verification
<1>6. ASSUME NEW k \in Actions, NEW at \in Nat
      PROVE  [kind |-> k, at |-> at] # None
  <2>1. [kind |-> k, at |-> at] \in [kind : Actions, at : Nat]
    BY SMT
  <2> QED
    BY <2>1, NoneAssumption, Zenon
<1>7. CASE SettlesNoEffect(o, result) /\ result.retryable /\ HasBudget(o, "execution")
  <2>1. n = Idle(base, "ACCEPTED", [kind |-> "execution", at |-> execution])
    BY <1>7, SMT DEF Resolved, SettlesRejection, SettlesNoEffect, execution
  <2>2. n.schedule = [kind |-> "execution", at |-> execution]
    BY <1>1, <2>1, Zenon DEF Idle, Operation
  <2>3. [kind |-> "execution", at |-> execution] # None
    BY <1>4, <1>6, Zenon DEF Actions
  <2>4. n.schedule.at = execution /\ n.schedule # None
    BY <2>2, <2>3, SMT
  <2> HIDE DEF n
  <2> QED
    BY <1>4, <2>4, Zenon DEF n
<1>8. CASE /\ result.kind # "CONFIRMED_COMPLETED"
           /\ ~SettlesRejection(o, result) /\ ~SettlesNoEffect(o, result)
  <2> DEFINE s == IF HasBudget(base, "verification")
                  THEN [kind |-> "verification", at |-> verification] ELSE None
  <2>1. n = Idle(base, "UNKNOWN", s)
    BY <1>8, Zenon DEF Resolved, Unknown, attempts, verification
  <2>2. /\ n.schedule = s /\ n.status = "UNKNOWN"
        /\ n.verificationCount = base.verificationCount
        /\ n.policySnapshot = base.policySnapshot
    BY <1>1, <2>1, Zenon DEF Idle, Operation
  <2> HIDE DEF n, s
  <2>3. HasBudget(base, "verification")
    BY <2>2, SMT DEF HasBudget, Count, n
  <2>4. n.schedule = [kind |-> "verification", at |-> verification]
    BY <2>2, <2>3, Zenon DEF s
  <2>5. [kind |-> "verification", at |-> verification] # None
    BY <1>5, <1>6, Zenon DEF Actions
  <2>6. n.schedule.at = verification /\ n.schedule # None
    BY <2>4, <2>5, SMT
  <2> QED
    BY <1>5, <2>6, Zenon DEF n
<1>9. CASE ~(SettlesNoEffect(o, result) /\ result.retryable /\ HasBudget(o, "execution"))
           /\ ~(/\ result.kind # "CONFIRMED_COMPLETED"
                /\ ~SettlesRejection(o, result) /\ ~SettlesNoEffect(o, result))
  <2>1. \/ n = Completed(base, result.evidence)
        \/ \E f : n = Failed(base, f)
    <3>1. CASE result.kind = "CONFIRMED_COMPLETED"
      BY <3>1, SMT DEF Resolved, SettlesRejection, SettlesNoEffect
    <3>2. CASE SettlesRejection(o, result)
      BY <3>2, SMT DEF Resolved, SettlesRejection, SettlesNoEffect
    <3>3. CASE SettlesNoEffect(o, result) /\ ~result.retryable
      BY <3>3, SMT DEF Resolved, SettlesRejection, SettlesNoEffect
    <3>4. CASE SettlesNoEffect(o, result) /\ result.retryable /\ ~HasBudget(o, "execution")
      BY <3>4, SMT DEF Resolved, SettlesRejection, SettlesNoEffect
    <3> QED
      BY <1>9, <3>1, <3>2, <3>3, <3>4
  <2>2. n.status \in TerminalStatuses
    <3> HIDE DEF n
    <3> QED
      BY <1>1, <2>1, Zenon DEF Completed, Failed, Operation, TerminalStatuses
  <2> QED
    BY <2>2, Zenon DEF TerminalStatuses
<1> QED
  BY <1>7, <1>8, <1>9

LEMMA RememberedStep == Inv /\ Inv' /\ Remembered /\ [Next]_vars => Remembered'
<1> SUFFICES ASSUME Inv, Inv', Remembered, [Next]_vars PROVE Remembered'
  OBVIOUS
<1> USE LifecycleAssumption
<1>0. now \in Nat /\ retryAfter \in Option(Nat)
  BY DEF Inv, TypeOK
<1>1. ASSUME retryAfter' = None
      PROVE  Remembered'
  BY <1>1 DEF Remembered, RetryAfterKept
<1>2. ASSUME NEW policy \in Policies, Accept(policy)
      PROVE  Remembered'
  BY <1>1, <1>2 DEF Accept, Remembered
<1>3. ASSUME NEW action \in Actions, NEW id \in AttemptIds, NEW owner \in Owners,
             NEW d \in LeaseDurations, NEW ready \in Readinesses,
             Claim(action, id, owner, d, ready)
      PROVE  Remembered'
  BY <1>1, <1>3 DEF Claim
<1>4. ASSUME op # None, NEW owner \in Ownerships, CommitResult(owner)
      PROVE  Remembered'
  <2>1. op.status \in ActiveStatuses /\ Sound(op)
    BY <1>4 DEF CommitResult, Owns, Inv
  <2>2. PICK result \in Results :
            /\ ResultAccepted(op, result)
            /\ \E date \in Dates, jitter \in Jitters :
                  /\ op' = Commit(Resolved(op, result, date, jitter, now), now)
                  /\ retryAfter' = date
    BY <1>4, Zenon DEF CommitResult
  <2>3. PICK date \in Dates, jitter \in Jitters :
            /\ op' = Commit(Resolved(op, result, date, jitter, now), now)
            /\ retryAfter' = date
    BY <2>2
  <2>4. result \in Result /\ date \in Option(Nat) /\ jitter \in Nat
    BY ResultsTyped, SMT DEF Dates, Times, Option
  <2> DEFINE n == Resolved(op, result, date, jitter, now)
  <2>5. Sound(n) /\ n \in Operation
    BY <1>0, <2>1, <2>2, <2>4, ResolvedSound DEF Sound
  <2>6. n.status \notin ActiveStatuses
    <3>1. Answers(op, result, [op EXCEPT !.lastEvidence = result.evidence], n)
      BY ResolvedForms, Zenon
    <3>2. [op EXCEPT !.lastEvidence = result.evidence] \in Operation
      BY <2>1, <2>4, Zenon DEF Operation, Option, Result, Sound
    <3> HIDE DEF n
    <3> QED
      BY <3>1, <3>2, Zenon DEF Answers, Completed, Failed, Idle, Operation, ActiveStatuses
  <2>7. date # None /\ (\/ n.status = "ACCEPTED"
                        \/ n.status = "UNKNOWN" /\ HasBudget(n, "verification"))
          => n.schedule # None /\ n.schedule.at >= date
    BY <1>0, <2>1, <2>4, ResolvedIsLate
  <2> HIDE DEF n
  <2>8. /\ op' # None
        /\ op'.status = n.status /\ op'.schedule = n.schedule
        /\ op'.verificationCount = n.verificationCount
        /\ op'.policySnapshot = n.policySnapshot
    BY <1>0, <2>3, <2>5, ObservedNext, Zenon DEF Commit, Operation, n
  <2>9. HasBudget(op', "verification") = HasBudget(n, "verification")
    BY <2>8, SMT DEF HasBudget, Count
  <2> QED
    BY <2>3, <2>6, <2>7, <2>8, <2>9, Zenon DEF Remembered, RetryAfterKept, IdleStatuses, n
<1>5. ASSUME NEW jitter \in Jitters, RecoverExpired(jitter)
      PROVE  Remembered'
  BY <1>1, <1>5 DEF RecoverExpired, RecoverAllowed, Remembered
<1>6. ASSUME op # None, NEW owner \in Ownerships, NEW d \in LeaseDurations, Renew(owner, d)
      PROVE  Remembered'
  BY <1>1, <1>6 DEF Renew, RenewAllowed, Owns, Remembered
<1>7. ASSUME NEW reason \in Failures, FailLocal(reason)
      PROVE  Remembered'
  <2>1. op # None /\ Sound(op) /\ op' = Commit(Failed(op, reason), now) /\ retryAfter' = retryAfter
    BY <1>7, Zenon DEF FailLocal, Inv
  <2>2. op' # None /\ op'.status = "FAILED"
    BY <2>1, FailedSound, ObservedNext, Zenon DEF Failed, Commit, Sound, Operation
  <2> QED
    BY <2>1, <2>2, Zenon DEF Remembered, RetryAfterKept, IdleStatuses, ActiveStatuses
<1>8. ASSUME NEW schedule \in Option([kind : Actions, at : Times]),
             NEW hold \in Option(HoldReasons), NEW jitter \in Jitters,
             UpdateScheduling(schedule, hold, jitter)
      PROVE  Remembered'
  <2>1. schedule \in Option(Schedule)
    BY SMT DEF Option, Schedule, Times
  <2>2. /\ op # None /\ op \in Operation /\ retryAfter' = retryAfter
        /\ ScheduleAllowed(op, schedule, hold, jitter)
        /\ op' = Commit(Scheduled(op, schedule, hold), now)
        /\ Sound(Scheduled(op, schedule, hold))
    BY <1>8, <2>1, ScheduledSound, Zenon DEF UpdateScheduling, Inv, Sound
  <2>3. /\ op' # None /\ op'.status = op.status
        /\ op'.schedule = (IF schedule = None THEN op.schedule ELSE schedule)
        /\ op'.verificationCount = op.verificationCount
        /\ op'.policySnapshot = op.policySnapshot
    BY <2>2, ObservedNext, Zenon DEF Scheduled, Commit, Operation
  <2>4. HasBudget(op', "verification") = HasBudget(op, "verification")
    BY <2>3, SMT DEF HasBudget, Count
  <2>5. op.schedule # None /\ schedule # None =>
          op.schedule.at \in Nat /\ schedule.at \in Nat /\ schedule.at >= op.schedule.at
    BY <2>1, <2>2, SMT DEF ScheduleAllowed, Operation, Option, Schedule
  <2>6. retryAfter # None => retryAfter \in Nat
    BY <1>0, Zenon DEF Option
  <2>7. op.schedule # None => op'.schedule # None
    BY <2>3, Zenon
  <2>8. op.schedule # None /\ retryAfter # None /\ op.schedule.at >= retryAfter
          => op'.schedule.at >= retryAfter
    BY <2>3, <2>5, <2>6, SMT
  <2> QED
    BY <2>2, <2>3, <2>4, <2>7, <2>8, Zenon DEF Remembered, RetryAfterKept
<1>9. ASSUME op' = op, retryAfter' = retryAfter
      PROVE  Remembered'
  BY <1>9 DEF Remembered, RetryAfterKept
<1>10. ASSUME NEW t \in Times, SetClock(t)
       PROVE  Remembered'
  BY <1>9, <1>10 DEF SetClock
<1> QED
  BY <1>2, <1>3, <1>4, <1>5, <1>6, <1>7, <1>8, <1>9, <1>10, Zenon DEF Next, vars

(* A Retry-After survives recoveries, holds and reschedulings: until the   *)
(* next claim nothing is scheduled before it, as long as anything is       *)
(* scheduled at all.                                                       *)
THEOREM RetryAfterIsKept == Spec => []RetryAfterKept
<1>1. Init => Remembered
  BY DEF Init, Remembered, RetryAfterKept
<1>2. Remembered => RetryAfterKept
  BY DEF Remembered
<1> QED
  BY <1>1, <1>2, SpecInv, RememberedStep, PTL DEF Spec
-----------------------------------------------------------------------------
(* What nextRetryAt may answer at t for an attempt of o.                   *)
DueInRange(o, schedule, t, date) ==
    /\ schedule.at >= t
    /\ \/ schedule.at <= t + o.policySnapshot[schedule.kind].maxDelay
       \/ schedule.at = date

LEMMA NextRetryAtInRange ==
    ASSUME NEW o \in Operation, NEW action \in Actions, NEW attempts \in Nat,
           NEW t \in Nat, NEW jitter \in Nat, NEW date \in Option(Nat)
    PROVE  LET at == NextRetryAt(o.policySnapshot[action], attempts, t, jitter, date)
           IN  /\ [kind |-> action, at |-> at] # None
               /\ DueInRange(o, [kind |-> action, at |-> at], t, date)
<1> DEFINE p == o.policySnapshot[action]
           at == NextRetryAt(p, attempts, t, jitter, date)
<1>1. o.policySnapshot \in RetryPolicy
  BY Zenon DEF Operation
<1>2. p \in [maxAttempts : Nat, baseDelay : Nat, maxDelay : Nat] /\ p.maxDelay \in Nat
  BY <1>1, PolicyTypes
<1>3. at \in Nat /\ at >= t
  BY <1>2, NextRetryAtIsLate, Zenon
<1>4. Cap(p, attempts) \in 0..p.maxDelay
  <2> HIDE DEF p
  <2> QED
    BY <1>2, SMT DEF Cap
<1>5. at <= t + p.maxDelay \/ at = date
  <2> HIDE DEF p
  <2> QED
    BY <1>2, <1>4, SMT DEF NextRetryAt, Option, at
<1>6. [kind |-> action, at |-> at] # None
  <2> HIDE DEF at
  <2>1. [kind |-> action, at |-> at] \in [kind : Actions, at : Nat]
    BY <1>3, Zenon
  <2> QED
    BY <2>1, NoneAssumption, Zenon
<1> HIDE DEF at
<1>7. /\ [kind |-> action, at |-> at].at = at
      /\ [kind |-> action, at |-> at].kind = action
  BY Zenon
<1> QED
  BY <1>3, <1>5, <1>6, <1>7, Zenon DEF DueInRange, at

LEMMA UnknownInRange ==
    ASSUME NEW o \in Operation, NEW t \in Nat, NEW jitter \in Nat,
           NEW date \in Option(Nat)
    PROVE  LET n == Unknown(o, t, jitter, date)
           IN  n.schedule # None => DueInRange(o, n.schedule, t, date)
<1> DEFINE attempts == IF o.verificationCount > 1 THEN o.verificationCount ELSE 1
           at == NextRetryAt(o.policySnapshot["verification"], attempts, t, jitter, date)
           read == [kind |-> "verification", at |-> at]
           s == IF HasBudget(o, "verification") THEN read ELSE None
<1>1. attempts \in Nat /\ "verification" \in Actions
  BY SMT DEF Operation, Actions
<1>2. DueInRange(o, read, t, date)
  BY <1>1, NextRetryAtInRange, Zenon
<1>3. Unknown(o, t, jitter, date) = Idle(o, "UNKNOWN", s)
  BY Zenon DEF Unknown
<1> HIDE DEF s, read
<1>4. Unknown(o, t, jitter, date).schedule = s
  BY <1>3, Zenon DEF Idle, Operation
<1> QED
  BY <1>2, <1>4, Zenon DEF s

LEMMA ResolvedInRange ==
    ASSUME NEW o \in Operation, NEW result \in Result, NEW date \in Option(Nat),
           NEW jitter \in Nat, NEW t \in Nat
    PROVE  LET n == Resolved(o, result, date, jitter, t)
           IN  n.schedule # None => DueInRange(o, n.schedule, t, date)
<1> DEFINE base == [o EXCEPT !.lastEvidence = result.evidence]
           n == Resolved(o, result, date, jitter, t)
<1>1. base \in Operation /\ base.policySnapshot = o.policySnapshot
  BY Zenon DEF Operation, Option, Result
<1>2. ASSUME n = Completed(base, result.evidence) \/ \E f : n = Failed(base, f)
      PROVE  n.schedule = None
  <2> HIDE DEF n, base
  <2> QED
    BY <1>1, <1>2, Zenon DEF Completed, Failed, Operation
<1>3. CASE result.kind = "CONFIRMED_COMPLETED"
  BY <1>2, <1>3, SMT DEF Resolved, SettlesRejection, SettlesNoEffect
<1>4. CASE SettlesRejection(o, result)
  BY <1>2, <1>4, SMT DEF Resolved, SettlesRejection, SettlesNoEffect
<1>5. CASE SettlesNoEffect(o, result) /\ ~(result.retryable /\ HasBudget(o, "execution"))
  <2>1. n = Failed(base, "NOT_RETRYABLE") \/ n = Failed(base, "BUDGET_EXHAUSTED")
    BY <1>5, SMT DEF Resolved, SettlesRejection, SettlesNoEffect
  <2> HIDE DEF n, base
  <2> QED
    BY <1>2, <2>1, Zenon DEF n
<1>6. CASE SettlesNoEffect(o, result) /\ result.retryable /\ HasBudget(o, "execution")
  <2> DEFINE at == NextRetryAt(o.policySnapshot["execution"], o.executionCount, t, jitter,
                               date)
             again == [kind |-> "execution", at |-> at]
  <2>1. n = Idle(base, "ACCEPTED", again)
    BY <1>6, SMT DEF Resolved, SettlesRejection, SettlesNoEffect
  <2>2. o.executionCount \in Nat /\ "execution" \in Actions
    BY Zenon DEF Operation, Actions
  <2>3. DueInRange(o, again, t, date)
    BY <2>2, NextRetryAtInRange, Zenon
  <2> HIDE DEF n, base, again
  <2>4. n.schedule = again
    BY <1>1, <2>1, Zenon DEF Idle, Operation
  <2> QED
    BY <2>3, <2>4, Zenon DEF n
<1>7. CASE /\ result.kind # "CONFIRMED_COMPLETED"
           /\ ~SettlesRejection(o, result) /\ ~SettlesNoEffect(o, result)
  <2>1. n = Unknown(base, t, jitter, date)
    BY <1>7, Zenon DEF Resolved
  <2> HIDE DEF n, base
  <2>2. Unknown(base, t, jitter, date).schedule # None
          => DueInRange(base, Unknown(base, t, jitter, date).schedule, t, date)
    BY <1>1, UnknownInRange
  <2>3. n.schedule # None => DueInRange(base, n.schedule, t, date)
    BY <2>1, <2>2, Zenon
  <2>4. n.schedule # None => DueInRange(o, n.schedule, t, date)
    BY <1>1, <2>3, Zenon DEF DueInRange
  <2> QED
    BY <2>4, Zenon DEF n
<1> HIDE DEF n
<1> QED
  BY <1>3, <1>4, <1>5, <1>6, <1>7, Zenon DEF n

LEMMA CommitKeeps ==
    ASSUME NEW o \in Operation, NEW t
    PROVE  Commit(o, t).schedule = o.schedule /\ Commit(o, t).status = o.status
BY Zenon DEF Commit, Operation

LEMMA RangedSteps == Inv /\ [Next]_vars => [RescheduledInRange]_vars
<1> SUFFICES ASSUME Inv, Next, op # None, op.status \in ActiveStatuses, op' # op,
                    op'.schedule # None
             PROVE  DueInRange(op, op'.schedule, now, retryAfter')
  BY DEF RescheduledInRange, DueInRange, vars
<1> USE LifecycleAssumption
<1>0. /\ op \in Operation /\ Sound(op) /\ now \in Nat
      /\ op.status \notin IdleStatuses /\ op.status # "ACCEPTED"
  BY DEF Inv, TypeOK, Sound, IdleStatuses, ActiveStatuses
<1>1. ASSUME NEW policy \in Policies, Accept(policy)
      PROVE  FALSE
  BY <1>1 DEF Accept
<1>2. ASSUME NEW action \in Actions, NEW id \in AttemptIds, NEW owner \in Owners,
             NEW d \in LeaseDurations, NEW ready \in Readinesses,
             Claim(action, id, owner, d, ready)
      PROVE  FALSE
  BY <1>0, <1>2, Zenon DEF Claim, ClaimAllowed
<1>3. ASSUME NEW owner \in Ownerships, CommitResult(owner)
      PROVE  DueInRange(op, op'.schedule, now, retryAfter')
  <2>1. PICK result \in Results :
            /\ ResultAccepted(op, result)
            /\ \E date \in Dates, jitter \in Jitters :
                  /\ op' = Commit(Resolved(op, result, date, jitter, now), now)
                  /\ retryAfter' = date
    BY <1>3, Zenon DEF CommitResult
  <2>2. PICK date \in Dates, jitter \in Jitters :
            /\ op' = Commit(Resolved(op, result, date, jitter, now), now)
            /\ retryAfter' = date
    BY <2>1
  <2>3. result \in Result /\ date \in Option(Nat) /\ jitter \in Nat
    BY ResultsTyped, SMT DEF Dates, Times, Option
  <2> DEFINE n == Resolved(op, result, date, jitter, now)
  <2>4. n \in Operation
    BY <1>0, <2>1, <2>3, ResolvedSound DEF Sound
  <2>5. n.schedule # None => DueInRange(op, n.schedule, now, date)
    BY <1>0, <2>3, ResolvedInRange, Zenon
  <2> HIDE DEF n
  <2>6. op'.schedule = n.schedule
    BY <2>2, <2>4, CommitKeeps, Zenon DEF n
  <2> QED
    BY <2>2, <2>5, <2>6, Zenon DEF n
<1>4. ASSUME NEW jitter \in Jitters, RecoverExpired(jitter)
      PROVE  DueInRange(op, op'.schedule, now, retryAfter')
  <2> DEFINE u == Unknown(op, now, jitter, None)
             n == Recovered(op, now, jitter)
  <2>1. op' = Commit(n, now) /\ jitter \in Nat /\ None \in Option(Nat)
    BY <1>4, Zenon DEF RecoverExpired, Option
  <2>2. u.schedule # None => DueInRange(op, u.schedule, now, None)
    BY <1>0, <2>1, UnknownInRange, Zenon
  <2>3. n \in Operation /\ u \in Operation
    <3>1. Sound(u)
      BY <1>0, <2>1, UnknownSound, Zenon
    <3>2. Sound(n)
      BY <1>0, <2>1, <1>4, RecoveredSound, Zenon DEF RecoverExpired
    <3> QED
      BY <3>1, <3>2, Zenon DEF Sound
  <2>4. n.schedule = u.schedule
    <3> HIDE DEF u
    <3> QED
      BY <2>3, Zenon DEF Recovered, Operation, u
  <2> HIDE DEF n, u
  <2>5. DueInRange(op, op'.schedule, now, None)
    BY <2>1, <2>2, <2>3, <2>4, CommitKeeps, Zenon
  <2>6. op'.schedule.at # None
    <3>1. op' \in Operation /\ op'.schedule \in Option(Schedule)
      <4>1. Sound(op')
        BY NextInv DEF Inv, RowStays
      <4> QED
        BY <4>1, Zenon DEF Sound, Operation
    <3> QED
      BY <3>1, NoneAssumption, SMT DEF Option, Schedule
  <2> QED
    BY <2>5, <2>6, Zenon DEF DueInRange
<1>5. ASSUME NEW owner \in Ownerships, NEW d \in LeaseDurations, Renew(owner, d)
      PROVE  FALSE
  <2>1. op.schedule = None
    BY <1>0, Zenon DEF Sound, WellFormed, ScheduleHolds
  <2>2. op'.schedule = op.schedule
    BY <1>0, <1>5, Zenon DEF Renew, Renewed, Commit, Operation
  <2> QED
    BY <2>1, <2>2
<1>6. ASSUME NEW reason \in Failures, FailLocal(reason)
      PROVE  FALSE
  BY <1>0, <1>6, Zenon DEF FailLocal, FailLocalAllowed
<1>7. ASSUME NEW schedule \in Option([kind : Actions, at : Times]),
             NEW hold \in Option(HoldReasons), NEW jitter \in Jitters,
             UpdateScheduling(schedule, hold, jitter)
      PROVE  FALSE
  BY <1>0, <1>7, Zenon DEF UpdateScheduling, ScheduleAllowed
<1>8. ASSUME NEW t \in Times, SetClock(t)
      PROVE  FALSE
  BY <1>8 DEF SetClock
<1> QED
  BY <1>1, <1>2, <1>3, <1>4, <1>5, <1>6, <1>7, <1>8, Zenon DEF Next

(* No retry is ever due in the past, and none later than the policy's      *)
(* longest delay unless the backend itself asked for a later date: a       *)
(* failing operation neither spins nor sleeps for ever, whatever clock the *)
(* attempt was reported under.                                             *)
THEOREM RetriesStayInRange == Spec => RetriesAreInRange
BY SpecInv, RangedSteps, PTL DEF Spec, RetriesAreInRange
=============================================================================

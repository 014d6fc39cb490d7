------------------------ MODULE OperationEngineProofs ------------------------
(***************************************************************************)
(* Proofs about OperationEngine, for any number of activations and passes, *)
(* any policies, lease durations, jitter and time.                         *)
(*                                                                         *)
(* First, whatever the engines, the application and the clock do, the row  *)
(* moves by steps of OperationLifecycle only, so what is proved of the     *)
(* record there holds here.  On that rest the invariants: what passes hold *)
(* across their awaits (Base, SnapshotsHold, DeadRest), whom the row takes *)
(* for its owner and who may take its lease to be current (FencesHold,     *)
(* LeasesHold), and where a business effect can still come from            *)
(* (EffectsHold, AnswersHold).  Last, the refinement of LeaseRenewal: each *)
(* step of an engine is one of its steps or none, seen through the row and *)
(* the passes at work on it (WorkersHold).                                 *)
(***************************************************************************)
EXTENDS OperationEngine, TLAPS

Lifecycle == INSTANCE OperationLifecycleProofs WITH
    retryAfter <- None, LeaseDurations <- {LeaseDuration},
    AttemptIds <- Nat, Readinesses <- Readiness

(* The modules speak of the same records,                                  *)
LEMMA SameRecords ==
    /\ Operation = Lifecycle!Operation
    /\ Result = Lifecycle!Result
    /\ Readiness = Lifecycle!Readiness
    /\ Actions = Lifecycle!Actions
    /\ Failures = Lifecycle!Failures
    /\ Lifecycle!Times = Times
    /\ \A S : Option(S) = Lifecycle!Option(S)
  BY DEF Operation, Lifecycle!Operation, RetryPolicy, Lifecycle!RetryPolicy,
         AttemptPolicy, Lifecycle!AttemptPolicy, ReplayGuarantee, Lifecycle!ReplayGuarantee,
         Statuses, Lifecycle!Statuses, IdleStatuses, Lifecycle!IdleStatuses,
         ActiveStatuses, Lifecycle!ActiveStatuses, TerminalStatuses, Lifecycle!TerminalStatuses,
         Lease, Lifecycle!Lease, Attempt, Lifecycle!Attempt, Schedule, Lifecycle!Schedule,
         Evidence, Lifecycle!Evidence, Failures, Lifecycle!Failures, Actions, Lifecycle!Actions,
         Option, Lifecycle!Option, Result, Lifecycle!Result,
         ExecutionResultKinds, Lifecycle!ExecutionResultKinds,
         VerificationResultKinds, Lifecycle!VerificationResultKinds,
         Readiness, Lifecycle!Readiness, Times, Lifecycle!Times

LEMMA Assumptions ==
    /\ Lifecycle!NoneAssumption /\ Lifecycle!RecordAssumption
    /\ Lifecycle!LifecycleAssumption
<1>1. Lifecycle!NoneAssumption
  BY NoneAssumption DEF NoneAssumption, Lifecycle!NoneAssumption, Actions, Lifecycle!Actions
<1>2. Lifecycle!RecordAssumption
  BY SameRecords, RecordAssumption DEF RecordAssumption, Lifecycle!RecordAssumption
<1>3. RetryPolicy = Lifecycle!RetryPolicy
  BY DEF RetryPolicy, Lifecycle!RetryPolicy,
         AttemptPolicy, Lifecycle!AttemptPolicy, ReplayGuarantee, Lifecycle!ReplayGuarantee
<1>4. Lifecycle!LifecycleAssumption
  BY <1>3, SameRecords, EngineAssumption DEF Lifecycle!LifecycleAssumption
<1> QED
  BY <1>1, <1>2, <1>4

(* and their guards and commands are the same.                             *)
LEMMA SameGuards ==
    /\ \A o, action, ready, t :
          ClaimAllowed(o, action, ready, t) <=> Lifecycle!ClaimAllowed(o, action, ready, t)
    /\ \A o, owner, t : Owns(o, owner, t) <=> Lifecycle!Owns(o, owner, t)
    /\ \A o, result : ResultAccepted(o, result) <=> Lifecycle!ResultAccepted(o, result)
    /\ \A o, t : RecoverAllowed(o, t) <=> Lifecycle!RecoverAllowed(o, t)
    /\ \A o, owner, d, t :
          RenewAllowed(o, owner, d, t) <=> Lifecycle!RenewAllowed(o, owner, d, t)
    /\ \A o, reason : FailLocalAllowed(o, reason) <=> Lifecycle!FailLocalAllowed(o, reason)
    /\ \A o, s, h, j : ScheduleAllowed(o, s, h, j) <=> Lifecycle!ScheduleAllowed(o, s, h, j)
  BY DEF ClaimAllowed, Lifecycle!ClaimAllowed, Owns, Lifecycle!Owns,
         ResultAccepted, Lifecycle!ResultAccepted, RecoverAllowed, Lifecycle!RecoverAllowed,
         RenewAllowed, Lifecycle!RenewAllowed, FailLocalAllowed, Lifecycle!FailLocalAllowed,
         ScheduleAllowed, Lifecycle!ScheduleAllowed,
         IdleStatuses, Lifecycle!IdleStatuses, ActiveStatuses, Lifecycle!ActiveStatuses,
         HasBudget, Lifecycle!HasBudget, Count, Lifecycle!Count,
         IsReplaySafe, Lifecycle!IsReplaySafe, GlobalBackend, Lifecycle!GlobalBackend,
         ExecutionResultKinds, Lifecycle!ExecutionResultKinds,
         VerificationResultKinds, Lifecycle!VerificationResultKinds,
         NextRetryAt, Lifecycle!NextRetryAt, Cap, Lifecycle!Cap

LEMMA SameCommands ==
    /\ \A policy, t : ProposedAcceptance(policy, t) = Lifecycle!ProposedAcceptance(policy, t)
    /\ \A o, action, id, owner, d, t :
          Claimed(o, action, id, owner, d, t) = Lifecycle!Claimed(o, action, id, owner, d, t)
    /\ \A o, result, date, j, t :
          Resolved(o, result, date, j, t) = Lifecycle!Resolved(o, result, date, j, t)
    /\ \A o, t, j : Recovered(o, t, j) = Lifecycle!Recovered(o, t, j)
    /\ \A o, d, t : Renewed(o, d, t) = Lifecycle!Renewed(o, d, t)
    /\ \A o, kind : Failed(o, kind) = Lifecycle!Failed(o, kind)
    /\ \A o, s, h : Scheduled(o, s, h) = Lifecycle!Scheduled(o, s, h)
    /\ \A o, t : Commit(o, t) = Lifecycle!Commit(o, t)
  BY DEF ProposedAcceptance, Lifecycle!ProposedAcceptance, Claimed, Lifecycle!Claimed,
         Resolved, Lifecycle!Resolved, Recovered, Lifecycle!Recovered,
         Renewed, Lifecycle!Renewed, Failed, Lifecycle!Failed,
         Scheduled, Lifecycle!Scheduled, Commit, Lifecycle!Commit,
         Completed, Lifecycle!Completed, Idle, Lifecycle!Idle, Unknown, Lifecycle!Unknown,
         SettlesRejection, Lifecycle!SettlesRejection,
         SettlesNoEffect, Lifecycle!SettlesNoEffect,
         HasBudget, Lifecycle!HasBudget, Count, Lifecycle!Count,
         NextRetryAt, Lifecycle!NextRetryAt, Cap, Lifecycle!Cap
-----------------------------------------------------------------------------
(* What the snapshots and answers have to be for the row to follow the     *)
(* lifecycle.                                                              *)
LEMMA RowStep ==
    ASSUME Lifecycle!Inv, TypeOK, [Next]_vars
    PROVE  [Lifecycle!Next]_Lifecycle!vars
<1> USE Assumptions
<1>1. /\ op \in Lifecycle!Operation /\ op \in Operation /\ op # None
      /\ Lifecycle!WellFormed(op)
  BY SameRecords, RecordAssumption DEF TypeOK, Lifecycle!Inv, Lifecycle!Sound
<1>2. ASSUME op.status \in ActiveStatuses
      PROVE  /\ op.lease \in Lease /\ op.activeAttempt \in Attempt
             /\ op.lease.fence = op.fence /\ op.fence \in Nat \ {0}
  BY <1>1, <1>2 DEF Lifecycle!WellFormed, Lifecycle!OwnershipHolds, Operation, Option,
     ActiveStatuses, Lifecycle!ActiveStatuses
<1>3. ASSUME NEW owner, Owns(op, owner, now),
             owner = [ownerId |-> owner.ownerId, fence |-> owner.fence,
                      attemptId |-> owner.attemptId]
      PROVE  owner \in Lifecycle!Ownerships
  <2>1. /\ op.lease \in Lease /\ op.activeAttempt \in Attempt
        /\ op.lease.fence = op.fence /\ op.fence \in Nat \ {0}
    BY <1>2, <1>3 DEF Owns
  <2>2. /\ owner.ownerId \in Owners /\ owner.fence \in 1..op.fence
        /\ owner.attemptId \in Nat
    BY <1>3, <2>1 DEF Owns, Lease, Attempt
  <2> QED
    BY <1>3, <2>2, Zenon DEF Lifecycle!Ownerships
<1>a. ASSUME NEW p \in Passes, NEW action \in Actions, Claim(p, action)
      PROVE  Lifecycle!Next
  <2>1. Ready \in Lifecycle!Readiness /\ Ready \in Readiness
    BY <1>1, EngineAssumption, SameRecords, Zenon
    DEF Ready, Readiness, Operation, RetryPolicy, ReplayGuarantee, Option
  <2>2. Claims(op) + 1 \in Nat
    BY <1>1 DEF Claims, Operation
  <2>3. OwnerOf[p] \in Owners
    BY EngineAssumption
  <2>4. Lifecycle!Claim(action, Claims(op) + 1, OwnerOf[p], LeaseDuration, Ready)
    BY <1>a, <1>1, SameGuards, SameCommands DEF Claim, Mutates, Lifecycle!Claim
  <2> QED
    BY <2>1, <2>2, <2>3, <2>4, SameRecords DEF Lifecycle!Next
<1>b. ASSUME NEW p \in Passes, CommitResult(p)
      PROVE  Lifecycle!Next
  <2>1. PICK jitter \in Jitters :
            Mutates(p, Committable(p), Resolved(op, answer[p], None, jitter, now))
    BY <1>b DEF CommitResult
  <2>2. /\ Owns(op, Ownership(p), now) /\ ResultAccepted(op, answer[p])
        /\ op' = Commit(Resolved(op, answer[p], None, jitter, now), now)
        /\ UNCHANGED <<now, reschedules>>
    BY <2>1 DEF Mutates, Committable
  <2>3. Ownership(p) \in Lifecycle!Ownerships
    BY <1>3, <2>2 DEF Ownership
  <2>4. answer[p] \in Lifecycle!Results
    <3>1. answer[p] \in Result
      BY <1>b DEF TypeOK, CommitResult, Option
    <3>2. Result = Lifecycle!Results
      BY Zenon DEF Result, Evidence, Lifecycle!Results, Lifecycle!Evidences,
         ExecutionResultKinds, Lifecycle!ExecutionResultKinds,
         VerificationResultKinds, Lifecycle!VerificationResultKinds
    <3> QED
      BY <3>1, <3>2
  <2>5. None \in Lifecycle!Dates
    BY DEF Lifecycle!Dates, Lifecycle!Option
  <2>6. Lifecycle!CommitResult(Ownership(p))
    BY <1>1, <2>2, <2>4, <2>5, SameGuards, SameCommands, Zenon DEF Lifecycle!CommitResult
  <2> QED
    BY <1>1, <2>3, <2>6 DEF Lifecycle!Next
<1>c. ASSUME NEW p \in Passes, RecoverExpired(p)
      PROVE  Lifecycle!Next
  <2>1. PICK jitter \in Jitters :
            Mutates(p, RecoverAllowed(op, now), Recovered(op, now, jitter))
    BY <1>c DEF RecoverExpired
  <2>2. Lifecycle!RecoverExpired(jitter)
    BY <1>1, <2>1, SameGuards, SameCommands DEF Mutates, Lifecycle!RecoverExpired
  <2> QED
    BY <2>2 DEF Lifecycle!Next
<1>d. ASSUME NEW p \in Passes, Renew(p)
      PROVE  Lifecycle!Next
  <2>1. /\ RenewAllowed(op, Ownership(p), LeaseDuration, now)
        /\ op' = Commit(Renewed(op, LeaseDuration, now), now)
        /\ UNCHANGED <<now, reschedules>>
    BY <1>d DEF Renew, Mutates
  <2>2. Ownership(p) \in Lifecycle!Ownerships
    BY <1>3, <2>1 DEF Ownership, RenewAllowed
  <2>3. Lifecycle!Renew(Ownership(p), LeaseDuration)
    BY <1>1, <2>1, SameGuards, SameCommands DEF Lifecycle!Renew
  <2> QED
    BY <1>1, <2>2, <2>3 DEF Lifecycle!Next
<1>e. ASSUME NEW schedule \in Option([kind : Actions, at : Times]),
             NEW hold \in Option(HoldReasons), NEW jitter \in Jitters,
             UpdateScheduling(schedule, hold, jitter)
      PROVE  Lifecycle!Next
  <2>1. Lifecycle!UpdateScheduling(schedule, hold, jitter)
    BY <1>e, <1>1, SameGuards, SameCommands
    DEF UpdateScheduling, Lifecycle!UpdateScheduling
  <2> QED
    BY <2>1, SameRecords DEF Lifecycle!Next
<1>f. ASSUME NEW reason \in Failures, FailLocal(reason)
      PROVE  Lifecycle!Next
  <2>1. Lifecycle!FailLocal(reason)
    BY <1>f, <1>1, SameGuards, SameCommands DEF FailLocal, Lifecycle!FailLocal
  <2> QED
    BY <2>1, SameRecords DEF Lifecycle!Next
<1>g. ASSUME NEW t \in Times, SetClock(t)
      PROVE  Lifecycle!Next
  <2>1. Lifecycle!SetClock(t)
    BY <1>g DEF SetClock, Lifecycle!SetClock
  <2> QED
    BY <2>1, SameRecords DEF Lifecycle!Next
<1>h. ASSUME UNCHANGED storeVars
      PROVE  UNCHANGED Lifecycle!vars
  BY <1>h DEF storeVars, Lifecycle!vars
<1> HIDE Assumptions
<1> QED
  BY <1>a, <1>b, <1>c, <1>d, <1>e, <1>f, <1>g, <1>h
  DEF Next, vars, Scan, Skip, Send, Respond, ReportUncertain, ReportCompleted,
      ReportAttemptRefused, ReportRejected, ReportAbsent, DropResult, Crash, Apply
-----------------------------------------------------------------------------
(* What the commands do to the fields the invariants speak of.  Whatever   *)
(* is not a claim leaves the number of claims as it is.                    *)
Settled(o, n) ==
    /\ n.policySnapshot = o.policySnapshot
    /\ Claims(n) = Claims(o)
    /\ n.executionCount = o.executionCount /\ n.verificationCount = o.verificationCount
    /\ n.fence \in Nat /\ n.fence >= o.fence

(* What a claim does.                                                      *)
Claiming(o, n, action, id, owner, expiry) ==
    /\ n.policySnapshot = o.policySnapshot
    /\ Claims(n) = Claims(o) + 1
    /\ n.executionCount = (IF action = "execution" THEN o.executionCount + 1
                                                  ELSE o.executionCount)
    /\ n.verificationCount = (IF action = "execution" THEN o.verificationCount
                                                     ELSE o.verificationCount + 1)
    /\ n.fence = o.fence + 1
    /\ n.status = (IF action = "execution" THEN "EXECUTING" ELSE "VERIFYING")
    /\ n.unresolvedEffect = (IF action = "execution" THEN o.unresolvedEffect ELSE TRUE)
    /\ n.activeAttempt.id = id
    /\ n.lease = [ownerId |-> owner, fence |-> o.fence + 1, expiresAt |-> expiry]

LEMMA ClaimedShape ==
    ASSUME NEW o \in Operation, NEW action \in Actions, NEW id, NEW owner, NEW d, NEW t
    PROVE  Claiming(o, Commit(Claimed(o, action, id, owner, d, t), t),
                    action, id, owner, t + d)
<1> DEFINE c == Claimed(o, action, id, owner, d, t)
           n == Commit(c, t)
<1>1. /\ c.policySnapshot = o.policySnapshot
      /\ c.executionCount = IF action = "execution" THEN o.executionCount + 1
                                                    ELSE o.executionCount
      /\ c.verificationCount = IF action = "execution" THEN o.verificationCount
                                                       ELSE o.verificationCount + 1
      /\ c.fence = o.fence + 1
      /\ c.status = (IF action = "execution" THEN "EXECUTING" ELSE "VERIFYING")
      /\ c.unresolvedEffect = (IF action = "execution" THEN o.unresolvedEffect ELSE TRUE)
      /\ c.activeAttempt.id = id
      /\ c.lease = [ownerId |-> owner, fence |-> o.fence + 1, expiresAt |-> t + d]
  BY DEF Claimed, Operation, Count, Actions
<1>2. /\ n.policySnapshot = c.policySnapshot
      /\ n.executionCount = c.executionCount /\ n.verificationCount = c.verificationCount
      /\ n.fence = c.fence /\ n.status = c.status
      /\ n.unresolvedEffect = c.unresolvedEffect
      /\ n.activeAttempt = c.activeAttempt /\ n.lease = c.lease
  BY DEF Commit, Claimed, Operation
<1> HIDE DEF c, n
<1>3. Claims(n) = Claims(o) + 1
  BY <1>1, <1>2 DEF Claims, Operation
<1> QED
  BY <1>1, <1>2, <1>3 DEF c, n, Claiming

LEMMA ResolvedShape ==
    ASSUME NEW o \in Operation, NEW result \in Result, NEW date, NEW jitter, NEW t
    PROVE  LET n == Commit(Resolved(o, result, date, jitter, t), t)
           IN  /\ Settled(o, n) /\ n.fence = o.fence
               /\ n.status \notin ActiveStatuses
               /\ n.status = "COMPLETED" => result.kind = "CONFIRMED_COMPLETED"
               /\ n.status \in {"ACCEPTED", "FAILED"} =>
                     SettlesRejection(o, result) \/ SettlesNoEffect(o, result)
<1> DEFINE base == [o EXCEPT !.lastEvidence = result.evidence]
           r == Resolved(o, result, date, jitter, t)
           n == Commit(r, t)
<1>1. /\ base \in Operation /\ base.policySnapshot = o.policySnapshot
      /\ base.executionCount = o.executionCount
      /\ base.verificationCount = o.verificationCount
      /\ base.fence = o.fence
  BY Zenon DEF Operation, Result, Option
<1>2. \/ r = Completed(base, result.evidence) /\ result.kind = "CONFIRMED_COMPLETED"
      \/ /\ (\E f \in Failures : r = Failed(base, f)) \/ (\E s : r = Idle(base, "ACCEPTED", s))
         /\ SettlesRejection(o, result) \/ SettlesNoEffect(o, result)
      \/ \E s : r = Idle(base, "UNKNOWN", s)
  <2>1. Lifecycle!Answers(o, result, base, r)
    BY Assumptions, Lifecycle!ResolvedForms, SameCommands
  <2> QED
    BY <2>1, SameRecords
    DEF Lifecycle!Answers, Completed, Lifecycle!Completed, Failed, Lifecycle!Failed,
        Idle, Lifecycle!Idle, SettlesRejection, Lifecycle!SettlesRejection,
        SettlesNoEffect, Lifecycle!SettlesNoEffect
<1> HIDE DEF base, r
<1>3. ASSUME NEW c, Settled(base, c), c.fence = base.fence
      PROVE  Settled(o, c) /\ c.fence = o.fence
  BY <1>1, <1>3 DEF Settled, Claims, Operation
<1>4. CASE r = Completed(base, result.evidence) /\ result.kind = "CONFIRMED_COMPLETED"
  <2>1. Settled(base, n) /\ n.fence = base.fence /\ n.status = "COMPLETED"
    BY <1>1, <1>4 DEF Completed, Commit, Settled, Claims, Operation
  <2> QED
    BY <1>3, <1>4, <2>1 DEF ActiveStatuses, r
<1>5. CASE /\ (\E f \in Failures : r = Failed(base, f)) \/ (\E s : r = Idle(base, "ACCEPTED", s))
           /\ SettlesRejection(o, result) \/ SettlesNoEffect(o, result)
  <2>1. /\ Settled(base, n) /\ n.fence = base.fence
        /\ n.status \in {"ACCEPTED", "FAILED"}
    <3>1. ASSUME NEW f, r = Failed(base, f)
          PROVE  Settled(base, n) /\ n.fence = base.fence /\ n.status = "FAILED"
      BY <1>1, <3>1 DEF Failed, Commit, Settled, Claims, Operation
    <3>2. ASSUME NEW s, r = Idle(base, "ACCEPTED", s)
          PROVE  Settled(base, n) /\ n.fence = base.fence /\ n.status = "ACCEPTED"
      BY <1>1, <3>2 DEF Idle, Commit, Settled, Claims, Operation
    <3> QED
      BY <1>5, <3>1, <3>2
  <2> QED
    BY <1>3, <1>5, <2>1 DEF ActiveStatuses, r
<1>6. CASE \E s : r = Idle(base, "UNKNOWN", s)
  <2>1. Settled(base, n) /\ n.fence = base.fence /\ n.status = "UNKNOWN"
    BY <1>1, <1>6 DEF Idle, Commit, Settled, Claims, Operation
  <2> QED
    BY <1>3, <2>1 DEF ActiveStatuses, r
<1> QED
  BY <1>2, <1>4, <1>5, <1>6

LEMMA RecoveredShape ==
    ASSUME NEW o \in Operation, NEW t, NEW jitter
    PROVE  LET n == Commit(Recovered(o, t, jitter), t)
           IN  Settled(o, n) /\ n.status = "UNKNOWN"
  BY DEF Recovered, Unknown, Idle, Commit, Settled, Claims, Operation

LEMMA RenewedShape ==
    ASSUME NEW o \in Operation, o.lease \in Lease, NEW d \in Nat, NEW t \in Nat
    PROVE  LET n == Commit(Renewed(o, d, t), t)
           IN  /\ Settled(o, n)
               /\ n.status = o.status /\ n.unresolvedEffect = o.unresolvedEffect
               /\ n.activeAttempt = o.activeAttempt /\ n.fence = o.fence
               /\ n.lease.ownerId = o.lease.ownerId /\ n.lease.fence = o.lease.fence
               /\ n.lease.expiresAt = t + d
  BY DEF Renewed, Commit, Settled, Claims, Operation, Lease

LEMMA FailedShape ==
    ASSUME NEW o \in Operation, NEW reason, NEW t
    PROVE  LET n == Commit(Failed(o, reason), t)
           IN  Settled(o, n) /\ n.status = "FAILED"
  BY DEF Failed, Commit, Settled, Claims, Operation

LEMMA ScheduledShape ==
    ASSUME NEW o \in Operation, NEW s, NEW h, NEW t
    PROVE  LET n == Commit(Scheduled(o, s, h), t)
           IN  Settled(o, n) /\ n.status = o.status
  BY DEF Scheduled, Commit, Settled, Claims, Operation
-----------------------------------------------------------------------------
(* The passes between their claim and its commit hold a claimed snapshot,  *)
(* and the n-th claim is still the active one until the next is made.      *)
RowHolds == op.status \in ActiveStatuses => op.activeAttempt.id = Claims(op)
PassesHold ==
    \A p \in Passes : InFlight(p) =>
        /\ seen[p].status \in ActiveStatuses
        /\ seen[p].lease \in Lease /\ seen[p].activeAttempt \in Attempt
        /\ seen[p].activeAttempt.id <= Claims(op)
Base == Lifecycle!Inv /\ TypeOK /\ RowHolds /\ PassesHold

LEMMA RecordTyped ==
    ASSUME NEW o \in Operation, Lifecycle!Sound(o)
    PROVE  /\ Claims(o) \in Nat
           /\ o.status \in ActiveStatuses =>
                 /\ o.lease \in Lease /\ o.activeAttempt \in Attempt
                 /\ o.lease.fence = o.fence
           /\ o.status = "UNKNOWN" => o.unresolvedEffect
           /\ o.status \in {"ACCEPTED", "COMPLETED", "FAILED"} => ~o.unresolvedEffect
<1>1. Claims(o) \in Nat
  BY DEF Claims, Operation
<1>2. Lifecycle!WellFormed(o)
  BY DEF Lifecycle!Sound
<1> QED
  BY <1>1, <1>2 DEF Lifecycle!WellFormed, Lifecycle!OwnershipHolds,
     Lifecycle!UncertaintyHolds, Operation, Option, ActiveStatuses, Lifecycle!ActiveStatuses,
     Lifecycle!TerminalStatuses

LEMMA RowTyped ==
    ASSUME Base
    PROVE  /\ op \in Operation /\ now \in Nat /\ Claims(op) \in Nat
           /\ op.status \in ActiveStatuses =>
                 /\ op.lease \in Lease /\ op.activeAttempt \in Attempt
                 /\ op.lease.fence = op.fence
           /\ op.status = "UNKNOWN" => op.unresolvedEffect
           /\ op.status \in {"ACCEPTED", "COMPLETED", "FAILED"} => ~op.unresolvedEffect
<1>1. op \in Operation /\ now \in Nat
  BY DEF Base, TypeOK
<1>2. Lifecycle!Sound(op)
  BY <1>1, RecordAssumption DEF Base, Lifecycle!Inv
<1> QED
  BY <1>1, <1>2, RecordTyped

LEMMA BaseInit == Init => Base
<1> SUFFICES ASSUME Init PROVE Base
  OBVIOUS
<1>1. PICK policy \in Policies : op = ProposedAcceptance(policy, now)
  BY DEF Init
<1>2. now = 0 /\ policy \in Lifecycle!RetryPolicy
  BY EngineAssumption DEF Init, RetryPolicy, Lifecycle!RetryPolicy,
     AttemptPolicy, Lifecycle!AttemptPolicy, ReplayGuarantee, Lifecycle!ReplayGuarantee
<1>3. Lifecycle!Sound(op)
  BY <1>1, <1>2, Assumptions, Lifecycle!AcceptanceSound, SameCommands
<1>4. op \in Operation /\ op.status = "ACCEPTED"
  BY <1>1, <1>3, SameRecords DEF Lifecycle!Sound, ProposedAcceptance
<1>5. TypeOK
  BY <1>2, <1>4, EngineAssumption DEF Init, TypeOK, PassStates, Option
<1>6. Lifecycle!Inv
  BY <1>2, <1>3, <1>4, EngineAssumption, SameRecords
  DEF Lifecycle!Inv, Lifecycle!TypeOK, Init, Option
<1> QED
  BY <1>4, <1>5, <1>6 DEF Base, RowHolds, PassesHold, InFlight, ActiveStatuses, Init

(* A pass moves: what it holds from now on is well typed.                  *)
LEMMA MovesTyped ==
    ASSUME TypeOK, NEW p \in Passes, NEW state \in PassStates,
           NEW snapshot \in Option(Operation), NEW response \in Option(Result),
           snapshot = None <=> state = "idle",
           response = None <=> state # "answered",
           Moves(p, state, snapshot, response)
    PROVE  /\ at' \in [Passes -> PassStates]
           /\ seen' \in [Passes -> Option(Operation)]
           /\ answer' \in [Passes -> Option(Result)]
           /\ crashed' \subseteq Owners
           /\ \A q \in Passes : /\ seen'[q] = None <=> at'[q] = "idle"
                                /\ answer'[q] = None <=> at'[q] # "answered"
           /\ at'[p] = state /\ seen'[p] = snapshot /\ answer'[p] = response
           /\ \A q \in Passes \ {p} :
                 at'[q] = at[q] /\ seen'[q] = seen[q] /\ answer'[q] = answer[q]
  BY DEF TypeOK, Moves

LEMMA RowNext ==
    ASSUME Base, [Next]_vars
    PROVE  /\ Lifecycle!Inv'
           /\ op' \in Operation /\ now' \in Nat /\ reschedules' \in 0..MaxReschedules
           /\ Lifecycle!Sound(op')
<1>1. Lifecycle!Inv' /\ Lifecycle!RowStays
  BY Assumptions, RowStep, Lifecycle!NextInv DEF Base
<1>2. op # None
  BY RecordAssumption DEF Base, TypeOK
<1> QED
  BY <1>1, <1>2, SameRecords
  DEF Lifecycle!Inv, Lifecycle!TypeOK, Lifecycle!RowStays, Option

(* Who is between claim and commit after the step was before it.           *)
Steady == \A q \in Passes : InFlight(q)' => InFlight(q) /\ seen'[q] = seen[q]

LEMMA SteadyMoves ==
    ASSUME TypeOK, NEW p \in Passes, NEW state \in PassStates,
           NEW snapshot \in Option(Operation), NEW response \in Option(Result),
           snapshot = None <=> state = "idle",
           response = None <=> state # "answered",
           Moves(p, state, snapshot, response),
           \/ state \in {"idle", "scanned"}
           \/ InFlight(p) /\ snapshot = seen[p]
    PROVE  Steady
  BY MovesTyped DEF Steady, InFlight

LEMMA PassesKept ==
    ASSUME Base, op' \in Operation, Steady, Claims(op') >= Claims(op)
    PROVE  PassesHold'
<1>1. Claims(op) \in Nat /\ Claims(op') \in Nat
  BY RowTyped DEF Claims, Operation
<1> QED
  BY <1>1 DEF Base, PassesHold, Steady, Attempt, InFlight

(* The steps that leave the row alone.                                     *)
LEMMA ScanBase ==
    ASSUME Base, NEW p \in Passes, Scan(p) \/ Skip(p) \/ Send(p) \/ DropResult(p)
    PROVE  TypeOK' /\ Steady /\ op' = op /\ now' = now
<1>1. PICK state \in PassStates, snapshot \in Option(Operation) :
          /\ Moves(p, state, snapshot, None)
          /\ snapshot = None <=> state = "idle"
          /\ state # "answered"
          /\ \/ state \in {"idle", "scanned"}
             \/ InFlight(p) /\ snapshot = seen[p]
  <2>1. CASE Scan(p)
    BY <2>1, RowTyped, RecordAssumption DEF Scan, PassStates, Option
  <2>2. CASE Skip(p) \/ DropResult(p)
    BY <2>2 DEF Skip, DropResult, Returns, PassStates, Option
  <2>3. CASE Send(p)
    BY <2>3 DEF Base, TypeOK, Send, PassStates, InFlight
  <2> QED
    BY <2>1, <2>2, <2>3
<1>2. /\ op' = op /\ now' = now /\ reschedules' = reschedules
      /\ closed' = closed /\ applied' = applied
      /\ sent \subseteq sent'
      /\ sent' \subseteq Nat
  <2>1. CASE Send(p)
    BY <2>1 DEF Base, TypeOK, PassesHold, Send, storeVars, InFlight, Attempt
  <2> QED
    BY <2>1 DEF Base, TypeOK, Scan, Skip, DropResult, storeVars, backendVars
<1>3. TypeOK /\ None \in Option(Result)
  BY DEF Base, Option
<1>4. Steady
  BY <1>1, <1>3, SteadyMoves
<1>5. TypeOK'
  BY <1>1, <1>2, <1>3, MovesTyped DEF TypeOK
<1> QED
  BY <1>2, <1>4, <1>5

LEMMA CrashBase ==
    ASSUME Base, NEW o \in Owners, Crash(o)
    PROVE  TypeOK' /\ Steady /\ op' = op /\ now' = now
  BY DEF Base, TypeOK, Crash, storeVars, backendVars, Steady, InFlight, PassStates, Option

(* A transport answers.                                                    *)
Reports(p) == \/ ReportUncertain(p) \/ ReportCompleted(p) \/ ReportAttemptRefused(p)
              \/ ReportRejected(p) \/ ReportAbsent(p)

LEMMA ReportsRespond ==
    ASSUME Base, NEW p \in Passes, Reports(p)
    PROVE  /\ at[p] = "waiting" /\ closed' \subseteq Nat /\ closed \subseteq closed'
           /\ \E kind \in ExecutionResultKinds \cup VerificationResultKinds,
                 source \in {"LOCAL", "BACKEND"}, scope \in {"ATTEMPT", "OPERATION"},
                 retryable \in BOOLEAN :
                    Respond(p, kind, source, scope, retryable)
<1> USE DEF ExecutionResultKinds, VerificationResultKinds
<1>1. /\ closed \subseteq Nat
      /\ at[p] = "waiting" => 1..seen[p].activeAttempt.id \subseteq Nat
      /\ at[p] = "waiting" => seen[p].activeAttempt.id \in Nat
  BY DEF Base, TypeOK, PassesHold, InFlight, Attempt
<1>2. CASE ReportUncertain(p)
  BY <1>1, <1>2 DEF ReportUncertain
<1>3. CASE ReportCompleted(p)
  BY <1>1, <1>3 DEF ReportCompleted
<1>4. CASE ReportAttemptRefused(p)
  BY <1>1, <1>4 DEF ReportAttemptRefused
<1>5. CASE ReportRejected(p)
  <2>1. Respond(p, "CONFIRMED_REJECTED", "BACKEND", "OPERATION", FALSE)
    BY <1>5 DEF ReportRejected
  <2> QED
    BY <1>1, <1>5, <2>1 DEF ReportRejected
<1>6. CASE ReportAbsent(p)
  <2>1. closed' = closed \/ closed' = closed \cup 1..seen[p].activeAttempt.id
    BY <1>6 DEF ReportAbsent
  <2>2. \E retryable \in BOOLEAN :
            Respond(p, "FINAL_NOT_APPLIED", "BACKEND", "OPERATION", retryable)
    BY <1>6 DEF ReportAbsent
  <2> QED
    BY <1>1, <1>6, <2>1, <2>2 DEF ReportAbsent
<1> QED
  BY <1>2, <1>3, <1>4, <1>5, <1>6 DEF Reports

LEMMA ReportBase ==
    ASSUME Base, NEW p \in Passes, Reports(p)
    PROVE  TypeOK' /\ Steady /\ op' = op /\ now' = now
<1>1. PICK kind \in ExecutionResultKinds \cup VerificationResultKinds,
           source \in {"LOCAL", "BACKEND"}, scope \in {"ATTEMPT", "OPERATION"},
           retryable \in BOOLEAN : Respond(p, kind, source, scope, retryable)
  BY ReportsRespond
<1> DEFINE response == [kind |-> kind, retryable |-> retryable,
                        evidence |-> [attemptId |-> seen[p].activeAttempt.id,
                                      source |-> source, scope |-> scope]]
<1>2. at[p] = "waiting" /\ closed' \subseteq Nat
  BY ReportsRespond
<1>3. seen[p].activeAttempt.id \in Nat
  BY <1>2 DEF Base, PassesHold, InFlight, Attempt
<1>4. response \in Result
  BY <1>3 DEF Result, Evidence
<1>5. response \in Option(Result) /\ response # None
  BY <1>4, EngineAssumption DEF Option
<1>6. /\ Moves(p, "answered", seen[p], response)
      /\ UNCHANGED <<storeVars, sent, applied>>
  BY <1>1 DEF Respond
<1>7. TypeOK /\ seen[p] \in Operation /\ seen[p] \in Option(Operation) /\ seen[p] # None
  BY <1>2 DEF Base, TypeOK, Option
<1> HIDE DEF response
<1>8. Steady
  BY <1>2, <1>5, <1>6, <1>7, SteadyMoves DEF InFlight, PassStates
<1>9. TypeOK'
  BY <1>2, <1>5, <1>6, <1>7, MovesTyped DEF TypeOK, storeVars, PassStates
<1> QED
  BY <1>6, <1>8, <1>9 DEF storeVars

(* The steps that write the row.                                           *)
LEMMA ReturnsTyped ==
    ASSUME TypeOK, NEW p \in Passes, Returns(p), op' \in Operation,
           now' \in Nat, reschedules' \in 0..MaxReschedules, UNCHANGED backendVars
    PROVE  TypeOK' /\ Steady
<1>1. None \in Option(Result) /\ None \in Option(Operation) /\ "idle" \in PassStates
  BY DEF Option, PassStates
<1> QED
  BY <1>1, MovesTyped, SteadyMoves DEF Returns, TypeOK, backendVars

LEMMA ClaimBase ==
    ASSUME Base, [Next]_vars, NEW p \in Passes, NEW action \in Actions, Claim(p, action)
    PROVE  Base'
<1>1. /\ Lifecycle!Inv' /\ Lifecycle!Sound(op')
      /\ op' \in Operation /\ now' \in Nat /\ reschedules' \in 0..MaxReschedules
  BY RowNext
<1>2. op' = Commit(Claimed(op, action, Claims(op) + 1, OwnerOf[p], LeaseDuration, now), now)
  BY DEF Claim, Mutates
<1>3. /\ op \in Operation /\ Claims(op) \in Nat
      /\ Claims(op') = Claims(op) + 1 /\ op'.activeAttempt.id = Claims(op')
      /\ op'.status \in ActiveStatuses
  <2>1. op \in Operation /\ Claims(op) \in Nat
    BY RowTyped
  <2>2. Claiming(op, op', action, Claims(op) + 1, OwnerOf[p], now + LeaseDuration)
    BY <1>2, <2>1, ClaimedShape
  <2> QED
    BY <2>1, <2>2 DEF ActiveStatuses, Claiming
<1>4. RowHolds'
  BY <1>3 DEF RowHolds, Claims
<1>5. TypeOK
  BY DEF Base
<1>6. CASE Returns(p)
  <2>1. TypeOK' /\ Steady
    BY <1>1, <1>5, <1>6, ReturnsTyped DEF Claim
  <2>2. PassesHold'
    BY <1>1, <1>3, <2>1, PassesKept
  <2> QED
    BY <1>1, <1>4, <2>1, <2>2 DEF Base
<1>7. CASE Moves(p, "claimed", op', None)
  <2>1. /\ op' \in Option(Operation) /\ None \in Option(Result) /\ op' # None
        /\ "claimed" \in PassStates
    BY <1>1, RecordAssumption DEF Option, PassStates
  <2>2. /\ seen'[p] = op' /\ at'[p] = "claimed"
        /\ \A q \in Passes \ {p} :
              at'[q] = at[q] /\ seen'[q] = seen[q] /\ answer'[q] = answer[q]
    BY <1>5, <1>7, <2>1, MovesTyped
  <2>3. TypeOK'
    BY <1>1, <1>5, <1>7, <2>1, MovesTyped DEF TypeOK, Claim, backendVars
  <2>4. op'.lease \in Lease /\ op'.activeAttempt \in Attempt
    BY <1>1, <1>3, RecordTyped
  <2>5. PassesHold'
    <3> SUFFICES ASSUME NEW q \in Passes, InFlight(q)'
                 PROVE  /\ seen'[q].status \in ActiveStatuses
                        /\ seen'[q].lease \in Lease /\ seen'[q].activeAttempt \in Attempt
                        /\ seen'[q].activeAttempt.id <= Claims(op')
      BY DEF PassesHold, Claims
    <3>1. CASE q = p
      BY <1>3, <2>2, <2>4, <3>1
    <3>2. CASE q # p
      BY <1>3, <2>2, <3>2 DEF Base, PassesHold, InFlight, Attempt
    <3> QED
      BY <3>1, <3>2
  <2> QED
    BY <1>1, <1>4, <2>3, <2>5 DEF Base
<1> QED
  BY <1>6, <1>7 DEF Claim

(* A command other than a claim, and the pass that asked for it, if any,   *)
(* ends.                                                                   *)
LEMMA CommandBase ==
    ASSUME Base, [Next]_vars, Settled(op, op'),
           op'.status \in ActiveStatuses =>
              op.status \in ActiveStatuses /\ op'.activeAttempt = op.activeAttempt,
           UNCHANGED backendVars,
           UNCHANGED passVars \/ \E p \in Passes : Returns(p)
    PROVE  Base' /\ Steady
<1>1. /\ Lifecycle!Inv'
      /\ op' \in Operation /\ now' \in Nat /\ reschedules' \in 0..MaxReschedules
  BY RowNext
<1>2. Claims(op') = Claims(op) /\ Claims(op) \in Nat /\ TypeOK
  BY RowTyped DEF Settled, Base
<1>3. RowHolds'
  BY <1>2 DEF Base, RowHolds, Claims
<1>4. TypeOK' /\ Steady
  <2>1. CASE UNCHANGED passVars
    BY <1>1, <1>2, <2>1 DEF TypeOK, Steady, InFlight, passVars, backendVars
  <2>2. ASSUME NEW p \in Passes, Returns(p) PROVE TypeOK' /\ Steady
    BY <1>1, <1>2, <2>2, ReturnsTyped
  <2> QED
    BY <2>1, <2>2
<1>5. PassesHold'
  BY <1>1, <1>2, <1>4, PassesKept
<1> QED
  BY <1>1, <1>3, <1>4, <1>5 DEF Base

LEMMA CommandShapes ==
    ASSUME Base
    PROVE  /\ \A p \in Passes : CommitResult(p) =>
                 /\ Settled(op, op') /\ op'.fence = op.fence
                 /\ op'.status \notin ActiveStatuses
                 /\ op'.status = "COMPLETED" => answer[p].kind = "CONFIRMED_COMPLETED"
                 /\ op'.status \in {"ACCEPTED", "FAILED"} =>
                       SettlesRejection(op, answer[p]) \/ SettlesNoEffect(op, answer[p])
           /\ \A p \in Passes : RecoverExpired(p) => Settled(op, op') /\ op'.status = "UNKNOWN"
           /\ \A p \in Passes : Renew(p) =>
                 /\ Settled(op, op')
                 /\ op'.status = op.status /\ op'.unresolvedEffect = op.unresolvedEffect
                 /\ op'.activeAttempt = op.activeAttempt /\ op'.fence = op.fence
                 /\ op'.lease.ownerId = op.lease.ownerId /\ op'.lease.fence = op.lease.fence
                 /\ op'.lease.expiresAt = now + LeaseDuration
           /\ \A s, h, j : UpdateScheduling(s, h, j) =>
                 Settled(op, op') /\ op'.status = op.status
           /\ \A reason : FailLocal(reason) => Settled(op, op') /\ op'.status = "FAILED"
<1>1. op \in Operation /\ now \in Nat
  BY RowTyped
<1>2. ASSUME NEW p \in Passes, CommitResult(p)
      PROVE  /\ Settled(op, op') /\ op'.fence = op.fence
             /\ op'.status \notin ActiveStatuses
             /\ op'.status = "COMPLETED" => answer[p].kind = "CONFIRMED_COMPLETED"
             /\ op'.status \in {"ACCEPTED", "FAILED"} =>
                   SettlesRejection(op, answer[p]) \/ SettlesNoEffect(op, answer[p])
  <2>1. answer[p] \in Result
    BY <1>2 DEF Base, TypeOK, CommitResult, Option
  <2>2. PICK jitter \in Jitters :
            op' = Commit(Resolved(op, answer[p], None, jitter, now), now)
    BY <1>2 DEF CommitResult, Mutates
  <2> QED
    BY <1>1, <2>1, <2>2, ResolvedShape
<1>3. ASSUME NEW p \in Passes, RecoverExpired(p)
      PROVE  Settled(op, op') /\ op'.status = "UNKNOWN"
  <2>1. PICK jitter \in Jitters : op' = Commit(Recovered(op, now, jitter), now)
    BY <1>3 DEF RecoverExpired, Mutates
  <2> QED
    BY <1>1, <2>1, RecoveredShape
<1>4. ASSUME NEW p \in Passes, Renew(p)
      PROVE  /\ Settled(op, op')
             /\ op'.status = op.status /\ op'.unresolvedEffect = op.unresolvedEffect
             /\ op'.activeAttempt = op.activeAttempt /\ op'.fence = op.fence
             /\ op'.lease.ownerId = op.lease.ownerId /\ op'.lease.fence = op.lease.fence
             /\ op'.lease.expiresAt = now + LeaseDuration
  <2>1. op' = Commit(Renewed(op, LeaseDuration, now), now) /\ op.lease \in Lease
    BY <1>4, RowTyped DEF Renew, Mutates, RenewAllowed, Owns
  <2>2. op \in Operation /\ now \in Nat /\ LeaseDuration \in Nat
    BY <1>1, EngineAssumption
  <2> HIDE DEF Base
  <2> QED
    BY <2>1, <2>2, RenewedShape, Zenon
<1>5. ASSUME NEW s, NEW h, NEW j, UpdateScheduling(s, h, j)
      PROVE  Settled(op, op') /\ op'.status = op.status
  BY <1>1, <1>5, ScheduledShape DEF UpdateScheduling
<1>6. ASSUME NEW reason, FailLocal(reason)
      PROVE  Settled(op, op') /\ op'.status = "FAILED"
  BY <1>1, <1>6, FailedShape DEF FailLocal
<1> QED
  BY <1>2, <1>3, <1>4, <1>5, <1>6

LEMMA BaseNext == Base /\ [Next]_vars => Base'
<1> SUFFICES ASSUME Base, [Next]_vars PROVE Base'
  OBVIOUS
<1>0. /\ Lifecycle!Inv' /\ op \in Operation /\ Claims(op) \in Nat
  BY RowNext, RowTyped
<1>1. ASSUME TypeOK', Steady, op' = op
      PROVE  Base'
  <2>1. RowHolds'
    BY <1>1 DEF Base, RowHolds, Claims
  <2>2. PassesHold'
    BY <1>0, <1>1, PassesKept
  <2> QED
    BY <1>0, <1>1, <2>1, <2>2 DEF Base
<1>2. ASSUME NEW p \in Passes, Scan(p) \/ Skip(p) \/ Send(p) \/ DropResult(p)
      PROVE  Base'
  BY <1>1, <1>2, ScanBase
<1>3. ASSUME NEW p \in Passes, NEW action \in Actions, Claim(p, action)
      PROVE  Base'
  BY <1>3, ClaimBase
<1>4. ASSUME NEW p \in Passes, Reports(p)
      PROVE  Base'
  BY <1>1, <1>4, ReportBase
<1>5. ASSUME NEW p \in Passes, CommitResult(p) \/ RecoverExpired(p) \/ Renew(p)
      PROVE  Base'
  <2>1. UNCHANGED backendVars /\ Returns(p)
    BY <1>5 DEF CommitResult, RecoverExpired, Renew
  <2>2. /\ Settled(op, op')
        /\ op'.status \in ActiveStatuses =>
              op.status \in ActiveStatuses /\ op'.activeAttempt = op.activeAttempt
    BY <1>5, CommandShapes DEF ActiveStatuses
  <2> QED
    BY <2>1, <2>2, CommandBase
<1>6. ASSUME NEW schedule, NEW hold, NEW jitter, UpdateScheduling(schedule, hold, jitter)
      PROVE  Base'
  <2>1. UNCHANGED backendVars /\ UNCHANGED passVars /\ op.status \notin ActiveStatuses
    BY <1>6 DEF UpdateScheduling, ScheduleAllowed, IdleStatuses, ActiveStatuses
  <2> QED
    BY <1>6, <2>1, CommandShapes, CommandBase
<1>7. ASSUME NEW reason, FailLocal(reason)
      PROVE  Base'
  <2>1. UNCHANGED backendVars /\ UNCHANGED passVars
    BY <1>7 DEF FailLocal
  <2> QED
    BY <1>7, <2>1, CommandShapes, CommandBase DEF ActiveStatuses
<1>8. ASSUME NEW o \in Owners, Crash(o)
      PROVE  Base'
  BY <1>1, <1>8, CrashBase
<1>9. ASSUME \/ \E attempt \in sent : Apply(attempt)
             \/ \E t \in Times : SetClock(t)
             \/ UNCHANGED vars
      PROVE  Base'
  <2>1. /\ UNCHANGED <<op, reschedules, passVars, sent, closed>>
        /\ applied' \subseteq sent
        /\ now' \in Nat
    <3>1. CASE \E attempt \in sent : Apply(attempt)
      BY <3>1 DEF Apply, storeVars, Base, TypeOK
    <3>2. CASE \E t \in Times : SetClock(t)
      BY <3>2, EngineAssumption DEF SetClock, Times, backendVars, Base, TypeOK
    <3>3. CASE UNCHANGED vars
      BY <3>3 DEF vars, storeVars, backendVars, Base, TypeOK
    <3> QED
      BY <1>9, <3>1, <3>2, <3>3
  <2>2. TypeOK' /\ Steady
    BY <2>1 DEF Base, TypeOK, passVars, Steady, InFlight
  <2> QED
    BY <1>1, <2>1, <2>2
<1> QED
  BY <1>2, <1>3, <1>4, <1>5, <1>6, <1>7, <1>8, <1>9 DEF Next, Reports

LEMMA BaseHolds == Spec => []Base
BY BaseInit, BaseNext, PTL DEF Spec

(* Every record an engine stores, reads and holds across an await, and     *)
(* every answer of a transport, has the shape the code's types promise.    *)
THEOREM EngineTypeCorrect == Spec => []TypeOK
<1>1. Base => TypeOK
  BY DEF Base
<1> QED
  BY BaseHolds, <1>1, PTL
-----------------------------------------------------------------------------
(* How the passes move: a snapshot kept across an await is the one there   *)
(* was, or is the row as the step leaves it; and only a pass of an         *)
(* activation that lives sets out.                                         *)
PassStep(p) ==
    /\ \/ at[p] # "idle" /\ seen'[p] = seen[p]
       \/ seen'[p] = op' /\ (at[p] # "idle" \/ Running(p))
    /\ OwnerOf[p] \in crashed' => OwnerOf[p] \in crashed

LEMMA PassSteps ==
    ASSUME Base, [Next]_vars
    PROVE  \A p \in Passes : at'[p] # "idle" => PassStep(p)
<1>1. TypeOK
  BY DEF Base
<1>2. ASSUME NEW p \in Passes, NEW state, NEW snapshot, NEW response,
             Moves(p, state, snapshot, response),
             \/ state = "idle"
             \/ snapshot = seen[p] /\ at[p] # "idle"
             \/ snapshot = op' /\ (at[p] # "idle" \/ Running(p))
      PROVE  \A q \in Passes : at'[q] # "idle" => PassStep(q)
  BY <1>1, <1>2 DEF TypeOK, Moves, PassStep
<1>3. ASSUME UNCHANGED passVars
      PROVE  \A q \in Passes : at'[q] # "idle" => PassStep(q)
  BY <1>3 DEF passVars, PassStep
<1>4. ASSUME NEW p \in Passes, Scan(p)
      PROVE  \A q \in Passes : at'[q] # "idle" => PassStep(q)
  BY <1>2, <1>4 DEF Scan, storeVars
<1>5. ASSUME NEW p \in Passes, NEW action \in Actions, Claim(p, action)
      PROVE  \A q \in Passes : at'[q] # "idle" => PassStep(q)
  BY <1>2, <1>5 DEF Claim, Returns
<1>6. ASSUME NEW p \in Passes, Send(p)
      PROVE  \A q \in Passes : at'[q] # "idle" => PassStep(q)
  BY <1>2, <1>6 DEF Send
<1>7. ASSUME NEW p \in Passes, Reports(p)
      PROVE  \A q \in Passes : at'[q] # "idle" => PassStep(q)
  <2>1. PICK kind, source, scope, retryable : Respond(p, kind, source, scope, retryable)
    BY <1>7 DEF Reports, ReportUncertain, ReportCompleted, ReportAttemptRefused,
       ReportRejected, ReportAbsent
  <2>2. at[p] = "waiting"
    BY <1>7 DEF Reports, ReportUncertain, ReportCompleted, ReportAttemptRefused,
       ReportRejected, ReportAbsent
  <2> QED
    BY <1>2, <2>1, <2>2 DEF Respond
<1>8. ASSUME NEW p \in Passes,
             Skip(p) \/ CommitResult(p) \/ DropResult(p) \/ RecoverExpired(p) \/ Renew(p)
      PROVE  \A q \in Passes : at'[q] # "idle" => PassStep(q)
  <2>1. Returns(p)
    BY <1>8 DEF Skip, CommitResult, DropResult, RecoverExpired, Renew
  <2> QED
    BY <1>2, <2>1 DEF Returns
<1>9. ASSUME NEW o \in Owners, Crash(o)
      PROVE  \A q \in Passes : at'[q] # "idle" => PassStep(q)
  BY <1>9 DEF Crash, PassStep
<1>10. ASSUME NEW schedule, NEW hold, NEW jitter, UpdateScheduling(schedule, hold, jitter)
       PROVE  UNCHANGED passVars
  BY <1>10 DEF UpdateScheduling
<1>11. ASSUME \/ \E reason \in Failures : FailLocal(reason)
              \/ \E attempt \in sent : Apply(attempt)
              \/ \E t \in Times : SetClock(t)
              \/ UNCHANGED vars
       PROVE  UNCHANGED passVars
  BY <1>11 DEF FailLocal, Apply, SetClock, vars
<1> QED
  BY <1>3, <1>4, <1>5, <1>6, <1>7, <1>8, <1>9, <1>10, <1>11 DEF Next, Reports

(* A snapshot is never ahead of the row, and no two rows share a revision. *)
SnapshotsHold ==
    \A p \in Passes : at[p] # "idle" =>
        /\ seen[p].revision <= op.revision
        /\ seen[p].revision = op.revision => seen[p] = op

LEMMA SnapshotsNext ==
    ASSUME Base, SnapshotsHold, [Next]_vars
    PROVE  SnapshotsHold'
<1>1. op' = op \/ op'.revision > op.revision
  <2>1. [Lifecycle!FencedStep]_Lifecycle!vars
    BY Assumptions, RowStep, Lifecycle!FencedSteps DEF Base
  <2>2. op # None
    BY RecordAssumption DEF Base, TypeOK
  <2> QED
    BY <2>1, <2>2 DEF Lifecycle!FencedStep, Lifecycle!vars
<1>2. op.revision \in Nat /\ op'.revision \in Nat
  BY RowNext DEF Base, TypeOK, Operation
<1> SUFFICES ASSUME NEW p \in Passes, at'[p] # "idle"
             PROVE  /\ seen'[p].revision <= op'.revision
                    /\ seen'[p].revision = op'.revision => seen'[p] = op'
  BY DEF SnapshotsHold
<1>3. CASE at[p] # "idle" /\ seen'[p] = seen[p]
  <2>1. seen[p].revision \in Nat
    BY <1>3 DEF Base, TypeOK, Option, Operation
  <2> QED
    BY <1>1, <1>2, <1>3, <2>1 DEF SnapshotsHold
<1>4. CASE seen'[p] = op'
  BY <1>2, <1>4
<1> QED
  BY <1>3, <1>4, PassSteps DEF PassStep

(* A commit that names the revision of its snapshot commits to that very   *)
(* row: nothing a pass decided on before an await is out of date when the  *)
(* store takes its word, whoever else worked on the operation meanwhile.   *)
THEOREM RevisionsNameRows == Spec => []SnapshotIsRow
<1>1. Init => SnapshotsHold
  BY DEF Init, SnapshotsHold
<1>2. Base /\ SnapshotsHold /\ [Next]_vars => SnapshotsHold'
  BY SnapshotsNext
<1>3. SnapshotsHold => SnapshotIsRow
  BY DEF SnapshotsHold, SnapshotIsRow
<1> QED
  BY <1>1, <1>2, <1>3, BaseHolds, PTL DEF Spec

(* No pass of a dead activation is anywhere.                               *)
DeadRest == \A p \in Passes : ~Running(p) => at[p] = "idle"

LEMMA DeadRestNext ==
    ASSUME Base, DeadRest, [Next]_vars
    PROVE  DeadRest'
  BY PassSteps DEF DeadRest, Running, PassStep

LEMMA DeadLeasesKept ==
    ASSUME Base, DeadRest, [Next]_vars, op.status \in ActiveStatuses,
           op.lease.ownerId \in crashed, op'.status \in ActiveStatuses
    PROVE  op'.lease = op.lease
<1>0. op.status \notin IdleStatuses
  BY DEF IdleStatuses, ActiveStatuses
<1>1. ASSUME NEW p \in Passes, Renew(p)
      PROVE  FALSE
  <2>1. at[p] = "scanned" /\ op.lease.ownerId = OwnerOf[p]
    BY <1>1 DEF Renew, Mutates, RenewAllowed, Owns, Ownership
  <2> QED
    BY <2>1 DEF DeadRest, Running
<1>2. ASSUME NEW p \in Passes, NEW action \in Actions, Claim(p, action)
      PROVE  FALSE
  BY <1>0, <1>2 DEF Claim, Mutates, ClaimAllowed
<1>3. ASSUME NEW p \in Passes, CommitResult(p) \/ RecoverExpired(p)
      PROVE  FALSE
  BY <1>3, CommandShapes DEF ActiveStatuses
<1>4. ASSUME NEW schedule, NEW hold, NEW jitter, UpdateScheduling(schedule, hold, jitter)
      PROVE  FALSE
  BY <1>0, <1>4 DEF UpdateScheduling, ScheduleAllowed
<1>5. ASSUME NEW reason, FailLocal(reason)
      PROVE  FALSE
  BY <1>5, CommandShapes DEF ActiveStatuses
<1>6. ASSUME \/ \E p \in Passes : \/ Scan(p) \/ Skip(p) \/ Send(p) \/ DropResult(p)
                                  \/ Reports(p)
             \/ \E o \in Owners : Crash(o)
             \/ \E attempt \in sent : Apply(attempt)
             \/ \E t \in Times : SetClock(t)
             \/ UNCHANGED vars
      PROVE  op' = op
  <2>1. CASE \E p \in Passes : \/ Scan(p) \/ Skip(p) \/ Send(p) \/ DropResult(p)
                               \/ Reports(p)
    BY <2>1, ScanBase, ReportBase
  <2> QED
    BY <1>6, <2>1 DEF Crash, Apply, SetClock, vars, storeVars
<1> QED
  BY <1>1, <1>2, <1>3, <1>4, <1>5, <1>6 DEF Next, Reports

(* A lease whose activation died is never prolonged: it runs out at the    *)
(* date it has, and with it what kept others from the operation.           *)
THEOREM DeadLeasesAreLeft == Spec => DeadLeasesRunOut
<1>1. Init => DeadRest
  BY DEF Init, DeadRest
<1>2. Base /\ DeadRest /\ [Next]_vars => DeadRest'
  BY DeadRestNext
<1>3. Base /\ DeadRest /\ [Next]_vars =>
          [(/\ op.status \in ActiveStatuses /\ op.lease.ownerId \in crashed
            /\ op'.status \in ActiveStatuses) => op'.lease = op.lease]_vars
  BY DeadLeasesKept
<1> QED
  BY <1>1, <1>2, <1>3, BaseHolds, PTL DEF Spec, DeadLeasesRunOut
-----------------------------------------------------------------------------
(* No two passes between claim and commit were ever given the same fence,  *)
(* and the row's is the highest given.                                     *)
FencesHold ==
    \A p \in Passes : InFlight(p) =>
        /\ seen[p].lease.fence <= op.fence
        /\ \A q \in Passes \ {p} : InFlight(q) => seen[q].lease.fence # seen[p].lease.fence

(* The steps that are no claim.                                            *)
LEMMA QuietSteps ==
    ASSUME Base, [Next]_vars, \A p \in Passes : \A action \in Actions : ~Claim(p, action)
    PROVE  Steady /\ op'.fence \in Nat /\ op.fence \in Nat /\ op'.fence >= op.fence
<1>1. op.fence \in Nat /\ op'.fence \in Nat
  BY RowNext DEF Base, TypeOK, Operation
<1>2. ASSUME NEW p \in Passes, Scan(p) \/ Skip(p) \/ Send(p) \/ DropResult(p) \/ Reports(p)
      PROVE  Steady /\ op' = op
  BY <1>2, ScanBase, ReportBase
<1>3. ASSUME NEW p \in Passes, CommitResult(p) \/ RecoverExpired(p) \/ Renew(p)
      PROVE  Steady /\ op'.fence >= op.fence
  <2>1. UNCHANGED backendVars /\ Returns(p)
    BY <1>3 DEF CommitResult, RecoverExpired, Renew
  <2>2. /\ Settled(op, op')
        /\ op'.status \in ActiveStatuses =>
              op.status \in ActiveStatuses /\ op'.activeAttempt = op.activeAttempt
    BY <1>3, CommandShapes DEF ActiveStatuses
  <2> QED
    BY <2>1, <2>2, CommandBase DEF Settled
<1>4. ASSUME NEW o \in Owners, Crash(o)
      PROVE  Steady /\ op' = op
  BY <1>4, CrashBase
<1>5. ASSUME UNCHANGED passVars
      PROVE  Steady
  BY <1>5 DEF passVars, Steady, InFlight
<1>6. ASSUME NEW schedule, NEW hold, NEW jitter, UpdateScheduling(schedule, hold, jitter)
      PROVE  UNCHANGED passVars /\ op'.fence >= op.fence
  BY <1>6, CommandShapes DEF UpdateScheduling, Settled
<1>7. ASSUME NEW reason, FailLocal(reason)
      PROVE  UNCHANGED passVars /\ op'.fence >= op.fence
  BY <1>7, CommandShapes DEF FailLocal, Settled
<1>8. ASSUME \/ \E attempt \in sent : Apply(attempt)
             \/ \E t \in Times : SetClock(t)
             \/ UNCHANGED vars
      PROVE  UNCHANGED passVars /\ op' = op
  BY <1>8 DEF Apply, SetClock, vars, storeVars
<1> QED
  BY <1>1, <1>2, <1>3, <1>4, <1>5, <1>6, <1>7, <1>8 DEF Next, Reports

LEMMA ClaimShape ==
    ASSUME Base, NEW p \in Passes, NEW action \in Actions, Claim(p, action)
    PROVE  /\ op.fence \in Nat /\ op'.fence = op.fence + 1
           /\ op'.lease \in Lease /\ op'.lease.fence = op.fence + 1
           /\ op.status \notin ActiveStatuses /\ op'.status \in ActiveStatuses
           /\ now' = now /\ now \in Nat
           /\ \/ Steady
              \/ /\ seen'[p] = op'
                 /\ \A q \in Passes \ {p} : at'[q] = at[q] /\ seen'[q] = seen[q]
<1>1. /\ op \in Operation /\ op.fence \in Nat /\ now \in Nat /\ Claims(op) \in Nat
      /\ OwnerOf[p] \in Owners /\ LeaseDuration \in Nat
  BY RowTyped, EngineAssumption DEF Operation
<1>2. /\ op' = Commit(Claimed(op, action, Claims(op) + 1, OwnerOf[p], LeaseDuration, now), now)
      /\ op.status \in IdleStatuses /\ now' = now
  BY DEF Claim, Mutates, ClaimAllowed
<1>3. Claiming(op, op', action, Claims(op) + 1, OwnerOf[p], now + LeaseDuration)
  BY <1>1, <1>2, ClaimedShape
<1>4. /\ op'.fence = op.fence + 1 /\ op'.lease.fence = op.fence + 1
      /\ op'.status \in ActiveStatuses /\ op'.lease \in Lease
  BY <1>1, <1>3 DEF Claiming, ActiveStatuses, Lease
<1>5. TypeOK
  BY DEF Base
<1>6. CASE Returns(p)
  <2>1. Steady
    BY <1>5, <1>6, SteadyMoves DEF Returns, PassStates, Option
  <2> QED
    BY <1>1, <1>2, <1>4, <2>1 DEF IdleStatuses, ActiveStatuses
<1>7. CASE Moves(p, "claimed", op', None)
  <2>1. /\ seen'[p] = op'
        /\ \A q \in Passes \ {p} : at'[q] = at[q] /\ seen'[q] = seen[q]
    BY <1>5, <1>7 DEF Moves, TypeOK
  <2> QED
    BY <1>1, <1>2, <1>4, <2>1 DEF IdleStatuses, ActiveStatuses
<1> QED
  BY <1>6, <1>7 DEF Claim

LEMMA FencesNext ==
    ASSUME Base, FencesHold, [Next]_vars
    PROVE  FencesHold'
<1>1. ASSUME Steady, op.fence \in Nat, op'.fence \in Nat, op'.fence >= op.fence
      PROVE  FencesHold'
  <2> SUFFICES ASSUME NEW p \in Passes, InFlight(p)'
               PROVE  /\ seen'[p].lease.fence <= op'.fence
                      /\ \A q \in Passes \ {p} :
                            InFlight(q)' => seen'[q].lease.fence # seen'[p].lease.fence
    BY DEF FencesHold, InFlight
  <2>1. InFlight(p) /\ seen'[p] = seen[p] /\ seen[p].lease \in Lease
    BY <1>1 DEF Steady, Base, PassesHold
  <2>2. seen'[p].lease.fence <= op'.fence
    BY <1>1, <2>1 DEF FencesHold, Lease
  <2>3. ASSUME NEW q \in Passes \ {p}, InFlight(q)'
        PROVE  seen'[q].lease.fence # seen'[p].lease.fence
    BY <1>1, <2>1, <2>3 DEF Steady, FencesHold
  <2> QED
    BY <2>2, <2>3
<1>2. ASSUME NEW p \in Passes, NEW action \in Actions, Claim(p, action)
      PROVE  FencesHold'
  <2>1. /\ op.fence \in Nat /\ op'.fence = op.fence + 1 /\ op'.lease.fence = op.fence + 1
        /\ \/ Steady
           \/ /\ seen'[p] = op'
              /\ \A q \in Passes \ {p} : at'[q] = at[q] /\ seen'[q] = seen[q]
    BY <1>2, ClaimShape
  <2>2. CASE Steady
    BY <1>1, <2>1, <2>2
  <2>3. CASE /\ seen'[p] = op'
             /\ \A q \in Passes \ {p} : at'[q] = at[q] /\ seen'[q] = seen[q]
    <3>1. ASSUME NEW q \in Passes \ {p}, InFlight(q)'
          PROVE  /\ InFlight(q) /\ seen'[q] = seen[q]
                 /\ seen[q].lease.fence \in Nat /\ seen[q].lease.fence <= op.fence
      <4>1. InFlight(q) /\ seen'[q] = seen[q]
        BY <2>3, <3>1 DEF InFlight
      <4> QED
        BY <4>1 DEF Base, PassesHold, Lease, FencesHold
    <3>2. ASSUME NEW q \in Passes, InFlight(q)'
          PROVE  /\ seen'[q].lease.fence <= op'.fence
                 /\ \A r \in Passes \ {q} :
                       InFlight(r)' => seen'[r].lease.fence # seen'[q].lease.fence
      <4>1. CASE q = p
        BY <2>1, <2>3, <3>1, <4>1
      <4>2. CASE q # p
        <5>1. seen'[q].lease.fence <= op'.fence
          BY <2>1, <3>1, <3>2, <4>2
        <5>2. ASSUME NEW r \in Passes \ {q}, InFlight(r)'
              PROVE  seen'[r].lease.fence # seen'[q].lease.fence
          <6>1. CASE r = p
            BY <2>1, <2>3, <3>1, <3>2, <4>2, <6>1
          <6>2. CASE r # p
            BY <3>1, <3>2, <4>2, <5>2, <6>2 DEF FencesHold
          <6> QED
            BY <6>1, <6>2
        <5> QED
          BY <5>1, <5>2
      <4> QED
        BY <4>1, <4>2
    <3> QED
      BY <3>2 DEF FencesHold, InFlight
  <2> QED
    BY <2>1, <2>2, <2>3
<1> QED
  BY <1>1, <1>2, QuietSteps

LEMMA FencesAlways == Spec => []FencesHold
<1>1. Init => FencesHold
  BY DEF Init, FencesHold, InFlight
<1>2. Base /\ FencesHold /\ [Next]_vars => FencesHold'
  BY FencesNext
<1> QED
  BY <1>1, <1>2, BaseHolds, PTL DEF Spec

(* Whoever passes the row's ownership check is the one it was claimed by:  *)
(* not an earlier pass of the same activation, and however the wall clock  *)
(* is set.                                                                 *)
THEOREM OneOwnerAtMost == Spec => []OneOwner
<1>1. FencesHold => OneOwner
  BY DEF FencesHold, OneOwner, Owns, Ownership
<1> QED
  BY <1>1, FencesAlways, PTL
-----------------------------------------------------------------------------
(* Whoever is between claim and commit either still owns the row, whose    *)
(* lease then lasts at least as long as the one it was given, or that one  *)
(* has expired.                                                            *)
StillOwn(p) ==
    /\ op.status \in ActiveStatuses
    /\ op.lease.ownerId = seen[p].lease.ownerId
    /\ op.lease.fence = seen[p].lease.fence
    /\ op.activeAttempt.id = seen[p].activeAttempt.id
    /\ op.lease.expiresAt >= seen[p].lease.expiresAt
LeasesHold ==
    \A p \in Passes : InFlight(p) => StillOwn(p) \/ now >= seen[p].lease.expiresAt

LEMMA LeaseIsLive == Base /\ FencesHold /\ LeasesHold => OneLiveLease
<1> SUFFICES ASSUME Base, FencesHold, LeasesHold, NEW p \in Passes, InFlight(p),
                    now < seen[p].lease.expiresAt
             PROVE  /\ Owns(op, Ownership(p), now)
                    /\ \A q \in Passes \ {p} : InFlight(q) => now >= seen[q].lease.expiresAt
  BY DEF OneLiveLease
<1>1. /\ now \in Nat
      /\ op.status \in ActiveStatuses => op.lease \in Lease
      /\ seen[p].lease \in Lease
  BY RowTyped DEF Base, PassesHold
<1>2. StillOwn(p)
  BY <1>1 DEF LeasesHold, Lease
<1>3. Owns(op, Ownership(p), now)
  BY <1>1, <1>2 DEF StillOwn, Owns, Ownership, Lease
<1>4. ASSUME NEW q \in Passes \ {p}, InFlight(q)
      PROVE  now >= seen[q].lease.expiresAt
  BY <1>2, <1>4 DEF FencesHold, LeasesHold, StillOwn
<1> QED
  BY <1>3, <1>4

(* A step that makes no claim.                                             *)
LEMMA LeasesKept ==
    ASSUME Base, LeasesHold, Steady, now' \in Nat, now' >= now,
           \A p \in Passes : (InFlight(p)' /\ InFlight(p) /\ StillOwn(p)) =>
               StillOwn(p)' \/ now >= seen[p].lease.expiresAt
    PROVE  LeasesHold'
<1> SUFFICES ASSUME NEW p \in Passes, InFlight(p)'
             PROVE  StillOwn(p)' \/ now' >= seen'[p].lease.expiresAt
  BY DEF LeasesHold, InFlight
<1>1. InFlight(p) /\ seen'[p] = seen[p]
  BY DEF Steady
<1>2. seen[p].lease \in Lease /\ now \in Nat
  BY <1>1, RowTyped DEF Base, PassesHold
<1>3. StillOwn(p)' \/ now >= seen[p].lease.expiresAt
  BY <1>1 DEF LeasesHold
<1> QED
  BY <1>1, <1>2, <1>3 DEF Lease

LEMMA ClaimLeases ==
    ASSUME Base, LeasesHold, NEW p \in Passes, NEW action \in Actions, Claim(p, action)
    PROVE  LeasesHold'
<1>1. /\ op'.lease \in Lease /\ now' = now /\ now \in Nat
      /\ op.status \notin ActiveStatuses /\ op'.status \in ActiveStatuses
      /\ \/ Steady
         \/ /\ seen'[p] = op'
            /\ \A q \in Passes \ {p} : at'[q] = at[q] /\ seen'[q] = seen[q]
  BY ClaimShape
<1>2. CASE Steady
  BY <1>1, <1>2, LeasesKept DEF StillOwn
<1>3. CASE /\ seen'[p] = op'
           /\ \A q \in Passes \ {p} : at'[q] = at[q] /\ seen'[q] = seen[q]
  <2> SUFFICES ASSUME NEW q \in Passes, InFlight(q)'
               PROVE  StillOwn(q)' \/ now' >= seen'[q].lease.expiresAt
    BY DEF LeasesHold, InFlight
  <2>1. CASE q = p
    BY <1>1, <1>3, <2>1 DEF StillOwn, Lease
  <2>2. CASE q # p
    BY <1>1, <1>3, <2>2 DEF LeasesHold, StillOwn, InFlight
  <2> QED
    BY <2>1, <2>2
<1> QED
  BY <1>1, <1>2, <1>3

LEMMA LeasesNext ==
    ASSUME now' >= now, Base, Base', FencesHold, LeasesHold, [Next]_vars
    PROVE  LeasesHold'
<1>1. /\ op \in Operation /\ op.fence \in Nat /\ now \in Nat /\ LeaseDuration \in Nat
      /\ now' \in Nat
      /\ op.status \in ActiveStatuses => op.lease \in Lease
  BY RowTyped, EngineAssumption DEF Base, TypeOK, Operation
<1>2. ASSUME Steady, op' = op
      PROVE  LeasesHold'
  <2>1. \A p \in Passes : (InFlight(p)' /\ InFlight(p) /\ StillOwn(p)) => StillOwn(p)'
    BY <1>2 DEF Steady, StillOwn
  <2> QED
    BY <1>1, <1>2, <2>1, LeasesKept
<1>3. ASSUME NEW p \in Passes, Scan(p) \/ Skip(p) \/ Send(p) \/ DropResult(p) \/ Reports(p)
      PROVE  LeasesHold'
  <2>1. Steady /\ op' = op
    BY <1>3, ScanBase, ReportBase
  <2> QED
    BY <1>1, <1>2, <2>1
<1>4. ASSUME NEW o \in Owners, Crash(o)
      PROVE  LeasesHold'
  BY <1>1, <1>2, <1>4, CrashBase
<1>5. ASSUME NEW p \in Passes, NEW action \in Actions, Claim(p, action)
      PROVE  LeasesHold'
  BY <1>5, ClaimLeases
<1>6. ASSUME Steady,
             \A p \in Passes : (InFlight(p)' /\ InFlight(p) /\ StillOwn(p)) =>
                 StillOwn(p)' \/ now >= seen[p].lease.expiresAt
      PROVE  LeasesHold'
  BY <1>1, <1>6, LeasesKept
<1>7. ASSUME NEW p \in Passes, CommitResult(p)
      PROVE  LeasesHold'
  <2>1. /\ Settled(op, op') /\ Steady /\ now' = now /\ Returns(p)
    BY <1>7, CommandShapes, CommandBase DEF CommitResult, Mutates
  <2>2. InFlight(p) /\ op.lease.fence = seen[p].lease.fence /\ ~InFlight(p)'
    BY <1>7, <2>1
    DEF CommitResult, Mutates, Committable, Owns, Ownership, InFlight, Returns, Moves,
        Base, TypeOK
  <2>3. \A q \in Passes : InFlight(q)' /\ InFlight(q) => ~StillOwn(q)
    BY <2>2 DEF FencesHold, StillOwn
  <2> QED
    BY <1>6, <2>1, <2>3
<1>8. ASSUME NEW p \in Passes, RecoverExpired(p)
      PROVE  LeasesHold'
  <2>1. /\ Settled(op, op') /\ Steady /\ now' = now /\ RecoverAllowed(op, now)
    BY <1>8, CommandShapes, CommandBase DEF RecoverExpired, Mutates, ActiveStatuses
  <2>2. \A q \in Passes : InFlight(q) /\ StillOwn(q) => now >= seen[q].lease.expiresAt
    BY <1>1, <2>1 DEF RecoverAllowed, StillOwn, Base, PassesHold, Lease
  <2> QED
    BY <1>6, <2>1, <2>2
<1>9. ASSUME NEW p \in Passes, Renew(p)
      PROVE  LeasesHold'
  <2>1. /\ Settled(op, op') /\ now' = now
        /\ RenewAllowed(op, Ownership(p), LeaseDuration, now)
        /\ op'.status = op.status /\ op'.activeAttempt = op.activeAttempt
        /\ op'.lease.ownerId = op.lease.ownerId /\ op'.lease.fence = op.lease.fence
        /\ op'.lease.expiresAt = now + LeaseDuration
    BY <1>9, CommandShapes DEF Renew, Mutates
  <2>2. Steady
    BY <1>9, <2>1, CommandBase DEF Renew, ActiveStatuses
  <2>3. ASSUME NEW q \in Passes, InFlight(q)', InFlight(q), StillOwn(q)
        PROVE  StillOwn(q)'
    <3>1. seen'[q] = seen[q] /\ seen[q].lease \in Lease
      BY <2>2, <2>3 DEF Steady, Base, PassesHold
    <3>2. op'.lease.expiresAt >= op.lease.expiresAt
      BY <1>1, <2>1 DEF RenewAllowed, Owns, Lease
    <3>3. op'.lease.expiresAt >= seen[q].lease.expiresAt
      BY <1>1, <2>1, <2>3, <3>1, <3>2 DEF StillOwn, Lease
    <3> QED
      BY <2>1, <2>3, <3>1, <3>3 DEF StillOwn
  <2> QED
    BY <1>6, <2>1, <2>2, <2>3
<1>10. ASSUME NEW schedule, NEW hold, NEW jitter, UpdateScheduling(schedule, hold, jitter)
       PROVE  LeasesHold'
  <2>1. /\ Settled(op, op') /\ now' = now /\ op.status \notin ActiveStatuses
    BY <1>10, CommandShapes
    DEF UpdateScheduling, ScheduleAllowed, IdleStatuses, ActiveStatuses
  <2>2. Steady
    BY <1>10 DEF UpdateScheduling, passVars, Steady, InFlight
  <2> QED
    BY <1>6, <2>1, <2>2 DEF StillOwn
<1>11. ASSUME NEW reason, FailLocal(reason)
       PROVE  LeasesHold'
  <2>1. /\ Settled(op, op') /\ now' = now /\ op.status \notin ActiveStatuses
    BY <1>11, CommandShapes DEF FailLocal, FailLocalAllowed, ActiveStatuses
  <2>2. Steady
    BY <1>11 DEF FailLocal, passVars, Steady, InFlight
  <2> QED
    BY <1>6, <2>1, <2>2 DEF StillOwn
<1>12. ASSUME \/ \E attempt \in sent : Apply(attempt)
              \/ \E t \in Times : SetClock(t)
              \/ UNCHANGED vars
       PROVE  LeasesHold'
  <2>1. op' = op /\ UNCHANGED passVars
    BY <1>12 DEF Apply, SetClock, vars, storeVars
  <2> QED
    BY <1>2, <2>1 DEF passVars, Steady, InFlight
<1> QED
  BY <1>3, <1>4, <1>5, <1>7, <1>8, <1>9, <1>10, <1>11, <1>12 DEF Next, Reports

(* Whatever crashes, expires, is renewed or recovered in between, no two   *)
(* of the passes of any number of activations work on the operation with a *)
(* live lease, as long as the wall clock is never set back: if one pass    *)
(* takes its lease to be current, the row is still its own.                *)
THEOREM OneLeaseLivesForward == Spec /\ [][now' >= now]_now => []OneLiveLease
<1>1. Init => LeasesHold
  BY DEF Init, LeasesHold, InFlight
<1>2. Base /\ Base' /\ FencesHold /\ LeasesHold /\ [Next]_vars /\ [now' >= now]_now
        => LeasesHold'
  <2> SUFFICES ASSUME Base, Base', FencesHold, LeasesHold, [Next]_vars, [now' >= now]_now
               PROVE  LeasesHold'
    OBVIOUS
  <2>1. now' >= now
    BY DEF Base, TypeOK
  <2> QED
    BY <2>1, LeasesNext
<1> QED
  BY <1>1, <1>2, BaseHolds, FencesAlways, LeaseIsLive, PTL DEF Spec

(* And that is so where it only ticks, as in the run.                      *)
THEOREM OneLeaseLives ==
    ASSUME ClockJumps = FALSE
    PROVE  Spec => []OneLiveLease
<1>1. Base /\ [Next]_vars => [now' >= now]_now
  <2> SUFFICES ASSUME Base, Next
               PROVE  now' = now \/ now' >= now
    BY DEF vars, storeVars
  <2>1. now \in Nat
    BY DEF Base, TypeOK
  <2>2. ASSUME NEW p \in Passes, Scan(p) \/ Skip(p) \/ Send(p) \/ DropResult(p) \/ Reports(p)
        PROVE  now' = now
    BY <2>2, ScanBase, ReportBase
  <2>3. ASSUME NEW p \in Passes,
               \/ \E action \in Actions : Claim(p, action)
               \/ CommitResult(p) \/ RecoverExpired(p) \/ Renew(p)
        PROVE  now' = now
    BY <2>3 DEF Claim, CommitResult, RecoverExpired, Renew, Mutates
  <2>4. ASSUME \/ \E o \in Owners : Crash(o)
               \/ \E schedule \in Option([kind : Actions, at : Times]),
                     hold \in Option(HoldReasons), jitter \in Jitters :
                        UpdateScheduling(schedule, hold, jitter)
               \/ \E reason \in Failures : FailLocal(reason)
               \/ \E attempt \in sent : Apply(attempt)
        PROVE  now' = now
    BY <2>4, Zenon DEF Crash, UpdateScheduling, FailLocal, Apply, storeVars
  <2>5. ASSUME NEW t \in Times, SetClock(t)
        PROVE  now' >= now
    BY <2>1, <2>5 DEF SetClock
  <2> QED
    BY <2>2, <2>3, <2>4, <2>5, Zenon DEF Next, Reports
<1> QED
  BY <1>1, BaseHolds, OneLeaseLivesForward, PTL DEF Spec
-----------------------------------------------------------------------------
(* Requests that may still have an effect: those sent, and those of passes *)
(* that have claimed and not yet sent, unless the backend has closed them. *)
Unsent == {seen[p].activeAttempt.id :
             p \in {q \in Passes : at[q] = "claimed" /\ seen[q].status = "EXECUTING"}}
Outstanding == (sent \cup Unsent) \ closed

(* What an answer says is so, and stays so: a completed operation has had  *)
(* its effect, and a refusal speaks of attempts that had none and that the *)
(* backend has closed.                                                     *)
Spoken(p) == IF answer[p].evidence.scope = "OPERATION"
             THEN 1..seen[p].activeAttempt.id ELSE {seen[p].activeAttempt.id}
AnswersHold ==
    \A p \in Passes : at[p] = "answered" =>
        /\ answer[p].evidence.attemptId = seen[p].activeAttempt.id
        /\ answer[p].kind = "CONFIRMED_COMPLETED" => applied # {}
        /\ answer[p].kind \in {"CONFIRMED_REJECTED", "NOT_APPLIED", "FINAL_NOT_APPLIED"} =>
              Spoken(p) \subseteq closed \ applied

(* No effect, and no request that could still have one.                    *)
NoEffect == applied = {} /\ Outstanding = {}

(* What the row says of the effect.                                        *)
EffectsHold ==
    /\ sent \cup Unsent \subseteq 1..Claims(op)
    /\ op.status = "COMPLETED" => applied # {}
    /\ op.status \in {"ACCEPTED", "FAILED"} => NoEffect
    /\ (op.status = "EXECUTING" /\ ~op.unresolvedEffect) =>
          applied \cup Outstanding \subseteq {op.activeAttempt.id}
    /\ \A a, b \in applied : a = b
    /\ op.policySnapshot.replay.kind = "NONE" =>
          \A a, b \in applied \cup Outstanding : a = b

LEMMA EffectIsSafe == Base /\ EffectsHold => AtMostOneEffect /\ OutcomeIsTrue
  BY DEF EffectsHold, AtMostOneEffect, OutcomeIsTrue, NoEffect, Outstanding

(* A pass that moves adds no request but that of the claim it has made.    *)
LEMMA UnsentMoves ==
    ASSUME TypeOK, NEW p \in Passes, NEW state, NEW snapshot, NEW response,
           Moves(p, state, snapshot, response)
    PROVE  /\ state # "claimed" \/ snapshot.status # "EXECUTING" => Unsent' \subseteq Unsent
           /\ Unsent' \subseteq Unsent \cup {snapshot.activeAttempt.id}
<1>1. /\ at'[p] = state /\ seen'[p] = snapshot
      /\ \A q \in Passes \ {p} : at'[q] = at[q] /\ seen'[q] = seen[q]
  BY DEF TypeOK, Moves
<1>2. ASSUME NEW a \in Unsent'
      PROVE  \/ a \in Unsent
             \/ a = snapshot.activeAttempt.id /\ state = "claimed"
                  /\ snapshot.status = "EXECUTING"
  <2>1. PICK q \in Passes : /\ at'[q] = "claimed" /\ seen'[q].status = "EXECUTING"
                            /\ a = seen'[q].activeAttempt.id
    BY <1>2 DEF Unsent
  <2>2. CASE q = p
    BY <1>1, <2>1, <2>2
  <2>3. CASE q # p
    BY <1>1, <2>1, <2>3 DEF Unsent
  <2> QED
    BY <2>2, <2>3
<1> QED
  BY <1>2

(* Steps that leave the row and the effects alone, and open no request.    *)
LEMMA EffectsKept ==
    ASSUME EffectsHold, op' = op, applied' = applied, closed \subseteq closed',
           sent' \cup Unsent' \subseteq sent \cup Unsent
    PROVE  EffectsHold'
<1>1. Outstanding' \subseteq Outstanding /\ Claims(op)' = Claims(op)
  BY DEF Outstanding, Claims
<1> QED
  BY <1>1 DEF EffectsHold, NoEffect

(* Commands that make no claim.                                            *)
LEMMA CommandEffects ==
    ASSUME EffectsHold, Settled(op, op'), UNCHANGED backendVars, Unsent' \subseteq Unsent,
           op'.status = "COMPLETED" => op.status = "COMPLETED" \/ applied # {},
           op'.status \in {"ACCEPTED", "FAILED"} =>
              op.status \in {"ACCEPTED", "FAILED"} \/ NoEffect,
           op'.status = "EXECUTING" =>
              /\ op.status = "EXECUTING" /\ op'.unresolvedEffect = op.unresolvedEffect
              /\ op'.activeAttempt = op.activeAttempt
    PROVE  EffectsHold'
<1>1. /\ Outstanding' \subseteq Outstanding /\ applied' = applied /\ sent' = sent
      /\ Claims(op)' = Claims(op)
      /\ op'.policySnapshot = op.policySnapshot
  BY DEF Outstanding, backendVars, Settled, Claims
<1> QED
  BY <1>1 DEF EffectsHold, NoEffect

LEMMA AnswersKept ==
    ASSUME AnswersHold, closed \subseteq closed', applied \subseteq applied',
           applied' \cap closed \subseteq applied,
           \A p \in Passes : at'[p] = "answered" =>
              at[p] = "answered" /\ seen'[p] = seen[p] /\ answer'[p] = answer[p]
    PROVE  AnswersHold'
<1> SUFFICES ASSUME NEW p \in Passes, at'[p] = "answered"
             PROVE  /\ answer'[p].evidence.attemptId = seen'[p].activeAttempt.id
                    /\ answer'[p].kind = "CONFIRMED_COMPLETED" => applied' # {}
                    /\ answer'[p].kind \in
                          {"CONFIRMED_REJECTED", "NOT_APPLIED", "FINAL_NOT_APPLIED"} =>
                          Spoken(p)' \subseteq closed' \ applied'
  BY DEF AnswersHold
<1>1. at[p] = "answered" /\ seen'[p] = seen[p] /\ answer'[p] = answer[p]
  OBVIOUS
<1>2. Spoken(p)' = Spoken(p)
  BY <1>1 DEF Spoken
<1> QED
  BY <1>1, <1>2 DEF AnswersHold
-----------------------------------------------------------------------------
LEMMA ClaimEffects ==
    ASSUME Base, EffectsHold, AnswersHold, NEW p \in Passes, NEW action \in Actions,
           Claim(p, action)
    PROVE  EffectsHold' /\ AnswersHold'
<1>1. /\ op \in Operation /\ Claims(op) \in Nat /\ TypeOK
  BY RowTyped DEF Base
<1>2. /\ op' = Commit(Claimed(op, action, Claims(op) + 1, OwnerOf[p], LeaseDuration, now), now)
      /\ ClaimAllowed(op, action, Ready, now)
      /\ sent' = sent /\ closed' = closed /\ applied' = applied
  BY DEF Claim, Mutates, backendVars
<1>3. Claiming(op, op', action, Claims(op) + 1, OwnerOf[p], now + LeaseDuration)
  BY <1>1, <1>2, ClaimedShape
<1>4. /\ Claims(op') = Claims(op) + 1 /\ op'.activeAttempt.id = Claims(op) + 1
      /\ op'.policySnapshot = op.policySnapshot
      /\ op'.status = (IF action = "execution" THEN "EXECUTING" ELSE "VERIFYING")
      /\ op'.unresolvedEffect = (IF action = "execution" THEN op.unresolvedEffect ELSE TRUE)
  BY <1>3 DEF Claiming
<1>5. PICK state, snapshot :
          /\ state \in {"claimed", "idle"}
          /\ Moves(p, state, snapshot, None) /\ (state = "claimed" => snapshot = op')
  BY DEF Claim, Returns
<1>6. /\ Unsent' \subseteq Unsent \cup {Claims(op) + 1}
      /\ action = "verification" => Unsent' \subseteq Unsent
  <2>1. CASE state = "claimed"
    BY <1>1, <1>4, <1>5, <2>1, UnsentMoves DEF Actions
  <2>2. CASE state = "idle"
    BY <1>1, <1>5, <2>2, UnsentMoves
  <2> QED
    BY <1>5, <2>1, <2>2
<1>7. sent \cup Unsent \subseteq 1..Claims(op)
  BY DEF EffectsHold
<1>8. /\ (sent \cup Unsent)' \subseteq 1..Claims(op')
      /\ Outstanding' \subseteq Outstanding \cup {Claims(op) + 1}
      /\ action = "verification" => Outstanding' \subseteq Outstanding
  <2>1. 1..Claims(op) \subseteq 1..(Claims(op) + 1) /\ Claims(op) + 1 \in 1..(Claims(op) + 1)
    BY <1>1
  <2> QED
    BY <1>2, <1>4, <1>6, <1>7, <2>1 DEF Outstanding
<1>9. action = "execution" =>
          \/ op.status = "ACCEPTED" /\ NoEffect
          \/ op.unresolvedEffect /\ op.policySnapshot.replay.kind # "NONE"
  BY <1>2, RowTyped DEF ClaimAllowed, IdleStatuses, IsReplaySafe, EffectsHold
<1>10. EffectsHold'
  <2>1. CASE action = "verification"
    BY <1>2, <1>4, <1>8, <2>1 DEF EffectsHold, Claims
  <2>2. CASE action = "execution" /\ op.status = "ACCEPTED" /\ NoEffect
    <3>1. applied = {} /\ Outstanding' \subseteq {Claims(op) + 1}
      BY <1>8, <2>2 DEF NoEffect
    <3> QED
      BY <1>2, <1>4, <1>8, <2>2, <3>1 DEF EffectsHold, Claims
  <2>3. CASE /\ action = "execution"
             /\ op.unresolvedEffect /\ op.policySnapshot.replay.kind # "NONE"
    BY <1>2, <1>4, <1>8, <2>3 DEF EffectsHold, Claims
  <2> QED
    BY <1>9, <2>1, <2>2, <2>3 DEF Actions
<1>11. AnswersHold'
  <2>1. \A q \in Passes : at'[q] = "answered" =>
            at[q] = "answered" /\ seen'[q] = seen[q] /\ answer'[q] = answer[q]
    BY <1>1, <1>5 DEF Moves, TypeOK
  <2> QED
    BY <1>2, <2>1, AnswersKept
<1> QED
  BY <1>10, <1>11

(* A refusal that settles the operation speaks of every request that could *)
(* have had an effect.                                                     *)
LEMMA SettledByAnswer ==
    ASSUME Base, EffectsHold, AnswersHold, NEW p \in Passes,
           at[p] = "answered", Committable(p),
           SettlesRejection(op, answer[p]) \/ SettlesNoEffect(op, answer[p])
    PROVE  NoEffect
<1> DEFINE id == op.activeAttempt.id
<1>1. /\ op.status \in ActiveStatuses /\ seen[p].activeAttempt.id = id
      /\ ResultAccepted(op, answer[p])
  BY DEF Committable, Owns, Ownership
<1>2. id = Claims(op) /\ applied \subseteq sent
  BY <1>1 DEF Base, RowHolds, TypeOK
<1>3. Spoken(p) \subseteq closed \ applied
  BY DEF AnswersHold, SettlesRejection, SettlesNoEffect
<1>4. sent \cup Unsent \subseteq 1..id
  BY <1>2 DEF EffectsHold
<1>5. CASE answer[p].evidence.scope = "OPERATION"
  <2>1. 1..id \subseteq closed \ applied
    BY <1>1, <1>3, <1>5 DEF Spoken
  <2> QED
    BY <1>2, <1>4, <2>1 DEF NoEffect, Outstanding
<1>6. CASE answer[p].evidence.scope # "OPERATION"
  <2>1. id \in closed \ applied
    BY <1>1, <1>3, <1>6 DEF Spoken
  <2>2. op.status = "EXECUTING" /\ ~op.unresolvedEffect
    BY <1>1, <1>6 DEF SettlesRejection, SettlesNoEffect, ResultAccepted, ActiveStatuses,
       GlobalBackend, VerificationResultKinds
  <2>3. applied \cup Outstanding \subseteq {id}
    BY <2>2 DEF EffectsHold
  <2> QED
    BY <2>1, <2>3 DEF NoEffect, Outstanding
<1> QED
  BY <1>5, <1>6

(* The transport speaks: what it says holds, given the contract.           *)
LEMMA ReportEffects ==
    ASSUME AbsenceCloses = TRUE, Base, EffectsHold, AnswersHold, NEW p \in Passes, Reports(p)
    PROVE  EffectsHold' /\ AnswersHold'
<1>1. PICK kind \in ExecutionResultKinds \cup VerificationResultKinds,
           source \in {"LOCAL", "BACKEND"}, scope \in {"ATTEMPT", "OPERATION"},
           retryable \in BOOLEAN :
              /\ Respond(p, kind, source, scope, retryable)
              /\ kind = "CONFIRMED_COMPLETED" => applied # {}
              /\ kind \in {"CONFIRMED_REJECTED", "NOT_APPLIED", "FINAL_NOT_APPLIED"} =>
                    (IF scope = "OPERATION" THEN 1..seen[p].activeAttempt.id
                                            ELSE {seen[p].activeAttempt.id})
                       \subseteq closed' \ applied
  <2> USE DEF ExecutionResultKinds, VerificationResultKinds
  <2>1. CASE ReportUncertain(p)
    BY <2>1 DEF ReportUncertain
  <2>2. CASE ReportCompleted(p)
    <3>1. Respond(p, "CONFIRMED_COMPLETED", "BACKEND", "OPERATION", FALSE) /\ applied # {}
      BY <2>2 DEF ReportCompleted
    <3>2. "CONFIRMED_COMPLETED" \notin {"CONFIRMED_REJECTED", "NOT_APPLIED", "FINAL_NOT_APPLIED"}
      OBVIOUS
    <3>3. "CONFIRMED_COMPLETED" \in ExecutionResultKinds \cup VerificationResultKinds
      OBVIOUS
    <3> QED
      BY <3>1, <3>2, <3>3, Zenon
  <2>3. CASE ReportAttemptRefused(p)
    <3>1. PICK kind \in {"NOT_APPLIED", "CONFIRMED_REJECTED"}, retryable \in BOOLEAN :
              Respond(p, kind, "BACKEND", "ATTEMPT", retryable)
      BY <2>3 DEF ReportAttemptRefused
    <3>2. seen[p].activeAttempt.id \in closed' \ applied
      BY <2>3 DEF ReportAttemptRefused
    <3> QED
      BY <3>1, <3>2
  <2>4. CASE ReportRejected(p)
    <3>1. /\ Respond(p, "CONFIRMED_REJECTED", "BACKEND", "OPERATION", FALSE)
          /\ 1..seen[p].activeAttempt.id \subseteq closed' \ applied
      BY <2>4 DEF ReportRejected
    <3> QED
      BY <3>1
  <2>5. CASE ReportAbsent(p)
    <3>1. PICK retryable \in BOOLEAN :
              Respond(p, "FINAL_NOT_APPLIED", "BACKEND", "OPERATION", retryable)
      BY <2>5 DEF ReportAbsent
    <3>2. 1..seen[p].activeAttempt.id \subseteq closed' \ applied
      BY <2>5 DEF ReportAbsent
    <3> QED
      BY <3>1, <3>2
  <2> QED
    BY <2>1, <2>2, <2>3, <2>4, <2>5 DEF Reports
<1> DEFINE response == [kind |-> kind, retryable |-> retryable,
                        evidence |-> [attemptId |-> seen[p].activeAttempt.id,
                                      source |-> source, scope |-> scope]]
<1>2. /\ Moves(p, "answered", seen[p], response) /\ TypeOK
      /\ op' = op /\ sent' = sent /\ applied' = applied /\ closed \subseteq closed'
  BY <1>1, ReportsRespond DEF Respond, storeVars, Base
<1>3. Unsent' \subseteq Unsent
  BY <1>2, UnsentMoves
<1>4. EffectsHold'
  BY <1>2, <1>3, EffectsKept
<1>5. /\ answer'[p] = response /\ seen'[p] = seen[p]
      /\ \A q \in Passes \ {p} :
            at'[q] = at[q] /\ seen'[q] = seen[q] /\ answer'[q] = answer[q]
  BY <1>2 DEF Moves, TypeOK
<1>6. AnswersHold'
  <2> SUFFICES ASSUME NEW q \in Passes, at'[q] = "answered"
               PROVE  /\ answer'[q].evidence.attemptId = seen'[q].activeAttempt.id
                      /\ answer'[q].kind = "CONFIRMED_COMPLETED" => applied' # {}
                      /\ answer'[q].kind \in
                            {"CONFIRMED_REJECTED", "NOT_APPLIED", "FINAL_NOT_APPLIED"} =>
                            Spoken(q)' \subseteq closed' \ applied'
    BY DEF AnswersHold
  <2>1. CASE q = p
    BY <1>1, <1>2, <1>5, <2>1 DEF Spoken
  <2>2. CASE q # p
    <3>1. at[q] = "answered" /\ seen'[q] = seen[q] /\ answer'[q] = answer[q]
      BY <1>5, <2>2
    <3>2. Spoken(q)' = Spoken(q)
      BY <3>1 DEF Spoken
    <3> QED
      BY <1>2, <3>1, <3>2 DEF AnswersHold
  <2> QED
    BY <2>1, <2>2
<1> QED
  BY <1>4, <1>6

(* A request arrives.                                                      *)
LEMMA ApplyEffects ==
    ASSUME Base, EffectsHold, AnswersHold, NEW a, Apply(a)
    PROVE  EffectsHold' /\ AnswersHold'
<1>1. /\ a \in Outstanding
      /\ op.policySnapshot.replay.kind # "NONE" => applied = {}
      /\ applied' = applied \cup {a}
      /\ op' = op /\ at' = at /\ seen' = seen /\ answer' = answer
      /\ sent' = sent /\ closed' = closed
  BY DEF Apply, Outstanding, storeVars, passVars
<1>2. Outstanding' = Outstanding /\ Claims(op)' = Claims(op) /\ Unsent' = Unsent
  BY <1>1 DEF Outstanding, Unsent, Claims
<1>3. EffectsHold'
  <2>1. op.status \notin {"ACCEPTED", "FAILED"}
    BY <1>1 DEF EffectsHold, NoEffect
  <2>2. \A x, y \in applied' : x = y
    BY <1>1 DEF EffectsHold
  <2> QED
    BY <1>1, <1>2, <2>1, <2>2 DEF EffectsHold
<1>4. AnswersHold'
  BY <1>1, AnswersKept DEF Outstanding
<1> QED
  BY <1>3, <1>4

LEMMA EffectsNext ==
    ASSUME AbsenceCloses = TRUE, Base, EffectsHold, AnswersHold, [Next]_vars
    PROVE  EffectsHold' /\ AnswersHold'
<1>1. TypeOK
  BY DEF Base
<1>2. ASSUME op' = op, closed' = closed, applied' = applied,
             sent' \cup Unsent' \subseteq sent \cup Unsent,
             \A q \in Passes : at'[q] = "answered" =>
                 at[q] = "answered" /\ seen'[q] = seen[q] /\ answer'[q] = answer[q]
      PROVE  EffectsHold' /\ AnswersHold'
  BY <1>2, EffectsKept, AnswersKept
<1>3. ASSUME NEW p \in Passes, NEW state, NEW snapshot, NEW response,
             Moves(p, state, snapshot, response), state # "answered"
      PROVE  \A q \in Passes : at'[q] = "answered" =>
                 at[q] = "answered" /\ seen'[q] = seen[q] /\ answer'[q] = answer[q]
  BY <1>1, <1>3 DEF Moves, TypeOK
<1>4. ASSUME NEW p \in Passes, Returns(p)
      PROVE  /\ Unsent' \subseteq Unsent
             /\ \A q \in Passes : at'[q] = "answered" =>
                    at[q] = "answered" /\ seen'[q] = seen[q] /\ answer'[q] = answer[q]
  BY <1>1, <1>3, <1>4, UnsentMoves DEF Returns
<1>5. ASSUME NEW p \in Passes, Scan(p)
      PROVE  EffectsHold' /\ AnswersHold'
  <2>1. Moves(p, "scanned", op, None) /\ UNCHANGED <<storeVars, backendVars>>
    BY <1>5 DEF Scan
  <2>2. Unsent' \subseteq Unsent
    BY <1>1, <2>1, UnsentMoves
  <2> QED
    BY <1>2, <1>3, <2>1, <2>2 DEF storeVars, backendVars
<1>6. ASSUME NEW p \in Passes, Skip(p) \/ DropResult(p)
      PROVE  EffectsHold' /\ AnswersHold'
  BY <1>2, <1>4, <1>6 DEF Skip, DropResult, storeVars, backendVars
<1>7. ASSUME NEW p \in Passes, Send(p)
      PROVE  EffectsHold' /\ AnswersHold'
  <2>1. Moves(p, "waiting", seen[p], None) /\ UNCHANGED <<storeVars, closed, applied>>
    BY <1>7 DEF Send
  <2>2. Unsent' \subseteq Unsent
    BY <1>1, <2>1, UnsentMoves
  <2>3. sent' \subseteq sent \cup Unsent
    BY <1>7 DEF Send, Unsent
  <2> QED
    BY <1>2, <1>3, <2>1, <2>2, <2>3 DEF storeVars
<1>8. ASSUME NEW p \in Passes, CommitResult(p) \/ RecoverExpired(p) \/ Renew(p)
      PROVE  EffectsHold' /\ AnswersHold'
  <2>1. UNCHANGED backendVars /\ Returns(p)
    BY <1>8 DEF CommitResult, RecoverExpired, Renew
  <2>2. AnswersHold'
    BY <1>4, <2>1, AnswersKept DEF backendVars
  <2>3. CASE CommitResult(p)
    <3>1. at[p] = "answered" /\ Committable(p)
      BY <2>3 DEF CommitResult, Mutates
    <3>2. /\ Settled(op, op') /\ op'.status \notin ActiveStatuses
          /\ op'.status = "COMPLETED" => answer[p].kind = "CONFIRMED_COMPLETED"
          /\ op'.status \in {"ACCEPTED", "FAILED"} =>
                SettlesRejection(op, answer[p]) \/ SettlesNoEffect(op, answer[p])
      BY <2>3, CommandShapes
    <3>3. op'.status = "COMPLETED" => applied # {}
      BY <3>1, <3>2 DEF AnswersHold
    <3>4. op'.status \in {"ACCEPTED", "FAILED"} => NoEffect
      BY <3>1, <3>2, SettledByAnswer
    <3>5. op'.status # "EXECUTING"
      BY <3>2 DEF ActiveStatuses
    <3> QED
      BY <1>4, <2>1, <2>2, <3>2, <3>3, <3>4, <3>5, CommandEffects
  <2>4. CASE RecoverExpired(p)
    <3>1. Settled(op, op') /\ op'.status = "UNKNOWN"
      BY <2>4, CommandShapes
    <3> QED
      BY <1>4, <2>1, <2>2, <3>1, CommandEffects
  <2>5. CASE Renew(p)
    <3>1. /\ Settled(op, op')
          /\ op'.status = op.status /\ op'.unresolvedEffect = op.unresolvedEffect
          /\ op'.activeAttempt = op.activeAttempt
      BY <2>5, CommandShapes
    <3> QED
      BY <1>4, <2>1, <2>2, <3>1, CommandEffects
  <2> QED
    BY <1>8, <2>3, <2>4, <2>5
<1>9. ASSUME UNCHANGED <<passVars, backendVars>>
      PROVE  Unsent' \subseteq Unsent /\ AnswersHold'
  BY <1>9, AnswersKept DEF passVars, backendVars, Unsent
<1>10. ASSUME NEW schedule, NEW hold, NEW jitter, UpdateScheduling(schedule, hold, jitter)
       PROVE  EffectsHold' /\ AnswersHold'
  <2>1. /\ UNCHANGED <<passVars, backendVars>> /\ op.status # "EXECUTING"
        /\ Settled(op, op') /\ op'.status = op.status
    BY <1>10, CommandShapes DEF UpdateScheduling, ScheduleAllowed, IdleStatuses
  <2> QED
    BY <1>9, <2>1, CommandEffects
<1>11. ASSUME NEW reason, FailLocal(reason)
       PROVE  EffectsHold' /\ AnswersHold'
  <2>1. /\ UNCHANGED <<passVars, backendVars>> /\ op.status = "ACCEPTED"
        /\ Settled(op, op') /\ op'.status = "FAILED"
    BY <1>11, CommandShapes DEF FailLocal, FailLocalAllowed
  <2> QED
    BY <1>9, <2>1, CommandEffects
<1>12. ASSUME NEW o \in Owners, Crash(o)
       PROVE  EffectsHold' /\ AnswersHold'
  <2>1. \A q \in Passes : at'[q] # "idle" =>
            at'[q] = at[q] /\ seen'[q] = seen[q] /\ answer'[q] = answer[q]
    BY <1>12 DEF Crash
  <2>2. Unsent' \subseteq Unsent
    BY <2>1 DEF Unsent
  <2> QED
    BY <1>2, <1>12, <2>1, <2>2 DEF Crash, storeVars, backendVars
<1>13. ASSUME (\E t \in Times : SetClock(t)) \/ UNCHANGED vars
       PROVE  EffectsHold' /\ AnswersHold'
  <2>1. op' = op /\ UNCHANGED <<passVars, backendVars>>
    BY <1>13 DEF SetClock, vars, storeVars
  <2> QED
    BY <1>2, <1>9, <2>1 DEF passVars, backendVars
<1> QED
  BY <1>5, <1>6, <1>7, <1>8, <1>10, <1>11, <1>12, <1>13, ClaimEffects, ReportEffects,
     ApplyEffects DEF Next, Reports

LEMMA EffectsAreSafe ==
    ASSUME AbsenceCloses = TRUE
    PROVE  Spec => [](AtMostOneEffect /\ OutcomeIsTrue)
<1>1. ASSUME Init PROVE EffectsHold /\ AnswersHold
  <2>1. sent = {} /\ applied = {} /\ Unsent = {} /\ op.status = "ACCEPTED"
    BY <1>1 DEF Init, Unsent, ProposedAcceptance
  <2>2. EffectsHold
    BY <2>1 DEF EffectsHold, NoEffect, Outstanding
  <2>3. AnswersHold
    BY <1>1 DEF Init, AnswersHold
  <2> QED
    BY <2>2, <2>3
<1>2. Base /\ (EffectsHold /\ AnswersHold) /\ [Next]_vars => (EffectsHold /\ AnswersHold)'
  BY EffectsNext
<1> QED
  BY <1>1, <1>2, BaseHolds, EffectIsSafe, PTL DEF Spec

(* The business effect happens at most once, whatever crashes, expires, is *)
(* renewed or is tried again, and however late the request of an abandoned *)
(* attempt arrives: for any number of activations and passes, any policy   *)
(* and any clock, provided that evidence of absence is final.              *)
THEOREM EffectHappensAtMostOnce ==
    ASSUME AbsenceCloses = TRUE
    PROVE  Spec => []AtMostOneEffect
  BY EffectsAreSafe, PTL

(* What the row says of the outcome is so and stays so: COMPLETED has had  *)
(* its effect; FAILED and ACCEPTED have had none, and every request that   *)
(* left the device for them is closed.                                     *)
THEOREM OutcomeStaysTrue ==
    ASSUME AbsenceCloses = TRUE
    PROVE  Spec => []OutcomeIsTrue
  BY EffectsAreSafe, PTL

(* Engines, application, clock and crashes together change the row only by *)
(* steps of the lifecycle: snapshots that went stale while a transport was *)
(* working, expired leases and answers to earlier attempts never reach it. *)
(* (The start differs: the engine's operation is accepted already.)        *)
THEOREM RowFollowsLifecycle ==
    Spec => /\ []Lifecycle!Inv
            /\ [][Lifecycle!Next]_Lifecycle!vars
<1>1. Base /\ [Next]_vars => [Lifecycle!Next]_Lifecycle!vars
  BY RowStep DEF Base
<1>2. Base => Lifecycle!Inv
  BY DEF Base
<1> QED
  BY <1>1, <1>2, BaseHolds, PTL DEF Spec

(* So what holds of the record alone holds of the row under any number of  *)
(* engines: its invariants; work that stays runnable; steps ordered by     *)
(* revision and fence, each change of status using some of the work left;  *)
(* retries that are due in range; uncertainty that only the backend ends;  *)
(* and the promise of DurableOperation.                                    *)
THEOREM EnginesKeepThePromise ==
    Spec => /\ []Lifecycle!OperationInvariants
            /\ []Lifecycle!ScheduledWorkHasBudget
            /\ Lifecycle!StepsAreFenced
            /\ Lifecycle!WorkRunsOut
            /\ Lifecycle!RetriesAreInRange
            /\ Lifecycle!UncertaintyEndsByBackend
            /\ [][Lifecycle!Durable!Next]_Lifecycle!Durable!vars
<1>1. Lifecycle!Inv => Lifecycle!OperationInvariants /\ Lifecycle!ScheduledWorkHasBudget
  BY DEF Lifecycle!Inv, Lifecycle!Sound, Lifecycle!OperationInvariants,
     Lifecycle!ScheduledWorkHasBudget
<1>2. Lifecycle!Inv /\ [Lifecycle!Next]_Lifecycle!vars =>
          /\ [Lifecycle!FencedStep]_Lifecycle!vars
          /\ [Lifecycle!UsesUp]_Lifecycle!vars
          /\ [Lifecycle!RescheduledInRange]_Lifecycle!vars
          /\ [Lifecycle!SettledByBackend]_Lifecycle!vars
          /\ [Lifecycle!Durable!Next]_Lifecycle!Durable!vars
  BY Assumptions, Lifecycle!FencedSteps, Lifecycle!SpendingSteps, Lifecycle!RangedSteps,
     Lifecycle!SettledStep, Lifecycle!KeepsStep
<1> QED
  BY <1>1, <1>2, RowFollowsLifecycle, PTL
  DEF Lifecycle!StepsAreFenced, Lifecycle!WorkRunsOut, Lifecycle!RetriesAreInRange,
      Lifecycle!UncertaintyEndsByBackend
-----------------------------------------------------------------------------
(* Whose the lease of the row is, and the policy it was accepted under.    *)
WorkersHold ==
    /\ op.policySnapshot \in Policies
    /\ \A p \in Passes : InFlight(p) => seen[p].lease.ownerId = OwnerOf[p]
    /\ \A p \in Passes : Works(p) => op.lease.ownerId = OwnerOf[p]

(* What no claim changes of the row.                                       *)
LEMMA QuietRow ==
    ASSUME Base, [Next]_vars, \A p \in Passes : \A action \in Actions : ~Claim(p, action)
    PROVE  /\ op'.policySnapshot = op.policySnapshot
           /\ Counts' = Counts
           /\ op'.status \in ActiveStatuses =>
                 /\ op.status \in ActiveStatuses
                 /\ op'.lease.ownerId = op.lease.ownerId
                 /\ op'.lease.fence = op.lease.fence
<1>1. ASSUME NEW p \in Passes, Scan(p) \/ Skip(p) \/ Send(p) \/ DropResult(p) \/ Reports(p)
      PROVE  op' = op
  BY <1>1, ScanBase, ReportBase
<1>2. ASSUME NEW p \in Passes, CommitResult(p) \/ RecoverExpired(p) \/ Renew(p)
      PROVE  /\ Settled(op, op')
             /\ op'.status \in ActiveStatuses =>
                   /\ op.status \in ActiveStatuses
                   /\ op'.lease.ownerId = op.lease.ownerId
                   /\ op'.lease.fence = op.lease.fence
  BY <1>2, CommandShapes DEF ActiveStatuses
<1>3. ASSUME NEW schedule, NEW hold, NEW jitter, UpdateScheduling(schedule, hold, jitter)
      PROVE  Settled(op, op') /\ op'.status \notin ActiveStatuses
  BY <1>3, CommandShapes DEF UpdateScheduling, ScheduleAllowed, IdleStatuses, ActiveStatuses
<1>4. ASSUME NEW reason, FailLocal(reason)
      PROVE  Settled(op, op') /\ op'.status \notin ActiveStatuses
  BY <1>4, CommandShapes DEF ActiveStatuses
<1>5. ASSUME \/ \E o \in Owners : Crash(o)
             \/ \E attempt \in sent : Apply(attempt)
             \/ \E t \in Times : SetClock(t)
             \/ UNCHANGED vars
      PROVE  op' = op
  BY <1>5 DEF Crash, Apply, SetClock, vars, storeVars
<1>6. \/ op' = op
      \/ /\ Settled(op, op')
         /\ op'.status \in ActiveStatuses =>
               /\ op.status \in ActiveStatuses
               /\ op'.lease.ownerId = op.lease.ownerId
               /\ op'.lease.fence = op.lease.fence
  BY <1>1, <1>2, <1>3, <1>4, <1>5 DEF Next, Reports
<1> QED
  BY <1>6 DEF Settled, Counts

LEMMA WorkersNext ==
    ASSUME Base, FencesHold, WorkersHold, [Next]_vars
    PROVE  WorkersHold'
<1>1. CASE \A p \in Passes : \A action \in Actions : ~Claim(p, action)
  <2>1. /\ Steady /\ op'.policySnapshot = op.policySnapshot
        /\ op'.status \in ActiveStatuses =>
              /\ op.status \in ActiveStatuses
              /\ op'.lease.ownerId = op.lease.ownerId
              /\ op'.lease.fence = op.lease.fence
    BY <1>1, QuietSteps, QuietRow
  <2>2. ASSUME NEW p \in Passes, InFlight(p)'
        PROVE  seen'[p].lease.ownerId = OwnerOf[p] /\ InFlight(p) /\ seen'[p] = seen[p]
    BY <2>1, <2>2 DEF Steady, WorkersHold
  <2>3. ASSUME NEW p \in Passes, Works(p)'
        PROVE  op'.lease.ownerId = OwnerOf[p]
    BY <2>1, <2>2, <2>3 DEF WorkersHold, Works
  <2> QED
    BY <2>1, <2>2, <2>3 DEF WorkersHold, InFlight
<1>2. ASSUME NEW p \in Passes, NEW action \in Actions, Claim(p, action)
      PROVE  WorkersHold'
  <2>1. /\ op \in Operation /\ now \in Nat /\ Claims(op) \in Nat
        /\ op' = Commit(Claimed(op, action, Claims(op) + 1, OwnerOf[p], LeaseDuration, now),
                        now)
    BY <1>2, RowTyped DEF Claim, Mutates
  <2>2. op'.lease.ownerId = OwnerOf[p] /\ op'.policySnapshot = op.policySnapshot
    <3>1. Claiming(op, op', action, Claims(op) + 1, OwnerOf[p], now + LeaseDuration)
      BY <2>1, ClaimedShape
    <3> QED
      BY <3>1 DEF Claiming, Lease
  <2>3. /\ op.fence \in Nat /\ op'.lease.fence = op.fence + 1
        /\ \/ Steady
           \/ /\ seen'[p] = op'
              /\ \A q \in Passes \ {p} : at'[q] = at[q] /\ seen'[q] = seen[q]
    BY <1>2, ClaimShape
  <2>4. ASSUME NEW q \in Passes, InFlight(q)', q # p \/ Steady
        PROVE  /\ seen'[q].lease.ownerId = OwnerOf[q]
               /\ seen'[q].lease.fence # op'.lease.fence
    <3>1. InFlight(q) /\ seen'[q] = seen[q]
      BY <2>3, <2>4 DEF InFlight, Steady
    <3>2. seen[q].lease.fence \in Nat /\ seen[q].lease.fence <= op.fence
      BY <3>1 DEF Base, PassesHold, Lease, FencesHold
    <3> QED
      BY <2>3, <3>1, <3>2 DEF WorkersHold
  <2>5. \A q \in Passes : InFlight(q)' => seen'[q].lease.ownerId = OwnerOf[q]
    BY <2>2, <2>3, <2>4
  <2>6. \A q \in Passes : Works(q)' => op'.lease.ownerId = OwnerOf[q]
    BY <2>2, <2>3, <2>4 DEF Works
  <2> QED
    BY <2>2, <2>5, <2>6 DEF WorkersHold, InFlight
<1> QED
  BY <1>1, <1>2

(* LeaseRenewal's functions have the row alone in their domain.            *)
LEMMA RowUpdated ==
    ASSUME NEW a, NEW b
    PROVE  /\ OfTheRow(a)["operation"] = a
           /\ [OfTheRow(a) EXCEPT !["operation"] = b] = OfTheRow(b)
  BY DEF OfTheRow

View == <<Standing, Holder, TimeLeft, Stage, Counts, crashed>>

LEMMA ViewStays == UNCHANGED View => UNCHANGED Renewal!vars
  BY DEF View, Renewal!vars, OfTheRow

(* A row without a lease has nobody at work on it.                         *)
LEMMA IdleView ==
    /\ op.status \notin ActiveStatuses =>
          Holder = None /\ TimeLeft = 0 /\ Stage = "gone"
    /\ op'.status \notin ActiveStatuses =>
          Holder' = None /\ TimeLeft' = 0 /\ Stage' = "gone"
  BY DEF Holder, TimeLeft, Stage, Works

(* The same passes at work on the same row.                                *)
LEMMA StageStays ==
    ASSUME op' = op,
           \A q \in Passes : /\ InFlight(q)' <=> InFlight(q)
                             /\ InFlight(q) => seen'[q] = seen[q]
    PROVE  Stage' = Stage
<1>1. \A q \in Passes : Works(q)' <=> Works(q)
  BY DEF Works
<1>2. \A q \in Passes : Works(q) => seen'[q] = seen[q]
  BY DEF Works
<1> QED
  BY <1>1, <1>2 DEF Stage

(* Steps that change neither row nor clock and leave the passes at work.   *)
LEMMA QuietView ==
    ASSUME UNCHANGED <<op, now, crashed>>,
           \A q \in Passes : /\ InFlight(q)' <=> InFlight(q)
                             /\ InFlight(q) => seen'[q] = seen[q]
    PROVE  UNCHANGED Renewal!vars
<1>1. Stage' = Stage
  BY StageStays
<1>2. /\ Standing' = Standing /\ Holder' = Holder /\ TimeLeft' = TimeLeft
      /\ Counts' = Counts
  BY DEF Standing, Holder, TimeLeft, Counts
<1> QED
  BY <1>1, <1>2, ViewStays DEF View

LEMMA ReleaseView ==
    ASSUME NEW to, Standing' = to, op'.status \notin ActiveStatuses, Counts' = Counts,
           crashed' = crashed
    PROVE  Renewal!Releases("operation", to)
<1>1. Holder' = None /\ TimeLeft' = 0 /\ Stage' = "gone"
  BY IdleView
<1> QED
  BY <1>1, RowUpdated DEF Renewal!Releases

(* The row's owner, if a pass of its is still there, is the only one.      *)
LEMMA OneWorker ==
    ASSUME FencesHold, NEW p \in Passes, Works(p)
    PROVE  \A q \in Passes \ {p} : ~Works(q)
  BY DEF FencesHold, Works

LEMMA PassMoved ==
    ASSUME TypeOK, NEW p \in Passes, NEW state, NEW snapshot, NEW response,
           Moves(p, state, snapshot, response)
    PROVE  /\ at'[p] = state /\ seen'[p] = snapshot /\ crashed' = crashed
           /\ \A q \in Passes \ {p} : at'[q] = at[q] /\ seen'[q] = seen[q]
  BY DEF TypeOK, Moves

(* The steps, each as LeaseRenewal's of the same name.                     *)
LEMMA ClaimView ==
    ASSUME Base, DeadRest, FencesHold, [Next]_vars,
           op.policySnapshot = ThePolicy,
           NEW p \in Passes, NEW action \in Actions, Claim(p, action)
    PROVE  \/ Renewal!ClaimExecution(OwnerOf[p], "operation")
           \/ Renewal!Replay(OwnerOf[p], "operation")
           \/ Renewal!ClaimVerification(OwnerOf[p], "operation")
<1>1. /\ op \in Operation /\ now \in Nat /\ Claims(op) \in Nat
      /\ op' = Commit(Claimed(op, action, Claims(op) + 1, OwnerOf[p], LeaseDuration, now), now)
      /\ ClaimAllowed(op, action, Ready, now)
      /\ at[p] = "scanned" /\ LeaseDuration \in Nat \ {0}
  BY RowTyped, EngineAssumption DEF Claim, Mutates
<1>2. Claiming(op, op', action, Claims(op) + 1, OwnerOf[p], now + LeaseDuration)
  BY <1>1, ClaimedShape
<1>3. OwnerOf[p] \in Owners \ crashed
  BY <1>1, EngineAssumption DEF DeadRest, Running
<1>4. op.status \in {"ACCEPTED", "UNKNOWN"}
  BY <1>1 DEF ClaimAllowed, IdleStatuses
<1>5. action = "verification" => op.status = "UNKNOWN"
  BY <1>1 DEF ClaimAllowed
<1>6. Count(op, action) < ThePolicy[action].maxAttempts
  BY <1>1 DEF ClaimAllowed, HasBudget
<1>7. /\ op'.status = (IF action = "execution" THEN "EXECUTING" ELSE "VERIFYING")
      /\ op'.status \in ActiveStatuses /\ Standing' = op'.status
      /\ Holder' = OwnerOf[p]
  BY <1>2 DEF Claiming, ActiveStatuses, TerminalStatuses, Standing, Holder
<1>8. TimeLeft' = LeaseDuration
  <2>1. op'.lease.expiresAt = now + LeaseDuration /\ now' = now
    BY <1>2, ClaimShape DEF Claiming
  <2> QED
    BY <1>1, <1>7, <2>1 DEF TimeLeft
<1>9. Counts' = IF action = "execution"
                THEN [Counts EXCEPT !.executions = @ + 1]
                ELSE [Counts EXCEPT !.verifications = @ + 1]
  BY <1>2 DEF Counts, Claiming
<1>10. Stage' \in {"gone", "waiting"} /\ crashed' = crashed
  <2>1. ASSUME NEW q \in Passes, InFlight(q), seen'[q] = seen[q]
        PROVE  ~Works(q)'
    <3>1. op'.lease.fence = op.fence + 1 /\ op.fence \in Nat
      BY ClaimShape
    <3>2. seen[q].lease.fence \in Nat /\ seen[q].lease.fence <= op.fence
      BY <2>1 DEF Base, PassesHold, Lease, FencesHold
    <3> QED
      BY <2>1, <3>1, <3>2 DEF Works
  <2>2. TypeOK
    BY DEF Base
  <2>3. CASE Returns(p)
    <3>1. /\ at'[p] = "idle" /\ crashed' = crashed
          /\ \A q \in Passes \ {p} : at'[q] = at[q] /\ seen'[q] = seen[q]
      BY <2>2, <2>3, PassMoved DEF Returns
    <3>2. \A q \in Passes : ~Works(q)'
      BY <2>1, <3>1 DEF Works, InFlight
    <3> QED
      BY <3>1, <3>2 DEF Stage
  <2>4. CASE Moves(p, "claimed", op', None)
    <3>1. /\ seen'[p] = op' /\ at'[p] = "claimed" /\ crashed' = crashed
      BY <2>2, <2>4, PassMoved
    <3>2. Works(p)' /\ seen'[p].revision = op'.revision
      BY <1>7, <3>1 DEF Works, InFlight
    <3> QED
      BY <3>1, <3>2 DEF Stage
  <2> QED
    BY <2>3, <2>4 DEF Claim
<1>11. ASSUME NEW to, Standing' = to
       PROVE  Renewal!ClaimCommits(OwnerOf[p], "operation", to)
  BY <1>3, <1>7, <1>8, <1>10, <1>11, RowUpdated DEF Renewal!ClaimCommits
<1>12. CASE action = "execution"
  <2>1. Standing \in {"ACCEPTED", "UNKNOWN"} /\ Standing' = "EXECUTING"
    BY <1>4, <1>7, <1>12 DEF Standing, TerminalStatuses
  <2>2. Counts.executions < ThePolicy.execution.maxAttempts
    BY <1>6, <1>12 DEF Counts, Count
  <2> QED
    BY <1>9, <1>11, <1>12, <2>1, <2>2, RowUpdated
    DEF Renewal!ClaimExecution, Renewal!Replay
<1>13. CASE action = "verification"
  <2>1. Standing = "UNKNOWN" /\ Standing' = "VERIFYING"
    BY <1>5, <1>7, <1>13 DEF Standing, TerminalStatuses
  <2>2. Counts.verifications < ThePolicy.verification.maxAttempts
    BY <1>6, <1>13 DEF Counts, Count
  <2> QED
    BY <1>9, <1>11, <1>13, <2>1, <2>2, RowUpdated DEF Renewal!ClaimVerification
<1> QED
  BY <1>12, <1>13 DEF Actions

LEMMA ResultView ==
    ASSUME Base, FencesHold, [Next]_vars, op.policySnapshot = ThePolicy,
           NEW p \in Passes, CommitResult(p)
    PROVE  Renewal!CommitResult("operation")
<1>1. /\ Settled(op, op') /\ op'.status \notin ActiveStatuses
      /\ Owns(op, Ownership(p), now) /\ op.revision = seen[p].revision /\ InFlight(p)
      /\ crashed' = crashed
  BY CommandShapes DEF CommitResult, Mutates, Committable, InFlight, Returns, Moves
<1>2. /\ now \in Nat /\ op.status \in ActiveStatuses /\ op.lease \in Lease
      /\ Lifecycle!Sound(op')
  BY <1>1, RowTyped, RowNext DEF Owns
<1>3. Stage = "waiting" /\ TimeLeft > 0
  BY <1>1, <1>2 DEF Stage, Works, Owns, Ownership, TimeLeft, Lease
<1>4. Counts' = Counts
  BY <1>1 DEF Settled, Counts
<1>5. Standing' \in {"SETTLED", "UNKNOWN", "ACCEPTED"}
  <2>1. op'.status \in Statuses
    BY RowNext DEF Operation
  <2> QED
    BY <1>1, <2>1 DEF Standing, Statuses, IdleStatuses
<1>6. Standing' = "ACCEPTED" => op.executionCount < ThePolicy.execution.maxAttempts
  <2>1. SUFFICES ASSUME Standing' = "ACCEPTED"
                 PROVE  op'.executionCount < op'.policySnapshot["execution"].maxAttempts
    BY <1>1 DEF Settled
  <2>2. op'.status = "ACCEPTED"
    BY <2>1 DEF Standing
  <2>3. op'.schedule # None /\ op'.schedule.kind = "execution"
    BY <1>2, <2>2 DEF Lifecycle!Sound, Lifecycle!WellFormed, Lifecycle!ScheduleHolds,
       Lifecycle!WorkHasBudget
  <2> QED
    BY <1>2, <2>3 DEF Lifecycle!Sound, Lifecycle!WorkHasBudget, Lifecycle!HasBudget,
       Lifecycle!Count
<1>7. Standing' \in Renewal!Resolutions("operation")
  BY <1>5, <1>6, RowUpdated DEF Renewal!Resolutions, Counts
<1>8. Renewal!Releases("operation", Standing')
  BY <1>1, <1>4, ReleaseView
<1> QED
  BY <1>3, <1>7, <1>8, RowUpdated DEF Renewal!CommitResult

LEMMA DropView ==
    ASSUME Base, FencesHold, NEW p \in Passes, DropResult(p)
    PROVE  Renewal!DropResult("operation") \/ UNCHANGED Renewal!vars
<1>1. /\ InFlight(p) /\ ~InFlight(p)' /\ UNCHANGED <<op, now, crashed>>
      /\ \A q \in Passes \ {p} : at'[q] = at[q] /\ seen'[q] = seen[q]
  <2>1. at'[p] = "idle" /\ \A q \in Passes \ {p} : at'[q] = at[q] /\ seen'[q] = seen[q]
    BY PassMoved DEF DropResult, Returns, Base
  <2> QED
    BY <2>1 DEF DropResult, Returns, Moves, storeVars, InFlight
<1>2. /\ Standing' = Standing /\ Holder' = Holder /\ TimeLeft' = TimeLeft
      /\ Counts' = Counts
  BY <1>1 DEF Standing, Holder, TimeLeft, Counts
<1>3. ASSUME NEW q \in Passes \ {p}
      PROVE  Works(q)' <=> Works(q)
  BY <1>1, <1>3 DEF Works, InFlight
<1>4. CASE Works(p)
  <2>1. Stage # "gone"
    BY <1>4 DEF Stage
  <2>2. \A q \in Passes : ~Works(q)'
    BY <1>1, <1>3, <1>4, OneWorker DEF Works
  <2>3. Stage' = "gone"
    BY <2>2 DEF Stage
  <2> QED
    BY <1>1, <1>2, <2>1, <2>3, RowUpdated DEF Renewal!DropResult
<1>5. CASE ~Works(p)
  <2>1. \A q \in Passes : Works(q)' <=> Works(q)
    BY <1>1, <1>3, <1>5 DEF Works
  <2>2. \A q \in Passes : Works(q) => seen'[q] = seen[q]
    BY <1>1, <1>5
  <2>3. Stage' = Stage
    BY <1>1, <2>1, <2>2 DEF Stage
  <2> QED
    BY <1>1, <1>2, <2>3, ViewStays DEF View
<1> QED
  BY <1>4, <1>5

LEMMA RecoverView ==
    ASSUME Base, DeadRest, NEW p \in Passes, RecoverExpired(p)
    PROVE  Renewal!RecoverExpired(OwnerOf[p], "operation")
<1>1. /\ Settled(op, op') /\ op'.status = "UNKNOWN" /\ RecoverAllowed(op, now)
      /\ at[p] = "scanned" /\ crashed' = crashed
  BY CommandShapes DEF RecoverExpired, Mutates, Returns, Moves
<1>2. now \in Nat /\ op.status \in ActiveStatuses /\ op.lease \in Lease
  BY <1>1, RowTyped DEF RecoverAllowed
<1>3. OwnerOf[p] \in Owners \ crashed
  BY <1>1, EngineAssumption DEF DeadRest, Running
<1>4. Standing \in Renewal!Active /\ TimeLeft = 0
  BY <1>1, <1>2 DEF RecoverAllowed, TimeLeft, Lease, Standing, Renewal!Active,
     ActiveStatuses, TerminalStatuses
<1>5. Renewal!Releases("operation", "UNKNOWN")
  <2>1. Standing' = "UNKNOWN" /\ op'.status \notin ActiveStatuses /\ Counts' = Counts
    BY <1>1 DEF Standing, TerminalStatuses, ActiveStatuses, Settled, Counts
  <2> QED
    BY <1>1, <2>1, ReleaseView
<1> QED
  BY <1>3, <1>4, <1>5, RowUpdated DEF Renewal!RecoverExpired, Renewal!Claimed

LEMMA RenewView ==
    ASSUME ClockJumps = FALSE, Base, DeadRest, SnapshotsHold, SnapshotsHold',
           [Next]_vars, NEW p \in Passes, Renew(p)
    PROVE  Renewal!Renew(OwnerOf[p], "operation")
<1>1. /\ Settled(op, op') /\ op'.status = op.status
      /\ op'.lease.ownerId = op.lease.ownerId /\ op'.lease.fence = op.lease.fence
      /\ op'.lease.expiresAt = now + LeaseDuration
      /\ RenewAllowed(op, Ownership(p), LeaseDuration, now)
      /\ seen[p].lease.ownerId = OwnerOf[p] /\ now + LeaseLead >= seen[p].lease.expiresAt
      /\ op.revision = seen[p].revision /\ at[p] = "scanned" /\ now' = now
      /\ crashed' = crashed
  BY CommandShapes DEF Renew, RenewalDue, Mutates, Returns, Moves
<1>2. /\ now \in Nat /\ op.status \in ActiveStatuses /\ op.lease \in Lease
      /\ LeaseDuration \in Nat \ {0} /\ LeaseLead \in Nat
  BY <1>1, RowTyped, EngineAssumption DEF RenewAllowed, Owns
<1>3. seen[p] = op
  BY <1>1 DEF SnapshotsHold
<1>4. OwnerOf[p] \in Owners \ crashed /\ op.lease.ownerId = OwnerOf[p]
  BY <1>1, <1>3, EngineAssumption DEF DeadRest, Running
<1>5. TimeLeft > 0 /\ TimeLeft <= LeaseLead /\ TimeLeft' = LeaseDuration
  BY <1>1, <1>2, <1>3 DEF TimeLeft, RenewAllowed, Owns, Lease
<1>6. /\ Standing \in Renewal!Active /\ Standing' = Standing
      /\ Holder = OwnerOf[p] /\ Holder' = Holder /\ Counts' = Counts
  BY <1>1, <1>2, <1>4 DEF Standing, Renewal!Active, ActiveStatuses, TerminalStatuses,
     Holder, Counts, Settled
<1>7. Stage' = IF Stage = "gone" THEN "gone" ELSE "overtaken"
  <2>1. \A q \in Passes : /\ InFlight(q)' <=> InFlight(q)
                          /\ InFlight(q) => seen'[q] = seen[q]
    <3>1. at'[p] = "idle" /\ \A q \in Passes \ {p} : at'[q] = at[q] /\ seen'[q] = seen[q]
      BY PassMoved DEF Renew, Returns, Base
    <3> QED
      BY <1>1, <3>1 DEF InFlight
  <2>2. \A q \in Passes : Works(q)' <=> Works(q)
    BY <1>1, <2>1 DEF Works
  <2>3. ASSUME NEW q \in Passes, Works(q)
        PROVE  seen'[q].revision # op'.revision
    <3>1. seen'[q] = seen[q] /\ at[q] # "idle"
      BY <2>1, <2>3 DEF Works, InFlight
    <3>2. seen[q].revision <= op.revision /\ seen[q].revision \in Nat
      BY <3>1 DEF SnapshotsHold, Base, TypeOK, Option, Operation
    <3>3. op'.revision > op.revision /\ op.revision \in Nat /\ op'.revision \in Nat
      <4>1. op' = Commit(Renewed(op, LeaseDuration, now), now) /\ op \in Operation
        BY DEF Renew, Mutates, Base, TypeOK
      <4>2. op'.revision = op.revision + 1 /\ op.revision \in Nat
        BY <4>1 DEF Renewed, Commit, Operation
      <4> QED
        BY <4>2
    <3> QED
      BY <3>1, <3>2, <3>3
  <2> QED
    BY <2>2, <2>3 DEF Stage
<1> QED
  BY <1>1, <1>4, <1>5, <1>6, <1>7, RowUpdated DEF Renewal!Renew, Renewal!Claimed

LEMMA FailView ==
    ASSUME Base, NEW reason, FailLocal(reason)
    PROVE  Renewal!FailLocal("operation")
<1>1. /\ Settled(op, op') /\ op'.status = "FAILED" /\ op.status = "ACCEPTED"
      /\ crashed' = crashed
  BY CommandShapes DEF FailLocal, FailLocalAllowed, passVars
<1>2. /\ Standing = "ACCEPTED" /\ Standing' = "SETTLED"
      /\ op'.status \notin ActiveStatuses /\ Counts' = Counts
  BY <1>1 DEF Standing, TerminalStatuses, ActiveStatuses, Settled, Counts
<1> QED
  BY <1>1, <1>2, ReleaseView, RowUpdated DEF Renewal!FailLocal

(* A schedule is no part of what LeaseRenewal keeps.                       *)
LEMMA ScheduleView ==
    ASSUME Base, NEW schedule, NEW hold, NEW jitter, UpdateScheduling(schedule, hold, jitter)
    PROVE  UNCHANGED Renewal!vars
<1>1. /\ Settled(op, op') /\ op'.status = op.status /\ op.status \notin ActiveStatuses
      /\ crashed' = crashed
  BY CommandShapes
  DEF UpdateScheduling, ScheduleAllowed, IdleStatuses, ActiveStatuses, passVars
<1>2. Standing' = Standing /\ Counts' = Counts
  BY <1>1 DEF Standing, Settled, Counts
<1> QED
  BY <1>1, <1>2, IdleView, ViewStays DEF View

LEMMA CrashView ==
    ASSUME WorkersHold, NEW o \in Owners, Crash(o), crashed' # Owners,
           crashed \subseteq Owners
    PROVE  Renewal!Crash(o)
<1>1. /\ o \notin crashed /\ crashed' = crashed \cup {o} /\ UNCHANGED <<op, now>>
      /\ \A q \in Passes : OwnerOf[q] = o => at'[q] = "idle"
      /\ \A q \in Passes : OwnerOf[q] # o => at'[q] = at[q] /\ seen'[q] = seen[q]
  BY DEF Crash, storeVars
<1>2. /\ Standing' = Standing /\ Holder' = Holder /\ TimeLeft' = TimeLeft
      /\ Counts' = Counts
  BY <1>1 DEF Standing, Holder, TimeLeft, Counts
<1>3. Stage' = IF Holder = o THEN "gone" ELSE Stage
  <2>1. \A q \in Passes : Works(q)' <=> Works(q) /\ OwnerOf[q] # o
    BY <1>1 DEF Works, InFlight
  <2>2. \A q \in Passes : Works(q) => OwnerOf[q] = Holder
    BY DEF WorkersHold, Works, Holder
  <2>3. CASE Holder = o
    BY <2>1, <2>2, <2>3 DEF Stage
  <2>4. CASE Holder # o
    <3>1. \A q \in Passes : Works(q)' <=> Works(q)
      BY <2>1, <2>2, <2>4
    <3>2. \A q \in Passes : Works(q) => seen'[q].revision = seen[q].revision
      BY <1>1, <2>2, <2>4
    <3> QED
      BY <1>1, <2>4, <3>1, <3>2 DEF Stage
  <2> QED
    BY <2>3, <2>4
<1>4. /\ o \in Owners \ crashed /\ Owners \ crashed # {o}
      /\ Owners \ crashed' = (Owners \ crashed) \ {o}
  BY <1>1
<1> QED
  BY <1>2, <1>3, <1>4, RowUpdated DEF Renewal!Crash, OfTheRow

LEMMA TickView ==
    ASSUME Base, ClockJumps = FALSE, NEW t, SetClock(t)
    PROVE  Renewal!Tick \/ UNCHANGED Renewal!vars
<1>1. now \in Nat /\ now' = now + 1 /\ op' = op /\ UNCHANGED passVars
  BY RowTyped DEF SetClock
<1>2. /\ Standing' = Standing /\ Holder' = Holder /\ Counts' = Counts
      /\ crashed' = crashed
  BY <1>1 DEF Standing, Holder, Counts, passVars
<1>3. Stage' = Stage
  BY <1>1, StageStays DEF passVars, InFlight
<1>4. TimeLeft \in Nat /\ TimeLeft' = IF TimeLeft > 0 THEN TimeLeft - 1 ELSE 0
  <2>1. CASE op.status \in ActiveStatuses
    <3>1. op.lease.expiresAt \in Nat
      BY <2>1, RowTyped DEF Lease
    <3> QED
      BY <1>1, <2>1, <3>1 DEF TimeLeft
  <2>2. CASE op.status \notin ActiveStatuses
    BY <1>1, <2>2 DEF TimeLeft
  <2> QED
    BY <2>1, <2>2
<1>5. CASE TimeLeft > 0
  BY <1>2, <1>3, <1>4, <1>5, RowUpdated DEF Renewal!Tick, OfTheRow
<1>6. CASE TimeLeft = 0
  BY <1>2, <1>3, <1>4, <1>6, ViewStays DEF View
<1> QED
  BY <1>4, <1>5, <1>6

(* What moves no pass into or out of its work, and neither row nor clock.  *)
LEMMA IdleSteps ==
    ASSUME Base, NEW p \in Passes, Scan(p) \/ Skip(p) \/ Send(p) \/ Reports(p)
    PROVE  UNCHANGED Renewal!vars
<1>1. PICK state, snapshot, response :
          /\ Moves(p, state, snapshot, response) /\ UNCHANGED <<op, now>>
          /\ \/ ~InFlight(p) /\ state \in {"idle", "scanned"}
             \/ InFlight(p) /\ state \in {"waiting", "answered"} /\ snapshot = seen[p]
  <2>1. CASE Scan(p) \/ Skip(p)
    BY <2>1, Zenon DEF Scan, Skip, Returns, InFlight, storeVars
  <2>2. CASE Send(p)
    BY <2>2, Zenon DEF Send, InFlight, storeVars
  <2>3. CASE Reports(p)
    <3>1. PICK kind, source, scope, retryable : Respond(p, kind, source, scope, retryable)
      BY <2>3, ReportsRespond
    <3> QED
      BY <2>3, <3>1, ReportsRespond, Zenon DEF Respond, InFlight, storeVars
  <2> QED
    BY <2>1, <2>2, <2>3
<1>2. /\ at'[p] = state /\ seen'[p] = snapshot /\ crashed' = crashed
      /\ \A q \in Passes \ {p} : at'[q] = at[q] /\ seen'[q] = seen[q]
  BY <1>1, PassMoved DEF Base
<1>3. \A q \in Passes : /\ InFlight(q)' <=> InFlight(q)
                        /\ InFlight(q) => seen'[q] = seen[q]
  BY <1>1, <1>2 DEF InFlight
<1> QED
  BY <1>1, <1>2, <1>3, QuietView

LEMMA RenewalNext ==
    ASSUME ClockJumps = FALSE, Policies = {ThePolicy}, Base, DeadRest, SnapshotsHold,
           SnapshotsHold', FencesHold, WorkersHold, [Next]_vars, crashed' # Owners
    PROVE  [Renewal!Next]_(Renewal!vars)
<1>0. op.policySnapshot = ThePolicy /\ crashed \subseteq Owners
  BY DEF WorkersHold, Base, TypeOK
<1>1. \A p \in Passes : OwnerOf[p] \in Owners
  BY EngineAssumption
<1>2. ASSUME NEW p \in Passes, NEW action \in Actions, Claim(p, action)
      PROVE  Renewal!Next
  BY <1>0, <1>1, <1>2, ClaimView DEF Renewal!Next
<1>3. ASSUME NEW p \in Passes, CommitResult(p)
      PROVE  Renewal!Next
  BY <1>0, <1>3, ResultView DEF Renewal!Next
<1>4. ASSUME NEW p \in Passes, DropResult(p)
      PROVE  Renewal!Next \/ UNCHANGED Renewal!vars
  BY <1>4, DropView DEF Renewal!Next
<1>5. ASSUME NEW p \in Passes, RecoverExpired(p) \/ Renew(p)
      PROVE  Renewal!Next
  BY <1>1, <1>5, RecoverView, RenewView DEF Renewal!Next
<1>6. ASSUME NEW p \in Passes, Scan(p) \/ Skip(p) \/ Send(p) \/ Reports(p)
      PROVE  UNCHANGED Renewal!vars
  BY <1>6, IdleSteps
<1>7. ASSUME NEW o \in Owners, Crash(o)
      PROVE  Renewal!Next
  BY <1>0, <1>7, CrashView DEF Renewal!Next
<1>8. ASSUME NEW schedule, NEW hold, NEW jitter, UpdateScheduling(schedule, hold, jitter)
      PROVE  UNCHANGED Renewal!vars
  BY <1>8, ScheduleView
<1>9. ASSUME NEW reason, FailLocal(reason)
      PROVE  Renewal!Next
  BY <1>9, FailView DEF Renewal!Next
<1>10. ASSUME NEW t, SetClock(t)
       PROVE  Renewal!Next \/ UNCHANGED Renewal!vars
  BY <1>10, TickView DEF Renewal!Next
<1>11. ASSUME (\E attempt \in sent : Apply(attempt)) \/ UNCHANGED vars
       PROVE  UNCHANGED Renewal!vars
  <2>1. UNCHANGED <<op, now, crashed, at, seen>>
    BY <1>11 DEF Apply, vars, storeVars, passVars
  <2>2. \A q \in Passes : /\ InFlight(q)' <=> InFlight(q)
                          /\ InFlight(q) => seen'[q] = seen[q]
    BY <2>1 DEF InFlight
  <2> QED
    BY <2>1, <2>2, QuietView
<1> QED
  BY <1>2, <1>3, <1>4, <1>5, <1>6, <1>7, <1>8, <1>9, <1>10, <1>11 DEF Next, Reports

LEMMA RenewalInit ==
    ASSUME Init
    PROVE  WorkersHold /\ Renewal!Init
<1>1. PICK policy \in Policies : op = ProposedAcceptance(policy, now)
  BY DEF Init
<1>2. /\ op.policySnapshot = policy /\ op.status = "ACCEPTED"
      /\ op.executionCount = 0 /\ op.verificationCount = 0
  BY <1>1 DEF ProposedAcceptance
<1>3. op.status \notin ActiveStatuses /\ Standing = "ACCEPTED"
  BY <1>2 DEF ActiveStatuses, TerminalStatuses, Standing
<1>4. \A p \in Passes : ~InFlight(p) /\ ~Works(p)
  BY DEF Init, InFlight, Works
<1>5. WorkersHold
  BY <1>2, <1>4 DEF WorkersHold
<1>6. Renewal!Init
  BY <1>2, <1>3, IdleView DEF Renewal!Init, Init, OfTheRow, Counts
<1> QED
  BY <1>5, <1>6

(* As long as an activation is alive, engines whose clock only ticks take  *)
(* only the steps of LeaseRenewal: a claim within its budget, one result   *)
(* per claim and only by the pass that claimed, renewal by the living      *)
(* owner, recovery of what has expired.                                    *)
THEOREM EnginesWorkAsRenewal ==
    ASSUME ClockJumps = FALSE, Policies = {ThePolicy}
    PROVE  Spec => WorksAsRenewal
<1>1. Init => WorkersHold /\ DeadRest /\ SnapshotsHold /\ Renewal!Init
  BY RenewalInit DEF Init, DeadRest, SnapshotsHold
<1>2. Base /\ DeadRest /\ [Next]_vars => DeadRest'
  BY DeadRestNext
<1>3. Base /\ SnapshotsHold /\ [Next]_vars => SnapshotsHold'
  BY SnapshotsNext
<1>4. Base /\ FencesHold /\ WorkersHold /\ [Next]_vars => WorkersHold'
  BY WorkersNext
<1>5. /\ Base /\ DeadRest /\ SnapshotsHold /\ SnapshotsHold' /\ FencesHold /\ WorkersHold
      /\ [Next]_vars
      => [crashed' # Owners => Renewal!Next]_(Renewal!vars)
  BY RenewalNext
<1> QED
  BY <1>1, <1>2, <1>3, <1>4, <1>5, BaseHolds, FencesAlways, PTL DEF Spec, WorksAsRenewal

(* LeaseRenewal's types keep, under its own steps.                         *)
LEMMA RenewalTyped ==
    ASSUME ThePolicy \in RetryPolicy, Renewal!TypeOK, Renewal!Next \/ UNCHANGED Renewal!vars
    PROVE  Renewal!TypeOK'
<1> USE DEF Renewal!TypeOK, Renewal!Idle, Renewal!Active
<1>1. /\ ThePolicy.execution.maxAttempts \in Nat /\ ThePolicy.verification.maxAttempts \in Nat
      /\ LeaseDuration \in Nat \ {0} /\ LeaseLead \in Nat
  BY EngineAssumption DEF RetryPolicy, AttemptPolicy
<1>2. ASSUME NEW to \in {"ACCEPTED", "UNKNOWN", "SETTLED"},
             Renewal!Releases("operation", to)
      PROVE  Renewal!TypeOK'
  BY <1>1, <1>2 DEF Renewal!Releases
<1>3. ASSUME NEW a \in Owners,
             \/ Renewal!ClaimExecution(a, "operation")
             \/ Renewal!Replay(a, "operation")
             \/ Renewal!ClaimVerification(a, "operation")
      PROVE  Renewal!TypeOK'
  BY <1>1, <1>3
  DEF Renewal!ClaimExecution, Renewal!Replay, Renewal!ClaimVerification, Renewal!ClaimCommits
<1>4. ASSUME NEW a \in Owners, Renewal!RecoverExpired(a, "operation")
      PROVE  Renewal!TypeOK'
  BY <1>2, <1>4 DEF Renewal!RecoverExpired
<1>5. ASSUME NEW a \in Owners, Renewal!Renew(a, "operation") \/ Renewal!Crash(a)
      PROVE  Renewal!TypeOK'
  BY <1>1, <1>5 DEF Renewal!Renew, Renewal!Crash
<1>6. ASSUME Renewal!CommitResult("operation") \/ Renewal!FailLocal("operation")
      PROVE  Renewal!TypeOK'
  BY <1>2, <1>6 DEF Renewal!CommitResult, Renewal!FailLocal, Renewal!Resolutions
<1>7. ASSUME Renewal!DropResult("operation") \/ Renewal!Tick
      PROVE  Renewal!TypeOK'
  BY <1>1, <1>7 DEF Renewal!DropResult, Renewal!Tick
<1>8. ASSUME UNCHANGED Renewal!vars
      PROVE  Renewal!TypeOK'
  BY <1>8 DEF Renewal!vars
<1> HIDE DEF Renewal!TypeOK
<1> QED
  BY <1>3, <1>4, <1>5, <1>6, <1>7, <1>8 DEF Renewal!Next

(* Who died stays dead.                                                    *)
LEMMA CrashesStay == [Next]_vars => crashed \subseteq crashed'
<1> SUFFICES ASSUME [Next]_vars, crashed' # crashed
             PROVE  \E o \in Owners : Crash(o)
  BY DEF Crash
<1>1. ASSUME NEW p \in Passes, Reports(p)
      PROVE  crashed' = crashed
  BY <1>1, Zenon
  DEF Reports, ReportUncertain, ReportCompleted, ReportAttemptRefused, ReportRejected,
      ReportAbsent, Respond, Moves
<1>2. ASSUME NEW p \in Passes,
             \/ Scan(p) \/ Skip(p) \/ Send(p) \/ CommitResult(p) \/ DropResult(p)
             \/ RecoverExpired(p) \/ Renew(p) \/ \E action \in Actions : Claim(p, action)
      PROVE  crashed' = crashed
  BY <1>2, Zenon
  DEF Scan, Skip, Send, CommitResult, DropResult, RecoverExpired, Renew, Claim, Returns, Moves
<1>3. ASSUME \/ \E schedule, hold, jitter : UpdateScheduling(schedule, hold, jitter)
             \/ \E reason : FailLocal(reason)
             \/ \E attempt : Apply(attempt)
             \/ \E t : SetClock(t)
             \/ UNCHANGED vars
      PROVE  crashed' = crashed
  BY <1>3, Zenon DEF UpdateScheduling, FailLocal, Apply, SetClock, vars, passVars
<1> QED
  BY <1>1, <1>2, <1>3, Zenon DEF Next, Reports

(* So, while an activation is alive, a row never counts more attempts than *)
(* its policy allows, is held for no longer ahead than leaseDurationMs,    *)
(* and by somebody exactly when it says it is being worked on.             *)
THEOREM EnginesStayInRenewal ==
    ASSUME ClockJumps = FALSE, Policies = {ThePolicy}
    PROVE  Spec => [](crashed # Owners => Renewal!TypeOK)
<1>1. Init => (crashed # Owners => Renewal!TypeOK)
  <2> SUFFICES ASSUME Init, crashed # Owners PROVE Renewal!TypeOK
    OBVIOUS
  <2>1. Renewal!Init
    BY RenewalInit
  <2>2. /\ ThePolicy.execution.maxAttempts \in Nat /\ ThePolicy.verification.maxAttempts \in Nat
        /\ LeaseDuration \in Nat \ {0} /\ crashed = {}
    BY EngineAssumption DEF RetryPolicy, AttemptPolicy, Init
  <2>3. Owners \ crashed \in (SUBSET Owners) \ {{}}
    BY <2>2
  <2> QED
    BY <2>1, <2>2, <2>3 DEF Renewal!Init, Renewal!TypeOK, Renewal!Idle
<1>2. ASSUME Base', [Next]_vars, [crashed' # Owners => Renewal!Next]_(Renewal!vars),
             crashed # Owners => Renewal!TypeOK
      PROVE  (crashed # Owners => Renewal!TypeOK)'
  <2> SUFFICES ASSUME crashed' # Owners PROVE Renewal!TypeOK'
    OBVIOUS
  <2>1. crashed # Owners
    BY <1>2, CrashesStay DEF Base, TypeOK
  <2> QED
    BY <1>2, <2>1, EngineAssumption, RenewalTyped
<1>3. /\ Base' /\ [Next]_vars /\ [crashed' # Owners => Renewal!Next]_(Renewal!vars)
      /\ (crashed # Owners => Renewal!TypeOK)
      => (crashed # Owners => Renewal!TypeOK)'
  BY <1>2
<1>4. Spec => WorksAsRenewal
  BY EnginesWorkAsRenewal
<1> QED
  BY <1>1, <1>3, <1>4, BaseHolds, PTL DEF Spec, WorksAsRenewal
=============================================================================

-------------------------- MODULE OperationEngine --------------------------
(***************************************************************************)
(* Engines at work on one durable operation (packages/core/src/engine.ts). *)
(* Each activation of an engine is an owner; it runs passes of runOnce,    *)
(* several at a time when wakes, reconnections and callers overlap.  A     *)
(* pass reads the row, claims it, calls the transport, and commits what    *)
(* the transport reports, or maintains the lease it finds.  Every await is *)
(* a step boundary: other passes, other activations, the application, the  *)
(* clock, a crash and the backend all move in between.                     *)
(*                                                                         *)
(* The transport and the backend are external.  They are modelled by the   *)
(* contract docs/BACKEND_IDEMPOTENCY.md and ports.ts put on them: evidence *)
(* is honest, and evidence of absence closes the attempts it speaks about. *)
(***************************************************************************)
EXTENDS OperationStateMachine

CONSTANTS
    Passes,           \* passes of runOnce
    OwnerOf,          \* the activation each pass belongs to
    Policies,         \* the retry policies operations are accepted under
    LeaseDuration,    \* leaseDurationMs
    LeaseLead,        \* leaseRenewalLeadMs
    MaxTime,          \* bound: the clock reads 0..MaxTime
    MaxReschedules,   \* bound: how often the application reschedules
    Jitters,          \* jitter samples, as ticks
    ClockJumps,       \* may the wall clock be set, or does it only tick?
    StorageMayFail,   \* may a mutation end as ERROR or INDETERMINATE?
    AbsenceCloses     \* TRUE: "finally not applied" fences earlier requests, as
                      \* the contract asks; FALSE: it is a lookup that found
                      \* nothing, as in the transports under examples/

ASSUME EngineAssumption ==
    /\ OwnerOf \in [Passes -> Owners]
    /\ Policies \subseteq RetryPolicy
    /\ LeaseDuration \in Nat \ {0}
    /\ LeaseLead \in 0..(LeaseDuration - 1)
    /\ MaxTime \in Nat /\ MaxReschedules \in Nat
    /\ Jitters \subseteq Nat
    /\ ClockJumps \in BOOLEAN /\ StorageMayFail \in BOOLEAN /\ AbsenceCloses \in BOOLEAN
    /\ None \notin Result

VARIABLES
    op,           \* the operation's row in the shared store
    now,          \* the device's wall clock
    crashed,      \* activations whose process died
    at,           \* where each pass is
    seen,         \* the snapshot each pass holds
    answer,       \* what the transport returned to each pass
    reschedules,  \* history: how often the application rescheduled
    sent,         \* execution attempts whose request left the device
    closed,       \* attempts the backend will not apply any more
    applied       \* attempts that caused the business effect

storeVars == <<op, now, reschedules>>
passVars == <<at, seen, answer, crashed>>
backendVars == <<sent, closed, applied>>
vars == <<storeVars, passVars, backendVars>>

Times == 0..MaxTime
PassStates == {"idle", "scanned", "claimed", "waiting", "answered"}

Running(p) == OwnerOf[p] \notin crashed

(* The number of claims committed so far, and the identifier of the last.  *)
(* Identifiers are unique for the life of the database                     *)
(* (docs/INTEGRATION.md), so the n-th claim may be said to draw n.         *)
Claims(o) == o.executionCount + o.verificationCount

(* Host facts read when claiming: prerequisites met, a verifier registered,*)
(* the contract attested, the clock trusted only when it cannot jump.      *)
Ready == [credentialsReady |-> TRUE, definitionReady |-> TRUE,
          verifierAvailable |-> TRUE, clockTrusted |-> ~ClockJumps,
          replayContractVersion |-> op.policySnapshot.replay.contractVersion]

Moves(p, state, snapshot, response) ==
    /\ at' = [at EXCEPT ![p] = state]
    /\ seen' = [seen EXCEPT ![p] = snapshot]
    /\ answer' = [answer EXCEPT ![p] = response]
    /\ UNCHANGED crashed

(* Mutant of Returns: the pass keeps what it held.                         *)
ReturnsHolding(p) == Moves(p, "idle", seen[p], answer[p])

Returns(p) == Moves(p, "idle", None, None)

(* expectedRevision against the row, then the transition and its commit.   *)
(* Engine and storage each read the clock.  Of a claim and a recovery      *)
(* storage asks, of the same row, no less than the engine did, so one      *)
(* reading stands for both; of a renewal only the engine asks whether the  *)
(* lead has begun (RenewalDue).                                            *)
Mutates(p, allowed, next) ==
    /\ op.revision = seen[p].revision
    /\ allowed
    /\ op' = Commit(next, now)
    /\ UNCHANGED <<now, reschedules>>
-----------------------------------------------------------------------------
(* runOnce reads its candidate with scanWork.                              *)
Scan(p) ==
    /\ at[p] = "idle" /\ Running(p)
    /\ op.status \notin TerminalStatuses
    /\ Moves(p, "scanned", op, None)
    /\ UNCHANGED <<storeVars, backendVars>>

(* The candidate is not due, held, fresh, another owner's, or the device   *)
(* is offline; or the mutation below ended as CONFLICT or ERROR.           *)
Skip(p) ==
    /\ at[p] = "scanned"
    /\ Returns(p)
    /\ UNCHANGED <<storeVars, backendVars>>

(* What the engine tests on its snapshot, at its own clock, before asking  *)
(* storage to claim.                                                       *)
Candidate(o, action) ==
    /\ o.status \in IdleStatuses
    /\ o.schedule # None
    /\ o.schedule.kind = action
    /\ o.schedule.at <= now
    /\ action = "verification" => o.status = "UNKNOWN"

(* executeCandidate and verifyCandidate up to the claim. An INDETERMINATE  *)
(* commit that did happen, or a listener that throws out of publish, ends  *)
(* the pass with the row claimed and nobody working on it.                 *)
Claim(p, action) ==
    /\ at[p] = "scanned"
    /\ Candidate(seen[p], action)
    /\ Mutates(p, ClaimAllowed(op, action, Ready, now),
               Claimed(op, action, Claims(op) + 1, OwnerOf[p], LeaseDuration, now))
    /\ \/ Moves(p, "claimed", op', None)
       \/ StorageMayFail /\ Returns(p)
    /\ UNCHANGED backendVars

(* The one transport call of a committed claim.                            *)
Send(p) ==
    /\ at[p] = "claimed"
    /\ Moves(p, "waiting", seen[p], None)
    /\ sent' = IF seen[p].status = "EXECUTING" THEN sent \cup {seen[p].activeAttempt.id}
                                              ELSE sent
    /\ UNCHANGED <<storeVars, closed, applied>>

(* transportResult and verificationResult: an answer, or an exception.     *)
Respond(p, kind, source, scope, retryable) ==
    /\ Moves(p, "answered", seen[p],
             [kind |-> kind, retryable |-> retryable,
              evidence |-> [attemptId |-> seen[p].activeAttempt.id,
                            source |-> source, scope |-> scope]])
    /\ UNCHANGED <<storeVars, sent, applied>>

ReportUncertain(p) ==
    /\ at[p] = "waiting"
    /\ \E kind \in IF seen[p].status = "EXECUTING" THEN {"AMBIGUOUS"}
                                                   ELSE {"PENDING", "INCONCLUSIVE"} :
          Respond(p, kind, "LOCAL", "ATTEMPT", FALSE)
    /\ UNCHANGED closed

ReportCompleted(p) ==
    /\ at[p] = "waiting"
    /\ applied # {}
    /\ Respond(p, "CONFIRMED_COMPLETED", "BACKEND", "OPERATION", FALSE)
    /\ UNCHANGED closed

(* This request had no effect and will have none.                          *)
ReportAttemptRefused(p) ==
    LET attempt == seen[p].activeAttempt.id
    IN  /\ at[p] = "waiting"
        /\ seen[p].status = "EXECUTING"
        /\ attempt \notin applied
        /\ \/ \E retryable \in BOOLEAN :
                 Respond(p, "NOT_APPLIED", "BACKEND", "ATTEMPT", retryable)
           \/ Respond(p, "CONFIRMED_REJECTED", "BACKEND", "ATTEMPT", FALSE)
        /\ closed' = closed \cup {attempt}

(* The operation is refused for good.                                      *)
ReportRejected(p) ==
    /\ at[p] = "waiting"
    /\ applied = {}
    /\ Respond(p, "CONFIRMED_REJECTED", "BACKEND", "OPERATION", FALSE)
    /\ closed' = closed \cup 1..seen[p].activeAttempt.id

(* No attempt so far had an effect; under the contract none will.  The     *)
(* example transports answer this, always retryable, to any 404.           *)
ReportAbsent(p) ==
    /\ at[p] = "waiting"
    /\ seen[p].status = "VERIFYING"
    /\ applied = {}
    /\ \E retryable \in IF AbsenceCloses THEN BOOLEAN ELSE {TRUE} :
          Respond(p, "FINAL_NOT_APPLIED", "BACKEND", "OPERATION", retryable)
    /\ closed' = IF AbsenceCloses THEN closed \cup 1..seen[p].activeAttempt.id ELSE closed

Ownership(p) == [ownerId |-> seen[p].lease.ownerId, fence |-> seen[p].lease.fence,
                 attemptId |-> seen[p].activeAttempt.id]

Committable(p) ==
    /\ op.revision = seen[p].revision
    /\ Owns(op, Ownership(p), now)
    /\ ResultAccepted(op, answer[p])

(* commitTransition, once; whatever its outcome the pass goes on.          *)
CommitResult(p) ==
    /\ at[p] = "answered"
    /\ \E jitter \in Jitters :
          Mutates(p, Committable(p), Resolved(op, answer[p], None, jitter, now))
    /\ Returns(p)
    /\ UNCHANGED backendVars

DropResult(p) ==
    /\ at[p] = "answered"
    /\ StorageMayFail \/ ~Committable(p)
    /\ Returns(p)
    /\ UNCHANGED <<storeVars, backendVars>>

(* maintainLease.                                                          *)
RecoverExpired(p) ==
    /\ at[p] = "scanned"
    /\ seen[p].status \in ActiveStatuses
    /\ now >= seen[p].lease.expiresAt
    /\ \E jitter \in Jitters :
          Mutates(p, RecoverAllowed(op, now), Recovered(op, now, jitter))
    /\ Returns(p)
    /\ UNCHANGED backendVars

(* The lease has not expired, but the time to renew it has come, by a      *)
(* reading the clock may have been set away from when storage reads it.    *)
RenewalDue(p) ==
    \E reading \in IF ClockJumps THEN Times ELSE {now} :
        /\ reading < seen[p].lease.expiresAt
        /\ reading + LeaseLead >= seen[p].lease.expiresAt

(* Mutant of Renew: any activation renews, not only the lease's own.       *)
RenewAnyones(p) ==
    /\ at[p] = "scanned"
    /\ seen[p].status \in ActiveStatuses
    /\ RenewalDue(p)
    /\ Mutates(p, RenewAllowed(op, Ownership(p), LeaseDuration, now),
               Renewed(op, LeaseDuration, now))
    /\ Returns(p)
    /\ UNCHANGED backendVars

Renew(p) ==
    /\ at[p] = "scanned"
    /\ seen[p].status \in ActiveStatuses
    /\ seen[p].lease.ownerId = OwnerOf[p]
    /\ RenewalDue(p)
    /\ Mutates(p, RenewAllowed(op, Ownership(p), LeaseDuration, now),
               Renewed(op, LeaseDuration, now))
    /\ Returns(p)
    /\ UNCHANGED backendVars

(* The process of an activation dies with all its passes.                  *)
Crash(o) ==
    /\ o \notin crashed
    /\ crashed' = crashed \cup {o}
    /\ at' = [p \in Passes |-> IF OwnerOf[p] = o THEN "idle" ELSE at[p]]
    /\ seen' = [p \in Passes |-> IF OwnerOf[p] = o THEN None ELSE seen[p]]
    /\ answer' = [p \in Passes |-> IF OwnerOf[p] = o THEN None ELSE answer[p]]
    /\ UNCHANGED <<storeVars, backendVars>>

(* The application, through updateScheduling and commitTransition.         *)
UpdateScheduling(schedule, holdReason, jitter) ==
    /\ reschedules < MaxReschedules
    /\ ScheduleAllowed(op, schedule, holdReason, jitter)
    /\ op' = Commit(Scheduled(op, schedule, holdReason), now)
    /\ reschedules' = reschedules + 1
    /\ UNCHANGED <<now, passVars, backendVars>>

FailLocal(reason) ==
    /\ FailLocalAllowed(op, reason)
    /\ op' = Commit(Failed(op, reason), now)
    /\ UNCHANGED <<now, reschedules, passVars, backendVars>>

(* A request arrives, late or not, and has its effect; an idempotent       *)
(* backend gives an operation one effect however many requests arrive.     *)
(* It never forgets the operation here; ReplayWindow has one that does.    *)
Apply(attempt) ==
    /\ attempt \in sent \ (closed \cup applied)
    /\ op.policySnapshot.replay.kind # "NONE" => applied = {}
    /\ applied' = applied \cup {attempt}
    /\ UNCHANGED <<storeVars, passVars, sent, closed>>

SetClock(t) ==
    /\ ClockJumps \/ t = now + 1
    /\ now' = t
    /\ UNCHANGED <<op, reschedules, passVars, backendVars>>

Init ==
    /\ now = 0
    /\ \E policy \in Policies : op = ProposedAcceptance(policy, now)
    /\ crashed = {}
    /\ at = [p \in Passes |-> "idle"]
    /\ seen = [p \in Passes |-> None]
    /\ answer = [p \in Passes |-> None]
    /\ reschedules = 0
    /\ sent = {} /\ closed = {} /\ applied = {}

Next ==
    \/ \E p \in Passes :
          \/ Scan(p) \/ Skip(p) \/ Send(p)
          \/ \E action \in Actions : Claim(p, action)
          \/ ReportUncertain(p) \/ ReportCompleted(p) \/ ReportAttemptRefused(p)
          \/ ReportRejected(p) \/ ReportAbsent(p)
          \/ CommitResult(p) \/ DropResult(p)
          \/ RecoverExpired(p) \/ Renew(p)
    \/ \E o \in Owners : Crash(o)
    \/ \E schedule \in Option([kind : Actions, at : Times]),
          hold \in Option(HoldReasons), jitter \in Jitters :
             UpdateScheduling(schedule, hold, jitter)
    \/ \E reason \in Failures : FailLocal(reason)
    \/ \E attempt \in sent : Apply(attempt)
    \/ \E t \in Times : SetClock(t)

Spec == Init /\ [][Next]_vars
-----------------------------------------------------------------------------
TypeOK ==
    /\ op \in Operation
    /\ now \in Nat
    /\ crashed \subseteq Owners
    /\ at \in [Passes -> PassStates]
    /\ seen \in [Passes -> Option(Operation)]
    /\ answer \in [Passes -> Option(Result)]
    /\ reschedules \in 0..MaxReschedules
    /\ sent \subseteq Nat /\ closed \subseteq Nat /\ applied \subseteq sent
    /\ \A p \in Passes : /\ seen[p] = None <=> at[p] = "idle"
                         /\ answer[p] = None <=> at[p] # "answered"

(* The business effect happens at most once, whatever crashes, expires or  *)
(* is renewed, and however late a request of an abandoned attempt arrives. *)
AtMostOneEffect == \A a, b \in applied : a = b

(* What the row says of the outcome stays true: COMPLETED has its effect;  *)
(* FAILED, and ACCEPTED (free to be retried or failed by the application), *)
(* have none and no request still under way can give them one.             *)
OutcomeIsTrue ==
    /\ op.status = "COMPLETED" => applied # {}
    /\ op.status \in {"ACCEPTED", "FAILED"} =>
          applied = {} /\ 1..Claims(op) \cap sent \subseteq closed

(* The same for FAILED alone, without the requests under way.              *)
FailedHasNoEffect == op.status = "FAILED" => applied = {}

(* The passes between the commit of a claim and the commit of its result.  *)
InFlight(p) == at[p] \in {"claimed", "waiting", "answered"}

(* A pass decides on a snapshot it read awaits ago and names its revision  *)
(* when it commits: whoever changed the row in between, the revision is    *)
(* still the same only if the whole row is.                                *)
SnapshotIsRow ==
    \A p \in Passes : (at[p] # "idle" /\ seen[p].revision = op.revision) => seen[p] = op

(* However the wall clock is set, and with an activation's own passes      *)
(* overlapping, at most one pass between claim and commit passes the       *)
(* row's ownership check.                                                  *)
OneOwner ==
    \A p, q \in Passes :
        (/\ InFlight(p) /\ Owns(op, Ownership(p), now)
         /\ InFlight(q) /\ Owns(op, Ownership(q), now)) => p = q

(* While the clock only ticks, at most one pass may take its lease to be   *)
(* current, and if one does the row is still its own.                      *)
OneLiveLease ==
    \A p \in Passes :
        (InFlight(p) /\ now < seen[p].lease.expiresAt) =>
            /\ Owns(op, Ownership(p), now)
            /\ \A q \in Passes \ {p} : InFlight(q) => now >= seen[q].lease.expiresAt

(* Once an activation has died nobody prolongs the lease it left, whatever *)
(* snapshots the passes of others still hold: it ends with the claim.      *)
DeadLeasesRunOut ==
    [][(/\ op.status \in ActiveStatuses /\ op.lease.ownerId \in crashed
        /\ op'.status \in ActiveStatuses) => op'.lease = op.lease]_vars

(* ARCHITECTURE.md, section 9: a result whose commit fails is committed    *)
(* again as long as the lease is current.  No pass lets go of a result     *)
(* while the row is still under its owner, fence, attempt and live lease,  *)
(* unless that result was what changed the row.                            *)
OwnedResultIsRecorded ==
    [][\A p \in Passes :
          (/\ at[p] = "answered" /\ at'[p] = "idle"
           /\ crashed' = crashed
           /\ Owns(op, Ownership(p), now))
             => op' # op]_vars

(* Of a row and the passes at work on it, what LeaseRenewal speaks of: the *)
(* state, whose lease it is under and what time that has left, and how far *)
(* on the pass is that claimed it.                                         *)
ThePolicy == CHOOSE policy \in Policies : TRUE
Standing == IF op.status \in TerminalStatuses THEN "SETTLED" ELSE op.status
Holder == IF op.status \in ActiveStatuses THEN op.lease.ownerId ELSE None
TimeLeft ==
    IF op.status \in ActiveStatuses /\ now < op.lease.expiresAt
    THEN op.lease.expiresAt - now ELSE 0
Works(p) ==
    op.status \in ActiveStatuses /\ InFlight(p) /\ seen[p].lease.fence = op.lease.fence
Stage ==
    IF \E p \in Passes : Works(p) /\ seen[p].revision = op.revision THEN "waiting"
    ELSE IF \E p \in Passes : Works(p) THEN "overtaken" ELSE "gone"
Counts == [executions |-> op.executionCount, verifications |-> op.verificationCount]
OfTheRow(value) == [o \in {"operation"} |-> value]

Renewal == INSTANCE LeaseRenewal WITH
    Operations <- {"operation"}, Activations <- Owners, Lead <- LeaseLead,
    MaxExecutions <- ThePolicy.execution.maxAttempts,
    MaxVerifications <- ThePolicy.verification.maxAttempts,
    status <- OfTheRow(Standing), owner <- OfTheRow(Holder), left <- OfTheRow(TimeLeft),
    pass <- OfTheRow(Stage), counts <- OfTheRow(Counts), alive <- Owners \ crashed

(* While the clock only ticks, engines under one policy take no step that  *)
(* LeaseRenewal leaves out, as long as some activation is alive:           *)
(* what must happen under its fairness must happen to them under the same. *)
WorksAsRenewal ==
    Renewal!Init /\ [][crashed' # Owners => Renewal!Next]_(Renewal!vars)
=============================================================================

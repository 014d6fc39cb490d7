---------------------------- MODULE LeaseRenewal -----------------------------
(***************************************************************************)
(* Whether claimed work ever comes free (OperationEngine.maintainLease and *)
(* the passes of packages/core/src/engine.ts).  Several operations, several*)
(* activations of the engine.  A lease is the time it has left, so the     *)
(* clock has no bound; it only moves forward here.  Of an operation only   *)
(* its status, its lease and its counters are kept, of the pass that       *)
(* claimed it only whether it is still there and what it read still        *)
(* current; passes that claim nothing are single steps.  OperationEngine,  *)
(* where all of this is spelled out, is shown to take no other steps.      *)
(***************************************************************************)
EXTENDS Naturals, FiniteSets

CONSTANTS
    None,
    Operations, Activations,
    LeaseDuration, Lead,               \* leaseDurationMs, leaseRenewalLeadMs in ticks
    MaxExecutions, MaxVerifications    \* maxAttempts of the two policies

ASSUME LeaseAssumption ==
    /\ LeaseDuration \in Nat \ {0} /\ Lead \in 0 .. LeaseDuration - 1
    /\ MaxExecutions \in Nat \ {0} /\ MaxVerifications \in Nat
    /\ None \notin Activations

VARIABLES
    status,     \* per operation; SETTLED is COMPLETED or FAILED
    owner,      \* per operation: whose lease it is under, or None
    left,       \* per operation: ticks until its lease expires
    pass,       \* per operation: is the pass that claimed it still at work,
                \* and was the lease renewed under its feet?
    counts,     \* per operation: executionCount and verificationCount
    alive       \* the activations that have not died

vars == <<status, owner, left, pass, counts, alive>>

Idle == {"ACCEPTED", "UNKNOWN"}
Active == {"EXECUTING", "VERIFYING"}
Claimed(o) == status[o] \in Active

TypeOK ==
    /\ status \in [Operations -> Idle \cup Active \cup {"SETTLED"}]
    /\ owner \in [Operations -> Activations \cup {None}]
    /\ left \in [Operations -> 0 .. LeaseDuration]
    /\ pass \in [Operations -> {"gone", "waiting", "overtaken"}]
    /\ counts \in [Operations -> [executions : 0 .. MaxExecutions,
                                  verifications : 0 .. MaxVerifications]]
    /\ alive \in (SUBSET Activations) \ {{}}

Init ==
    /\ status = [o \in Operations |-> "ACCEPTED"]
    /\ owner = [o \in Operations |-> None]
    /\ left = [o \in Operations |-> 0]
    /\ pass = [o \in Operations |-> "gone"]
    /\ counts = [o \in Operations |-> [executions |-> 0, verifications |-> 0]]
    /\ alive = Activations
-----------------------------------------------------------------------------
(* A claim commits.  Its pass goes on to the transport, or never learns of *)
(* it (the commit was answered INDETERMINATE), or ends before the request  *)
(* (a listener threw out of publish).                                      *)
ClaimCommits(a, o, to) ==
    /\ a \in alive
    /\ status' = [status EXCEPT ![o] = to]
    /\ owner' = [owner EXCEPT ![o] = a]
    /\ left' = [left EXCEPT ![o] = LeaseDuration]
    /\ \E p \in {"gone", "waiting"} : pass' = [pass EXCEPT ![o] = p]
    /\ UNCHANGED alive

ClaimExecution(a, o) ==
    /\ status[o] = "ACCEPTED" /\ counts[o].executions < MaxExecutions
    /\ counts' = [counts EXCEPT ![o].executions = @ + 1]
    /\ ClaimCommits(a, o, "EXECUTING")

(* An uncertain operation is executed again, if the application schedules  *)
(* that and the policy permits it.                                         *)
Replay(a, o) ==
    /\ status[o] = "UNKNOWN" /\ counts[o].executions < MaxExecutions
    /\ counts' = [counts EXCEPT ![o].executions = @ + 1]
    /\ ClaimCommits(a, o, "EXECUTING")

(* Mutant of ClaimVerification: the budget is not asked for.               *)
ClaimVerificationUnbounded(a, o) ==
    /\ status[o] = "UNKNOWN"
    /\ counts' = [counts EXCEPT ![o].verifications = @ + 1]
    /\ ClaimCommits(a, o, "VERIFYING")

(* Mutant of ClaimVerification: verifications are not counted.             *)
ClaimVerificationUncounted(a, o) ==
    /\ status[o] = "UNKNOWN" /\ counts[o].verifications < MaxVerifications
    /\ UNCHANGED counts
    /\ ClaimCommits(a, o, "VERIFYING")

ClaimVerification(a, o) ==
    /\ status[o] = "UNKNOWN" /\ counts[o].verifications < MaxVerifications
    /\ counts' = [counts EXCEPT ![o].verifications = @ + 1]
    /\ ClaimCommits(a, o, "VERIFYING")

(* The operation goes on as to, without a lease.                           *)
Releases(o, to) ==
    /\ status' = [status EXCEPT ![o] = to]
    /\ owner' = [owner EXCEPT ![o] = None]
    /\ left' = [left EXCEPT ![o] = 0]
    /\ pass' = [pass EXCEPT ![o] = "gone"]
    /\ UNCHANGED <<counts, alive>>

(* What the transport's answer, once committed, makes of an operation.     *)
Resolutions(o) ==
    {"SETTLED", "UNKNOWN"} \cup
    (IF counts[o].executions < MaxExecutions THEN {"ACCEPTED"} ELSE {})

(* The transport answers and the result is committed, once, under the      *)
(* lease and the revision of the claim.                                    *)
CommitResult(o) ==
    /\ pass[o] = "waiting" /\ left[o] > 0
    /\ \E to \in Resolutions(o) : Releases(o, to)

(* The commit is refused, or storage fails: the pass ends all the same.    *)
DropResult(o) ==
    /\ pass[o] # "gone"
    /\ pass' = [pass EXCEPT ![o] = "gone"]
    /\ UNCHANGED <<status, owner, left, counts, alive>>

(* Any sweep recovers an expired lease, whoever held it.                   *)
RecoverExpired(a, o) ==
    /\ a \in alive /\ Claimed(o) /\ left[o] = 0
    /\ Releases(o, "UNKNOWN")

(* FAIL_LOCAL: the application gives up work that was accepted.            *)
FailLocal(o) ==
    /\ status[o] = "ACCEPTED"
    /\ Releases(o, "SETTLED")

(* Mutant of Renew: any sweep renews, not only the owner's.                *)
RenewAnyones(a, o) ==
    /\ a \in alive /\ Claimed(o)
    /\ left[o] > 0 /\ left[o] <= Lead
    /\ left' = [left EXCEPT ![o] = LeaseDuration]
    /\ pass' = [pass EXCEPT ![o] = IF @ = "gone" THEN "gone" ELSE "overtaken"]
    /\ UNCHANGED <<status, owner, counts, alive>>

(* A sweep renews the leases of its own activation, also those whose pass  *)
(* is no longer there: nothing in the record tells.                        *)
Renew(a, o) ==
    /\ a \in alive /\ Claimed(o) /\ owner[o] = a
    /\ left[o] > 0 /\ left[o] <= Lead
    /\ left' = [left EXCEPT ![o] = LeaseDuration]
    /\ pass' = [pass EXCEPT ![o] = IF @ = "gone" THEN "gone" ELSE "overtaken"]
    /\ UNCHANGED <<status, owner, counts, alive>>

Tick ==
    /\ \E o \in Operations : left[o] > 0
    /\ left' = [o \in Operations |-> IF left[o] > 0 THEN left[o] - 1 ELSE 0]
    /\ UNCHANGED <<status, owner, pass, counts, alive>>

(* A process dies; the host runs another activation, now or later.         *)
Crash(a) ==
    /\ a \in alive /\ alive # {a}
    /\ alive' = alive \ {a}
    /\ pass' = [o \in Operations |-> IF owner[o] = a THEN "gone" ELSE pass[o]]
    /\ UNCHANGED <<status, owner, left, counts>>

Next ==
    \/ \E a \in Activations, o \in Operations :
          \/ ClaimExecution(a, o) \/ Replay(a, o) \/ ClaimVerification(a, o)
          \/ RecoverExpired(a, o) \/ Renew(a, o)
    \/ \E o \in Operations : CommitResult(o) \/ DropResult(o) \/ FailLocal(o)
    \/ Tick
    \/ \E a \in Activations : Crash(a)

(* Time passes, and the host keeps starting passes of some living          *)
(* activation, which recover what has expired: no network, verifier or     *)
(* credentials are asked for.  Nobody need do anything else.               *)
Fairness ==
    /\ WF_vars(Tick)
    /\ \A o \in Operations : WF_vars(\E a \in Activations : RecoverExpired(a, o))

Spec == Init /\ [][Next]_vars /\ Fairness

(* What a property may suppose besides: the passes also take what is due,  *)
(* that is, the device is online, a verifier is registered, credentials    *)
(* are ready and nothing is held; and a call of the transport ends.        *)
(* Nobody need renew in time, have an operation replayed, or crash.        *)
WorkGoesOn ==
    \A o \in Operations :
        /\ WF_vars(\E a \in Activations : ClaimExecution(a, o))
        /\ WF_vars(\E a \in Activations : ClaimVerification(a, o))
        /\ WF_vars(CommitResult(o) \/ DropResult(o))
-----------------------------------------------------------------------------
(* When a worker dies its lease expires and the operation comes free,      *)
(* without any act of the dead, whatever the living renew, and also where  *)
(* nothing can be claimed.                                                 *)
DeadOwnersWorkComesFree ==
    \A o \in Operations :
        (Claimed(o) /\ owner[o] \notin alive) ~> ~Claimed(o)

(* Nothing more will be done for o on its own: it is settled, or uncertain *)
(* with no verification left and nobody who asks for a replay.             *)
AtRest(o) ==
    \/ status[o] = "SETTLED"
    \/ status[o] = "UNKNOWN" /\ counts[o].verifications = MaxVerifications

(* The living owner renews a claim whose pass is gone: it never learned of *)
(* the claim, died on a listener's exception, or had its result dropped.   *)
KeptWithoutPass(o) == Claimed(o) /\ owner[o] \in alive /\ pass[o] = "gone"

(* Recoveries, retries and verifications come to an end: if due work is    *)
(* claimed and calls end, every operation is some day at rest for good,    *)
(* unless a living owner keeps it for ever.                                *)
WorkComesToRest ==
    WorkGoesOn => \A o \in Operations : <>[](AtRest(o) \/ KeptWithoutPass(o))
=============================================================================

---------------------------- MODULE ReplayWindow -----------------------------
(***************************************************************************)
(* Replay under a deduplication window (isReplaySafe in                    *)
(* packages/core/src/retry-policy.ts, called by claim() in                 *)
(* packages/core/src/state-machine.ts).  The device measures the window on *)
(* its own clock from its first claim; the backend keeps a key from the    *)
(* arrival of the request that had the effect; requests take time.  One    *)
(* operation with an idempotency key; of its record only what the decision *)
(* reads is kept.  Leases, due dates and results are OperationEngine's     *)
(* subject.                                                                *)
(***************************************************************************)
EXTENDS RetryPolicy, FiniteSets

CONSTANTS
    Guarantee,      \* the operation's replay guarantee, a DEDUPLICATED one
    MaxExecutions,  \* maxAttempts of the execution policy
    MaxDelay,       \* longest time from a claim to the arrival of its request
    Skews,          \* what the device's clock may be off by
    BaseIsTrusted,  \* is the first claim made with a clock that is right?
    MaxTime         \* bound on the time

(* The integrator's part (ARCHITECTURE.md, section 6): the margin covers   *)
(* the way to the backend.                                                 *)
ASSUME WindowAssumption ==
    /\ Guarantee \in ReplayGuarantee /\ Guarantee.kind = "DEDUPLICATED"
    /\ MaxExecutions \in Nat \ {0}
    /\ MaxDelay \in Nat /\ MaxDelay <= Guarantee.margin
    /\ Skews \subseteq Nat /\ 0 \in Skews
    /\ BaseIsTrusted \in BOOLEAN
    /\ MaxTime \in Nat
    /\ None \notin Nat

VARIABLES
    time,       \* the true time
    skew,       \* the device's clock is time + skew
    status,
    count,      \* executionCount
    firstAt,    \* firstExecutionAt, on the device's clock
    requests,   \* requests under way: their attempt, and when they are lost
    keptAt,     \* when the backend took up the key, or None
    effects     \* how often the effect was caused

device == <<status, count, firstAt>>
vars == <<time, skew, device, requests, keptAt, effects>>

Request == [attempt : 1 .. MaxExecutions, until : Nat]

TypeOK ==
    /\ time \in Nat /\ skew \in Skews
    /\ status \in {"ACCEPTED", "EXECUTING", "UNKNOWN", "SETTLED"}
    /\ count \in 0 .. MaxExecutions
    /\ firstAt \in Nat \cup {None}
    /\ requests \subseteq Request
    /\ keptAt \in Nat \cup {None}
    /\ effects \in Nat

Init ==
    /\ time = 0 /\ skew \in Skews
    /\ status = "ACCEPTED" /\ count = 0 /\ firstAt = None
    /\ requests = {}
    /\ keptAt = None /\ effects = 0
-----------------------------------------------------------------------------
Now == time + skew

(* isClockTrusted() of the host.                                           *)
ClockTrusted == skew = 0

ReplayAllowed ==
    \E version \in ContractVersions :
        IsReplaySafe(Guarantee, Now, firstAt, version, ClockTrusted)

(* Mutant of FirstExecutionAt: every retry starts the window anew.         *)
FirstExecutionAtLast == Now

FirstExecutionAt == IF firstAt = None THEN Now ELSE firstAt

(* Mutant of Claim: the budget is not asked for.                           *)
ClaimUnbudgeted ==
    /\ status = "ACCEPTED" \/ (status = "UNKNOWN" /\ ReplayAllowed)
    /\ BaseIsTrusted /\ firstAt = None => ClockTrusted
    /\ status' = "EXECUTING" /\ count' = count + 1
    /\ firstAt' = FirstExecutionAt
    /\ requests' = requests \cup {[attempt |-> count', until |-> time + MaxDelay]}
    /\ UNCHANGED <<time, skew, keptAt, effects>>

(* An execution is claimed and its request leaves the device.              *)
Claim ==
    /\ status = "ACCEPTED" \/ (status = "UNKNOWN" /\ ReplayAllowed)
    /\ count < MaxExecutions
    /\ BaseIsTrusted /\ firstAt = None => ClockTrusted
    /\ status' = "EXECUTING" /\ count' = count + 1
    /\ firstAt' = FirstExecutionAt
    /\ requests' = requests \cup {[attempt |-> count', until |-> time + MaxDelay]}
    /\ UNCHANGED <<time, skew, keptAt, effects>>

(* The answer is lost, or the lease expires.                               *)
BecomeUncertain ==
    /\ status = "EXECUTING"
    /\ status' = "UNKNOWN"
    /\ UNCHANGED <<time, skew, count, firstAt, requests, keptAt, effects>>

(* The backend confirms the effect.                                        *)
Complete ==
    /\ status \in {"EXECUTING", "UNKNOWN"} /\ effects > 0
    /\ status' = "SETTLED"
    /\ UNCHANGED <<time, skew, count, firstAt, requests, keptAt, effects>>

(* The backend confirms that there is no effect and will be none.          *)
NotApplied ==
    /\ status \in {"EXECUTING", "UNKNOWN"}
    /\ effects = 0 /\ requests = {}
    /\ status' = "ACCEPTED"
    /\ UNCHANGED <<time, skew, count, firstAt, requests, keptAt, effects>>
-----------------------------------------------------------------------------
(* The backend still has the key.                                          *)
KeyKept == keptAt # None /\ time < keptAt + Guarantee.retention

Arrive(q) ==
    /\ requests' = requests \ {q}
    /\ IF KeyKept
       THEN UNCHANGED <<keptAt, effects>>
       ELSE keptAt' = time /\ effects' = effects + 1
    /\ UNCHANGED <<time, skew, device>>

Lose(q) ==
    /\ requests' = requests \ {q}
    /\ UNCHANGED <<time, skew, device, keptAt, effects>>

Tick ==
    /\ time < MaxTime
    /\ \A q \in requests : time < q.until
    /\ time' = time + 1
    /\ UNCHANGED <<skew, device, requests, keptAt, effects>>

(* The device's clock is set, wrong or right.                              *)
SetClock ==
    /\ skew' \in Skews \ {skew}
    /\ UNCHANGED <<time, device, requests, keptAt, effects>>

Next ==
    \/ Claim \/ BecomeUncertain \/ Complete \/ NotApplied
    \/ \E q \in requests : Arrive(q) \/ Lose(q)
    \/ Tick \/ SetClock

Spec == Init /\ [][Next]_vars
-----------------------------------------------------------------------------
(* However often the operation is sent again, and whatever overtakes what, *)
(* no request finds the key forgotten while its predecessor had the effect.*)
EffectOnce == effects <= 1

(* "If the protection expires, the SDK stops using it for replay"          *)
(* (ARCHITECTURE.md, section 6): as long as a replay is allowed, the key   *)
(* will still be kept when its request arrives.                            *)
ReplayIsCovered ==
    status = "UNKNOWN" /\ ReplayAllowed /\ keptAt # None =>
        time + MaxDelay < keptAt + Guarantee.retention
=============================================================================

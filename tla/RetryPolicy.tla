---------------------------- MODULE RetryPolicy ----------------------------
(***************************************************************************)
(* Retry, verification and replay policy of one operation                  *)
(* (packages/core/src/retry-policy.ts).  Everything here is a pure         *)
(* operator.  Milliseconds are natural numbers.  The jitter sample, a real *)
(* number in [0,1] in the code, is a natural number here: the sample that  *)
(* asks for a delay of that many ticks.  A sample past the cap stands for  *)
(* the sample 1.                                                           *)
(***************************************************************************)
EXTENDS Integers

CONSTANTS
    None,               \* null
    ContractVersions    \* versions of the backend's replay contract

Actions == {"execution", "verification"}

(* What validateRetryPolicy lets through. timeoutMs only fills in the      *)
(* deadline handed to the transport, which no code compares with a clock.  *)
AttemptPolicy(minAttempts) ==
    {p \in [maxAttempts : Nat, baseDelay : Nat, maxDelay : Nat] :
        p.maxAttempts >= minAttempts /\ p.baseDelay <= p.maxDelay}

ReplayGuarantee ==
    {g \in [kind : {"NONE", "IDEMPOTENT", "DEDUPLICATED"},
            contractVersion : ContractVersions, retention : Nat, margin : Nat] :
        g.kind = "DEDUPLICATED" => g.margin < g.retention}

RetryPolicy ==
    [execution : AttemptPolicy(1), verification : AttemptPolicy(0),
     replay : ReplayGuarantee]

(* The exponential back-off of the n-th attempt, capped.                   *)
Cap(policy, attempts) ==
    LET grown == policy.baseDelay * 2^(attempts - 1)
    IN  IF grown \in 0..policy.maxDelay THEN grown ELSE policy.maxDelay

(* Mutants of NextRetryAt: Retry-After taken as a delay already served,    *)
(* not taken at all, and jitter that the cap does not limit.               *)
NextRetryAtRelative(policy, attempts, now, jitter, retryAfterAt) ==
    IF retryAfterAt # None THEN retryAfterAt - now ELSE now
NextRetryAtOwnBackoff(policy, attempts, now, jitter, retryAfterAt) ==
    LET cap == Cap(policy, attempts)
    IN  now + (IF jitter <= cap THEN jitter ELSE cap)

NextRetryAtUncapped(policy, attempts, now, jitter, retryAfterAt) ==
    IF retryAfterAt # None /\ retryAfterAt > now + jitter THEN retryAfterAt ELSE now + jitter

(* nextRetryAt: the jittered back-off, or the backend's Retry-After date   *)
(* (None when it gave none) if that is later.                              *)
NextRetryAt(policy, attempts, now, jitter, retryAfterAt) ==
    LET cap == Cap(policy, attempts)
        due == now + (IF jitter <= cap THEN jitter ELSE cap)
    IN  IF retryAfterAt # None /\ retryAfterAt > due THEN retryAfterAt ELSE due

(* Mutant of IsReplaySafe: an attested version is taken for a guarantee.    *)
IsReplayAttested(guarantee, now, firstExecutionAt, contractVersion, clockTrusted) ==
    guarantee.contractVersion = contractVersion

(* isReplaySafe: may an execution whose effect is unknown be sent again?   *)
(* contractVersion is the version the integration attests, or None.  An    *)
(* operation without an idempotency key, which may not be replayed under   *)
(* DEDUPLICATED, has guarantee NONE in the instances.                      *)
IsReplaySafe(guarantee, now, firstExecutionAt, contractVersion, clockTrusted) ==
    /\ guarantee.kind # "NONE"
    /\ guarantee.contractVersion = contractVersion
    /\ guarantee.kind = "DEDUPLICATED" =>
          /\ clockTrusted
          /\ firstExecutionAt # None
          /\ now >= firstExecutionAt
          /\ now - firstExecutionAt < guarantee.retention - guarantee.margin
=============================================================================

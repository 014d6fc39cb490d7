----------------------- MODULE MCOperationLifecycle ------------------------
(* Instances of OperationLifecycle for TLC.                                *)
EXTENDS OperationLifecycle, TLC

CONSTANTS o1, o2    \* owners

Attempts(max, base, delay) == [maxAttempts |-> max, baseDelay |-> base, maxDelay |-> delay]
Guarantee(kind) ==
    [kind |-> kind, contractVersion |-> "v1", retention |-> 3, margin |-> 1]

(* Two executions and one verification under a bounded replay window; an   *)
(* operation that may be neither replayed nor verified; one with a single  *)
(* execution, replayable for ever, and two verifications.                  *)
MCPolicies ==
    {[execution |-> Attempts(2, 1, 2), verification |-> Attempts(1, 1, 1),
      replay |-> Guarantee("DEDUPLICATED")],
     [execution |-> Attempts(2, 0, 0), verification |-> Attempts(0, 0, 0),
      replay |-> Guarantee("NONE")],
     [execution |-> Attempts(1, 1, 1), verification |-> Attempts(2, 1, 2),
      replay |-> Guarantee("IDEMPOTENT")]}

MCReadinesses ==
    {[credentialsReady |-> TRUE, definitionReady |-> TRUE,
      verifierAvailable |-> TRUE, clockTrusted |-> trusted,
      replayContractVersion |-> "v1"] : trusted \in BOOLEAN}
OwnerSymmetry == Permutations({o1, o2})
=============================================================================

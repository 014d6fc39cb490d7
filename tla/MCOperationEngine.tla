------------------------- MODULE MCOperationEngine -------------------------
(* Instances of OperationEngine for TLC: two activations, the first with   *)
(* two overlapping passes.                                                 *)
EXTENDS OperationEngine

CONSTANTS e1, e2, p1, p2, p3

MCOwnerOf == [p \in Passes |-> IF p = p3 THEN e2 ELSE e1]

Attempts(max) == [maxAttempts |-> max, baseDelay |-> 0, maxDelay |-> 0]
PolicyWith(kind) ==
    [execution |-> Attempts(2), verification |-> Attempts(1),
     replay |-> [kind |-> kind, contractVersion |-> "v1", retention |-> 3, margin |-> 1]]

MCPolicies == {PolicyWith("NONE"), PolicyWith("IDEMPOTENT")}
OnlyUnrepeatable == {PolicyWith("NONE")}
=============================================================================

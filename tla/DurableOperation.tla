-------------------------- MODULE DurableOperation ---------------------------
(***************************************************************************)
(* What the SDK promises the application about one operation, without      *)
(* leases, attempts, budgets or schedules (packages/core/src/ports.ts and  *)
(* operation.ts): it is kept from its acceptance on until it is settled,   *)
(* once; what may have happened at the backend is doubtful until the       *)
(* backend itself speaks for the whole operation.                          *)
(***************************************************************************)
VARIABLES
    phase,      \* "absent", "open", "completed" or "failed"
    tried,      \* has an execution been claimed?
    doubt,      \* unresolvedEffect: may it have had its effect unnoticed?
    word        \* the last evidence: of nobody, an attempt, or the operation

vars == <<phase, tried, doubt, word>>

Init == phase = "absent" /\ ~tried /\ ~doubt /\ word = "nobody"

Accept ==
    /\ phase = "absent"
    /\ phase' = "open"
    /\ UNCHANGED <<tried, doubt, word>>

Start ==
    /\ phase = "open"
    /\ tried' = TRUE
    /\ UNCHANGED <<phase, doubt, word>>

(* An attempt ends without the backend's word on the operation.            *)
Doubt ==
    /\ phase = "open" /\ tried
    /\ doubt' = TRUE
    /\ word' \in {word, "attempt", "operation"}
    /\ UNCHANGED <<phase, tried>>

(* The backend speaks for the operation: it happened, or it did not and    *)
(* never will, in which case it may be tried again.                        *)
Settle ==
    /\ phase = "open" /\ tried
    /\ phase' \in {"open", "completed", "failed"}
    /\ doubt' = FALSE
    /\ word' = "operation"
    /\ UNCHANGED tried

(* Nothing is in doubt: the only attempt under way is known to have had no *)
(* effect, or the application gives up.                                    *)
Refuse ==
    /\ phase = "open" /\ ~doubt
    /\ phase' \in {"open", "failed"}
    /\ word' \in {word, "attempt"}
    /\ UNCHANGED <<tried, doubt>>

Next == Accept \/ Start \/ Doubt \/ Settle \/ Refuse

Spec == Init /\ [][Next]_vars
=============================================================================

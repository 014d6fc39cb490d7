-------------------------- MODULE MCOperationStore --------------------------
(* An instance of OperationStore for TLC: two stores, two operations, two  *)
(* intents of which one has an idempotency key.                            *)
EXTENDS OperationStore, TLC

CONSTANTS keyed, plain, key

MCKeyOf == [i \in Intents |-> IF i = keyed THEN key ELSE None]

Interchangeable ==
    Permutations(Stores) \cup Permutations(Ids) \cup Permutations(MutationIds)
=============================================================================

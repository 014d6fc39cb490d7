---------------------------- MODULE MCExpoStore ------------------------------
(* An instance of ExpoStore for TLC: two calls, two operations.            *)
EXTENDS ExpoStore, TLC

CONSTANTS keyed, plain, key

MCKeyOf == [i \in Intents |-> IF i = keyed THEN key ELSE None]

Interchangeable ==
    Permutations(Calls) \cup Permutations(Ids) \cup Permutations(MutationIds)
=============================================================================

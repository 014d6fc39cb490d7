--------------------------- MODULE MCReplayWindow ----------------------------
(* Instances of ReplayWindow for TLC: a key is kept for five ticks, the    *)
(* margin is two.                                                          *)
EXTENDS ReplayWindow

CONSTANT v1

MCGuarantee ==
    [kind |-> "DEDUPLICATED", contractVersion |-> v1, retention |-> 5, margin |-> 2]
=============================================================================

--------------------------- MODULE MCHandleWaits ----------------------------
(* Instances of HandleWaits for TLC: two promises, one watcher that may    *)
(* throw, two passes.                                                      *)
EXTENDS HandleWaits
=============================================================================

--------------------------- MODULE MCLeaseRenewal ---------------------------
(* Instances of LeaseRenewal for TLC: two operations, three activations, a *)
(* lease that may be renewed in its last tick.                             *)
EXTENDS LeaseRenewal
=============================================================================

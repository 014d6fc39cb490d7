----------------------------- MODULE MCWorkScan ------------------------------
(* Instances of WorkScan for TLC: three rows on pages of two, two passes.  *)
EXTENDS WorkScan
=============================================================================

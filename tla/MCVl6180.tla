----------------------------- MODULE MCVl6180 ------------------------------
(* The two range sensors of the stroller.                                   *)
EXTENDS Vl6180

=============================================================================

------------------------------ MODULE MCShake ------------------------------
(* A few shakes: enough for a count, a clear that is undone and a second     *)
(* report.                                                                  *)
EXTENDS Shake

=============================================================================

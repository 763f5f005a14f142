----------------------------- MODULE MCSoftPwm -----------------------------
(* The motor's proportions, with a tick of 500 us: a period of 2000 us that  *)
(* the duty may fill, START and STOP after 1000 us.                          *)
EXTENDS SoftPwm

=============================================================================

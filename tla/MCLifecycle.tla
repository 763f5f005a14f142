---------------------------- MODULE MCLifecycle ----------------------------
(* Two runs, of which the first may leave the motors on, and everything that *)
(* can fail on the way.                                                      *)
EXTENDS Lifecycle

MCBroken  == {"ml", "servo", "iic", "gpio", "thread"}
MCMayFail == {"sw18015", "hlk2411s"}

=============================================================================

----------------------------- MODULE MCChassis -----------------------------
(* Chassis at both sides of its limits, with a device of every kind failing: *)
(* one motor, one line of the H-bridge, the servo and its start.             *)
EXTENDS Chassis

MCSpeeds == {-2001, -2000, -1, 0, 1, 2000, 2001}
MCTurns  == {-45, -40, -39, 0, 39, 40}
MCFaults == {"ml", "rnegative", "servo", "servo_start"}

=============================================================================

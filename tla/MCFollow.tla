------------------------------ MODULE MCFollow ------------------------------
(* Follow with one speed and one turn, and more than one command on the way. *)
EXTENDS Follow

MCSpeeds == {-2000}
MCTurns  == {-39}
OneSpeed == {7}
OneTurn  == {-39}
NoFaults == {}
OneMotorFails == {"mr"}
ServoFault == {"servo"}

=============================================================================

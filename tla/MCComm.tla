------------------------------- MODULE MCComm -------------------------------
(* Comm with two or three connections, and with as many descriptors or one   *)
(* fewer.                                                                   *)
EXTENDS Comm, TLC

CONSTANTS c1, c2, c3

TwoConns == {c1, c2}
ThreeConns == {c1, c2, c3}
Sym == Permutations(ThreeConns)

=============================================================================

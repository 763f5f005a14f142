---------------------------- MODULE MCHlk2411s ----------------------------
(* Payloads that look like a header and like a trailer, three frames: the    *)
(* port may be opened inside the first, and reads may straddle the others.   *)
EXTENDS Hlk2411s

MCPayloads ==
  { [motion |-> 170, low |-> 170, high |-> 85],
    [motion |-> 85, low |-> 85, high |-> 1] }

=============================================================================

--------------------------- MODULE RemoteControl ---------------------------
(***************************************************************************)
(* What the remote control of the stroller promises, with no threads,      *)
(* locks, condition variable or network: the client's newest command is    *)
(* the one in force, a mode switch puts a stop in force, and in remote     *)
(* mode the command in force is applied to the chassis sooner or later,    *)
(* unless the program is being stopped.                                    *)
(***************************************************************************)
EXTENDS Integers

CONSTANT Commands   \* the commands a client can put in force, STOP among them

VARIABLES
  mode,      \* "NONE" until the client chooses, then "AUTO" or "REMOTE"
  cmd,       \* the command in force
  settled,   \* the command in force has been applied to the chassis
  stopped    \* the program has been told to stop

vars == <<mode, cmd, settled, stopped>>

Stop == [cmd |-> "STOP", data |-> 0]

Init ==
  /\ mode = "NONE"
  /\ cmd = [cmd |-> "NONE", data |-> 0]
  /\ settled = FALSE
  /\ stopped = FALSE

Command(c) ==
  /\ cmd' = c
  /\ settled' = FALSE
  /\ UNCHANGED <<mode, stopped>>

SwitchMode(m) ==
  /\ mode' = m
  /\ cmd' = Stop
  /\ settled' = FALSE
  /\ UNCHANGED stopped

Apply ==
  /\ mode = "REMOTE"
  /\ settled' = TRUE
  /\ UNCHANGED <<mode, cmd, stopped>>

Shutdown ==
  /\ stopped' = TRUE
  /\ UNCHANGED <<mode, cmd, settled>>

Next ==
  \/ \E c \in Commands : Command(c)
  \/ \E m \in {"AUTO", "REMOTE"} : SwitchMode(m)
  \/ Apply
  \/ Shutdown

SafeSpec == Init /\ [][Next]_vars

Spec == SafeSpec /\ WF_vars(~stopped /\ Apply)

=============================================================================

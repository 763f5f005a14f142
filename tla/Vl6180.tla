------------------------------- MODULE Vl6180 -------------------------------
(***************************************************************************)
(* The two range sensors, left and right, of                               *)
(* app/src/sensor/sensor_vl6180_op.c.  The chips share one I2C bus and one *)
(* power-up address; the driver takes them out of reset one after the      *)
(* other by their shutdown lines and moves each to an address of its own.  *)
(* The registers that set the measurement up are left out.                 *)
(*                                                                         *)
(* Any transaction on the bus may fail, which iic_reg16_write and          *)
(* iic_reg16_read of app/src/hal/hal_iic.c do not report: they return 0.   *)
(***************************************************************************)
EXTENDS Integers

Chips == {"l", "r"}
iic_addr == [i \in 0..2 |-> <<41, 89, 90>>[i + 1]]   \* 0x29, 0x59, 0x5a
Range == {iic_addr[i] : i \in 0..2}

VARIABLES
  on,         \* per chip: its shutdown line is high
  hw,         \* per chip: the address it answers at when it is on
  addr,       \* per sensor: data->addr
  dest,       \* per sensor: data->dest_addr
  phase,      \* per sensor: "absent", "created", "gone"
  device_cnt,
  step, who,  \* the driver: "idle", or where vl6180_change_addr is, and for whom
  got,        \* per sensor: whose distance was read last, "zero" if nobody's
  failed,     \* history: a transaction of vl6180_change_addr has failed
  cycled      \* history: the sensors disabled since their initialisation

vars == <<on, hw, addr, dest, phase, device_cnt, step, who, got, failed, cycled>>
chipVars == <<on, hw>>
dataVars == <<addr, dest, phase, device_cnt, cycled>>

\* The chips that take part in a transaction with address a.
At(a) == {c \in Chips : on[c] /\ hw[c] = a}

\* The lines float, or are as the last run of the program left them, so that a
\* chip may be on, with any of the addresses.
Init ==
  /\ on \in [Chips -> BOOLEAN] /\ hw \in [Chips -> Range]
  /\ addr = [c \in Chips |-> 0] /\ dest = [c \in Chips |-> 0]
  /\ phase = [c \in Chips |-> "absent"]
  /\ device_cnt = 0
  /\ step = "idle" /\ who = "l"
  /\ got = [c \in Chips |-> "zero"]
  /\ failed = FALSE /\ cycled = {}

-----------------------------------------------------------------------------

\* stlr_sensor_create creates the left one first.
MayInit(c) == step = "idle" /\ phase[c] = "absent" /\ (c = "r" => phase["l"] = "created")

\* Mutant: the chip is not reset first.
Mutant_init_no_reset(c) ==
  /\ MayInit(c)
  /\ on' = [on EXCEPT ![c] = TRUE]
  /\ hw' = [hw EXCEPT ![c] = IF on[c] THEN @ ELSE iic_addr[0]]
  /\ addr' = [addr EXCEPT ![c] = iic_addr[0]]
  /\ device_cnt' = device_cnt + 1
  /\ dest' = [dest EXCEPT ![c] = iic_addr[device_cnt']]
  /\ phase' = [phase EXCEPT ![c] = "created"]
  /\ step' = "write" /\ who' = c
  /\ UNCHANGED <<got, failed, cycled>>

\* Mutant: device_cnt stays at 1.
Mutant_init_same_dest(c) ==
  /\ MayInit(c)
  /\ on' = [on EXCEPT ![c] = TRUE]
  /\ hw' = [hw EXCEPT ![c] = iic_addr[0]]
  /\ addr' = [addr EXCEPT ![c] = iic_addr[0]]
  /\ device_cnt' = 1
  /\ dest' = [dest EXCEPT ![c] = iic_addr[device_cnt']]
  /\ phase' = [phase EXCEPT ![c] = "created"]
  /\ step' = "write" /\ who' = c
  /\ UNCHANGED <<got, failed, cycled>>

\* Lowers the line and, in vl6180_enable, raises it again: the chip is reset.  The
\* result of vl6180_enable is only logged.
vl6180_init(c) ==
  /\ MayInit(c)
  /\ on' = [on EXCEPT ![c] = TRUE]
  /\ hw' = [hw EXCEPT ![c] = iic_addr[0]]
  /\ addr' = [addr EXCEPT ![c] = iic_addr[0]]
  /\ device_cnt' = device_cnt + 1
  /\ dest' = [dest EXCEPT ![c] = iic_addr[device_cnt']]
  /\ phase' = [phase EXCEPT ![c] = "created"]
  /\ step' = "write" /\ who' = c
  /\ UNCHANGED <<got, failed, cycled>>

\* Nothing is done with a sensor before stlr_sensor_create has created both.
Usable(c) ==
  step = "idle" /\ phase[c] = "created" /\ \A d \in Chips : phase[d] # "absent"

\* SENSOR_ENABLE: a chip that was off comes up at its power-up address.
vl6180_enable(c) ==
  /\ Usable(c)
  /\ on' = [on EXCEPT ![c] = TRUE]
  /\ hw' = [hw EXCEPT ![c] = IF on[c] THEN @ ELSE iic_addr[0]]
  /\ step' = "write" /\ who' = c
  /\ UNCHANGED <<dataVars, got, failed>>

\* SENSOR_DISABLE.
vl6180_disable(c) ==
  /\ Usable(c)
  /\ on' = [on EXCEPT ![c] = FALSE]
  /\ cycled' = cycled \cup {c}
  /\ UNCHANGED <<hw, addr, dest, phase, device_cnt, step, who, got, failed>>

vl6180_deinit(c) ==
  /\ Usable(c)
  /\ on' = [on EXCEPT ![c] = FALSE]
  /\ phase' = [phase EXCEPT ![c] = "gone"]
  /\ UNCHANGED <<hw, addr, dest, device_cnt, cycled, step, who, got, failed>>

\* vl6180_change_addr: nothing to do if the driver has moved the chip before.
change_addr_same ==
  /\ step = "write" /\ addr[who] = dest[who]
  /\ step' = "idle"
  /\ UNCHANGED <<chipVars, dataVars, who, got, failed>>

\* The write of the address register, which reaches every chip at addr[who].
change_addr_write ==
  /\ step = "write" /\ addr[who] # dest[who]
  /\ \/ /\ hw' = [c \in Chips |-> IF c \in At(addr[who]) THEN dest[who] ELSE hw[c]]
        /\ UNCHANGED failed
     \/ /\ failed' = TRUE
        /\ UNCHANGED hw
  /\ step' = "check"
  /\ UNCHANGED <<on, dataVars, who, got>>

\* The read back.  When nobody answers recv is not initialised, so that the
\* comparison may turn out either way.
change_addr_check ==
  /\ step = "check"
  /\ \/ /\ At(dest[who]) # {}
        /\ addr' = [addr EXCEPT ![who] = dest[who]]
        /\ UNCHANGED failed
     \/ /\ failed' = (failed \/ At(dest[who]) # {})
        /\ \E a \in {addr[who], dest[who]} : addr' = [addr EXCEPT ![who] = a]
  /\ step' = "idle"
  /\ UNCHANGED <<chipVars, dest, phase, device_cnt, cycled, who, got>>

\* vl6180_start_measure and vl6180_read, as the follow thread calls them in the
\* automatic mode, without waiting for the measurement to be done: a transaction
\* that fails, or that nobody answers, reads as 0.
vl6180_read(c) ==
  /\ Usable(c)
  /\ \E d \in At(addr[c]) \cup {"zero"} : got' = [got EXCEPT ![c] = d]
  /\ UNCHANGED <<chipVars, dataVars, step, who, failed>>

Next ==
  \/ \E c \in Chips :
       \/ vl6180_init(c) \/ vl6180_enable(c) \/ vl6180_disable(c)
       \/ vl6180_deinit(c) \/ vl6180_read(c)
  \/ change_addr_same \/ change_addr_write \/ change_addr_check

Spec == Init /\ [][Next]_vars

-----------------------------------------------------------------------------

TypeOK ==
  /\ on \in [Chips -> BOOLEAN] /\ hw \in [Chips -> Range]
  /\ addr \in [Chips -> Range \cup {0}] /\ dest \in [Chips -> Range \cup {0}]
  /\ phase \in [Chips -> {"absent", "created", "gone"}]
  /\ device_cnt \in 0..2
  /\ step \in {"idle", "write", "check"} /\ who \in Chips
  /\ got \in [Chips -> Chips \cup {"zero"}]
  /\ failed \in BOOLEAN /\ cycled \subseteq Chips

\* If no transaction of vl6180_change_addr fails, a distance read for one side is
\* never the other side's, whatever the chips were doing before the program
\* started, and also after sensors are disabled and enabled again.
NoWrongSide == ~failed => \A c \in Chips : got[c] \in {"zero", c}

\* And both sensors can be read after the program has created them: each driver
\* has its own chip, alone, at the address it uses, as long as the sensor is not
\* disabled.  (A chip that is disabled comes back at the power-up address, and the
\* driver, whose data->addr says otherwise, does not move it again.)
ReachableOnceCreated ==
  ~failed => \A c \in Chips \ cycled : Usable(c) => At(addr[c]) = {c}

-----------------------------------------------------------------------------
(* What makes the two properties inductive.                                *)

\* The address that a sensor is given: the left one is created first.
Own(c) == IF c = "l" THEN iic_addr[1] ELSE iic_addr[2]

OrderInv ==
  /\ phase["l"] = "absent" => phase["r"] = "absent" /\ device_cnt = 0 /\ step = "idle"
  /\ phase["r"] = "absent" => cycled = {} /\ phase["l"] # "gone"
  /\ phase["r"] = "absent" /\ phase["l"] = "created" => device_cnt = 1 /\ who = "l"
  /\ phase["r"] # "absent" => device_cnt = 2
  /\ \A c \in Chips : phase[c] # "absent" => dest[c] = Own(c)
  /\ step # "idle" => phase[who] = "created"

\* The chip and its driver agree, or the chip has come back from a reset.
Settled(c) ==
  /\ addr[c] = Own(c)
  /\ hw[c] \in {iic_addr[0], Own(c)}
  /\ phase[c] = "created" /\ c \notin cycled => on[c] /\ hw[c] = Own(c)

\* vl6180_init is moving the chip, and no other sensor of ours is at its address.
Moving(c) ==
  /\ on[c] /\ addr[c] = iic_addr[0]
  /\ hw[c] = IF step = "write" THEN iic_addr[0] ELSE Own(c)
  /\ cycled = {} /\ IF c = "l" THEN phase["r"] = "absent" ELSE phase["l"] = "created"

AddrInv ==
  \A c \in Chips : phase[c] # "absent" =>
    IF step = "idle" \/ who # c THEN Settled(c)
    ELSE Moving(c) \/ (step = "write" /\ Settled(c))

RangeInv ==
  /\ TypeOK /\ OrderInv
  /\ ~failed => AddrInv
  /\ NoWrongSide

=============================================================================

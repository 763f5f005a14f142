---------------------------- MODULE Vl6180Proofs ----------------------------
(***************************************************************************)
(* The two range sensors never answer for each other.  There is nothing to *)
(* generalise over here; the proof says why it is so.                      *)
(***************************************************************************)
EXTENDS Vl6180, TLAPS

\* The table of addresses.
LEMMA Addresses ==
  /\ iic_addr[0] = 41 /\ iic_addr[1] = 89 /\ iic_addr[2] = 90
  /\ Range = {41, 89, 90}
  /\ Own("l") = 89 /\ Own("r") = 90
  BY DEF iic_addr, Range, Own

\* Every action keeps the types.
LEMMA TypeNext ==
  ASSUME RangeInv, Next
  PROVE  TypeOK'
  <1> USE Addresses DEF RangeInv, TypeOK, Chips, chipVars, dataVars
  <1>1. ASSUME NEW c \in Chips, vl6180_init(c) PROVE TypeOK'
    BY <1>1 DEF vl6180_init, MayInit, OrderInv
  <1>2. ASSUME NEW c \in Chips, vl6180_enable(c) PROVE TypeOK'
    BY <1>2 DEF vl6180_enable
  <1>3. ASSUME NEW c \in Chips, vl6180_disable(c) PROVE TypeOK'
    BY <1>3 DEF vl6180_disable
  <1>4. ASSUME NEW c \in Chips, vl6180_deinit(c) PROVE TypeOK'
    BY <1>4 DEF vl6180_deinit
  <1>5. ASSUME NEW c \in Chips, vl6180_read(c) PROVE TypeOK'
    BY <1>5 DEF vl6180_read, At
  <1>6. CASE change_addr_same BY <1>6 DEF change_addr_same
  <1>7. CASE change_addr_write
    <2>1. dest[who] \in Range
      BY <1>7 DEF change_addr_write, OrderInv, Own
    <2>2. failed' \in BOOLEAN
      BY <1>7, Zenon DEF change_addr_write
    <2>3. hw' \in [Chips -> Range]
      BY <1>7, <2>1 DEF change_addr_write
    <2> QED BY <1>7, <2>2, <2>3 DEF change_addr_write
  <1>8. CASE change_addr_check
    <2>1. failed' \in BOOLEAN
      BY <1>8, Zenon DEF change_addr_check
    <2>2. addr' \in [Chips -> Range \cup {0}]
      BY <1>8 DEF change_addr_check
    <2> QED BY <1>8, <2>1, <2>2 DEF change_addr_check
  <1> QED BY <1>1, <1>2, <1>3, <1>4, <1>5, <1>6, <1>7, <1>8 DEF Next

\* Every action keeps the order in which the sensors come and go.
LEMMA OrderNext ==
  ASSUME RangeInv, Next
  PROVE  OrderInv'
  <1> USE Addresses DEF RangeInv, TypeOK, OrderInv, Own, Chips, chipVars, dataVars
  <1>1. ASSUME NEW c \in Chips, vl6180_init(c) PROVE OrderInv'
    BY <1>1 DEF vl6180_init, MayInit
  <1>2. ASSUME NEW c \in Chips, vl6180_enable(c) PROVE OrderInv'
    BY <1>2 DEF vl6180_enable, Usable
  <1>3. ASSUME NEW c \in Chips, vl6180_disable(c) PROVE OrderInv'
    BY <1>3 DEF vl6180_disable, Usable
  <1>4. ASSUME NEW c \in Chips, vl6180_deinit(c) PROVE OrderInv'
    BY <1>4 DEF vl6180_deinit, Usable
  <1>5. ASSUME NEW c \in Chips, vl6180_read(c) PROVE OrderInv'
    BY <1>5 DEF vl6180_read
  <1>6. CASE change_addr_same BY <1>6 DEF change_addr_same
  <1>7. CASE change_addr_write BY <1>7 DEF change_addr_write
  <1>8. CASE change_addr_check BY <1>8 DEF change_addr_check
  <1> QED BY <1>1, <1>2, <1>3, <1>4, <1>5, <1>6, <1>7, <1>8 DEF Next

\* As long as no transaction fails, a chip of ours is where its driver takes it to
\* be, or at the power-up address.
LEMMA AddrNext ==
  ASSUME RangeInv, Next, ~failed'
  PROVE  AddrInv'
  <1> USE Addresses DEF RangeInv, TypeOK, OrderInv, AddrInv, Settled, Moving, Chips, chipVars,
          dataVars
  <1>1. ASSUME NEW c \in Chips, vl6180_init(c) PROVE AddrInv'
    BY <1>1 DEF vl6180_init, MayInit, Own
  <1>2. ASSUME NEW c \in Chips, vl6180_enable(c) PROVE AddrInv'
    BY <1>2 DEF vl6180_enable, Usable, Own
  <1>3. ASSUME NEW c \in Chips, vl6180_disable(c) PROVE AddrInv'
    BY <1>3 DEF vl6180_disable, Usable, Own
  <1>4. ASSUME NEW c \in Chips, vl6180_deinit(c) PROVE AddrInv'
    BY <1>4 DEF vl6180_deinit, Usable, Own
  <1>5. ASSUME NEW c \in Chips, vl6180_read(c) PROVE AddrInv'
    BY <1>5 DEF vl6180_read, Own
  <1>6. CASE change_addr_same BY <1>6 DEF change_addr_same, Own
  <1>7. CASE change_addr_write BY <1>7 DEF change_addr_write, At, Own
  <1>8. CASE change_addr_check BY <1>8 DEF change_addr_check, At, Own
  <1> QED BY <1>1, <1>2, <1>3, <1>4, <1>5, <1>6, <1>7, <1>8 DEF Next

\* The chips that answer for a settled sensor are its own.
LEMMA AnswersAlone ==
  ASSUME RangeInv, ~failed, NEW c \in Chips, Usable(c)
  PROVE  /\ At(addr[c]) \subseteq {c}
         /\ c \notin cycled => At(addr[c]) = {c}
  <1>1. \A d \in Chips : phase[d] # "absent" /\ step = "idle"
    BY DEF Usable
  <1>2. \A d \in Chips : Settled(d)
    BY <1>1 DEF RangeInv, AddrInv
  <1>3. phase[c] = "created"
    BY DEF Usable
  <1> QED BY <1>2, <1>3, Addresses DEF At, Settled, Chips, Own

\* Reading is the only step that stores a distance.
LEMMA SideNext ==
  ASSUME RangeInv, Next
  PROVE  NoWrongSide'
  <1> SUFFICES ASSUME ~failed' PROVE \A c \in Chips : got'[c] \in {"zero", c}
    BY DEF NoWrongSide
  <1>1. ~failed
    BY DEF Next, vl6180_init, vl6180_enable, vl6180_disable, vl6180_deinit, vl6180_read,
           change_addr_same, change_addr_write, change_addr_check, RangeInv, TypeOK
  <1>2. \A c \in Chips : got[c] \in {"zero", c}
    BY <1>1 DEF RangeInv, NoWrongSide
  <1>3. ASSUME NEW c \in Chips, vl6180_read(c)
        PROVE  \A d \in Chips : got'[d] \in {"zero", d}
    <2>1. At(addr[c]) \subseteq {c}
      BY <1>1, <1>3, AnswersAlone DEF vl6180_read
    <2> QED BY <1>2, <1>3, <2>1 DEF vl6180_read, RangeInv, TypeOK
  <1>4. ASSUME NEW c \in Chips,
               vl6180_init(c) \/ vl6180_enable(c) \/ vl6180_disable(c) \/ vl6180_deinit(c)
        PROVE  UNCHANGED got
    BY <1>4 DEF vl6180_init, vl6180_enable, vl6180_disable, vl6180_deinit
  <1>5. CASE change_addr_same \/ change_addr_write \/ change_addr_check
    BY <1>2, <1>5 DEF change_addr_same, change_addr_write, change_addr_check
  <1> QED BY <1>2, <1>3, <1>4, <1>5 DEF Next

-----------------------------------------------------------------------------

\* The invariant holds whatever the chips were doing before, and
LEMMA RangeInit == Init => RangeInv
  <1> SUFFICES ASSUME Init PROVE RangeInv
    OBVIOUS
  <1>1. failed \in BOOLEAN
    BY Zenon DEF Init
  <1>2. TypeOK
    BY <1>1, Addresses DEF Init, TypeOK, Chips
  <1> QED BY <1>2 DEF Init, RangeInv, OrderInv, AddrInv, NoWrongSide, Chips

\* every step preserves it.
LEMMA RangeInvNext == RangeInv /\ [Next]_vars => RangeInv'
  <1> SUFFICES ASSUME RangeInv, [Next]_vars PROVE RangeInv'
    OBVIOUS
  <1>1. CASE Next
    <2>1. TypeOK' /\ OrderInv' /\ NoWrongSide'
      BY <1>1, TypeNext, OrderNext, SideNext
    <2>2. ~failed' => AddrInv'
      BY <1>1, AddrNext
    <2> QED BY <2>1, <2>2 DEF RangeInv
  <1>2. CASE UNCHANGED vars
    BY <1>2 DEF vars, RangeInv, TypeOK, OrderInv, AddrInv, Settled, Moving, NoWrongSide
  <1> QED BY <1>1, <1>2

\* The inductive invariant: each chip is where its driver takes it to be, or is on
\* its way there, or has come back from a reset at the power-up address.
THEOREM RangeInvariant == Spec => []RangeInv
  BY RangeInit, RangeInvNext, PTL DEF Spec

\* Type correctness; above all, device_cnt never leaves the table of addresses.
THEOREM RangeTypes == Spec => []TypeOK
  <1>1. RangeInv => TypeOK
    BY DEF RangeInv
  <1> QED BY <1>1, RangeInvariant, PTL

\* vl6180_read never stores the other side's distance unless a transaction of
\* vl6180_change_addr has failed.
THEOREM NeverTheWrongSide == Spec => []NoWrongSide
  <1>1. RangeInv => NoWrongSide
    BY DEF RangeInv
  <1> QED BY <1>1, RangeInvariant, PTL

\* And each driver has its own chip, alone, at the address it uses until the sensor
\* is disabled.
THEOREM EachAtItsAddress == Spec => []ReachableOnceCreated
  <1>1. RangeInv => ReachableOnceCreated
    BY AnswersAlone DEF ReachableOnceCreated
  <1> QED BY <1>1, RangeInvariant, PTL

=============================================================================

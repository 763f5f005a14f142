--------------------------- MODULE SoftPwmProofs ---------------------------
(* SoftPwm for every period, duty limit, START delay and number of calls.    *)
EXTENDS SoftPwm, TLAPS

\* An unsigned difference that does not wrap is the difference.
LEMMA NoWrap ==
  ASSUME NEW d \in 0..MaxDuty
  PROVE  (Period - d) % Word = Period - d /\ Period - d \in 0..Period
PROOF
  <1>1. Period - d \in 0..Period /\ Period - d < Word /\ Word > 0
    BY PwmAssumption
  <1> QED
    BY <1>1, PwmAssumption

\* probe leaves the channel disabled and low.
LEMMA InitInv == Init => PwmInv
PROOF
  <1> SUFFICES ASSUME Init PROVE PwmInv
    OBVIOUS
  <1>1. loaded \in BOOLEAN /\ clean \in BOOLEAN
    BY Zenon DEF Init
  <1> QED
    BY <1>1, PwmAssumption DEF Init, Probed, PwmInv, TypeOK, DelayWithinPeriod,
       NeverStalls, RestsLow, Running, Off

\* The invariant is inductive.
LEMMA NextInv == PwmInv /\ [Next]_vars => PwmInv'
PROOF
  <1> SUFFICES ASSUME PwmInv, [Next]_vars
               PROVE  PwmInv'
    OBVIOUS
  <1>0. loaded' \in BOOLEAN /\ clean' \in BOOLEAN
    BY Zenon DEF PwmInv, TypeOK, vars, pulse, Next, Handler, Ioctl, set_duty,
       ioctl_state, ioctl_arm, fire_rising, fire_falling, fire_disabled,
       handler_state, handler_arm, Tick, remove, probe
  <1> USE PwmAssumption, <1>0
      DEF PwmInv, TypeOK, DelayWithinPeriod, NeverStalls, RestsLow, Rest, Running,
          Off, pulse
  <1>1. CASE \E v \in 0..MaxDuty + 1 : set_duty(v)
    BY <1>1 DEF set_duty
  <1>2. CASE \E s \in {"START", "DISABLE"} : ioctl_state(s)
    BY <1>2 DEF ioctl_state
  <1>3. CASE ioctl_arm
    BY <1>3 DEF ioctl_arm
  <1>4. CASE fire_rising
    BY <1>4 DEF fire_rising
  <1>5. CASE fire_falling
    <2>1. hdelay' \in 0..Period
      BY <1>5, NoWrap DEF fire_falling
    <2> QED
      BY <1>5, <2>1 DEF fire_falling
  <1>6. CASE fire_disabled
    BY <1>6 DEF fire_disabled
  <1>7. CASE handler_state
    BY <1>7 DEF handler_state
  <1>8. CASE handler_arm
    BY <1>8 DEF handler_arm
  <1>9. CASE Tick
    BY <1>9 DEF Tick
  <1>10. CASE remove
    BY <1>10 DEF remove
  <1>11. CASE probe
    BY <1>11 DEF probe, Probed
  <1>12. CASE UNCHANGED vars
    BY <1>12 DEF vars
  <1> QED
    BY <1>1, <1>2, <1>3, <1>4, <1>5, <1>6, <1>7, <1>8, <1>9, <1>10, <1>11, <1>12
       DEF Next, Handler, Ioctl

\* The invariant of the software PWM: no delay wraps around, the generator never
\* stalls and a disabled channel at rest is low, in every interleaving of the
\* handler with the ioctls.
THEOREM PwmInvariant == Spec => []PwmInv
BY InitInv, NextInv, PTL DEF Spec

\* pwm_hrtimer_handler never programs a delay longer than the period.
THEOREM DelaySafe == Spec => []DelayWithinPeriod
PROOF
  <1>1. PwmInv => DelayWithinPeriod
    BY DEF PwmInv
  <1> QED
    BY <1>1, PwmInvariant, PTL

\* A running channel always has its timer queued or about to be.
THEOREM GeneratorLives == Spec => []NeverStalls
PROOF
  <1>1. PwmInv => NeverStalls
    BY DEF PwmInv
  <1> QED
    BY <1>1, PwmInvariant, PTL

\* A disabled channel at rest is low.
THEOREM StoppedIsLow == Spec => []RestsLow
PROOF
  <1>1. PwmInv => RestsLow
    BY DEF PwmInv
  <1> QED
    BY <1>1, PwmInvariant, PTL

\* Type correctness of the software PWM.
THEOREM PwmTypes == Spec => []TypeOK
PROOF
  <1>1. PwmInv => TypeOK
    BY DEF PwmInv
  <1> QED
    BY <1>1, PwmInvariant, PTL

\* An undisturbed pulse is as long as the duty read at its rising edge, for every
\* period and duty: the line falls by the timer only, when nothing is left of it.
THEOREM PulsesExact == Spec => PulseExact
PROOF
  <1>1. PwmInv /\ [Next]_vars =>
          [pin = 1 /\ pin' = 0 /\ clean /\ loaded => high = width]_vars
    <2> SUFFICES ASSUME PwmInv, Next, pin = 1, pin' = 0, clean, loaded
                 PROVE  high = width
      OBVIOUS
    <2>1. timer = 0 /\ hpc = "idle"
      <3>1. ~probe
        BY DEF probe
      <3>2. pin' # pin /\ pin' # 1
        OBVIOUS
      <3>3. fire_falling \/ fire_disabled
        BY <3>1, <3>2 DEF pulse, Next, Handler, Ioctl, set_duty, ioctl_state, ioctl_arm,
           fire_rising, handler_state, handler_arm, Tick, remove
      <3> QED
        BY <3>3 DEF fire_falling, fire_disabled
    <2> QED
      BY <2>1 DEF PwmInv, TypeOK, Rest
  <1> QED
    BY <1>1, PwmInvariant, PTL DEF Spec, PulseExact

=============================================================================

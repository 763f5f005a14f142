------------------------------ MODULE SoftPwm ------------------------------
(***************************************************************************)
(* The software PWM of one output line, driven by a high resolution timer: *)
(* drivers/src/motor-spwm.c (two motors) and drivers/src/servo.c, which    *)
(* are the same state machine.  The timer's handler runs in interrupt      *)
(* context and the ioctls in a process, on different CPUs and with no lock *)
(* between them, so both are cut at every access to what they share.       *)
(*                                                                         *)
(* Time is counted in ticks; the pieces of the handler take none.          *)
(***************************************************************************)
EXTENDS Integers

CONSTANTS
  Period,     \* period_us: motor-pwm in overlay.dts, PWM_PERIOD_US in servo.c
  MaxDuty,    \* the largest duty the application passes down (motor.c, servo.c)
  IoctlDelay, \* the 1000 us after which START and STOP take effect
  Word,       \* delays are unsigned: arithmetic is modulo Word
  MaxCalls    \* bound: how many START and STOP calls are made

ASSUME PwmAssumption ==
  /\ Period \in Nat /\ MaxDuty \in 0..Period /\ IoctlDelay \in 1..Period
  /\ Word \in Nat /\ Word > Period
  /\ MaxCalls \in Nat

VARIABLES
  status,   \* data->status, data->servo_state
  duty,     \* data->duty_us
  pin,      \* the level of the line
  timer,    \* ticks until the timer fires, Off if it is not queued
  hpc,      \* the handler: "idle", or the state it is about to store, or "arm"
  hdelay,   \* the delay the handler has computed
  ipc,      \* the ioctl: "idle", or "arm" between its two halves
  calls,    \* START and STOP calls so far
  loaded,   \* the driver is bound to the device (between probe and remove)
  high,     \* history: ticks since the line was raised
  width,    \* history: the duty that was read when the line was raised
  clean     \* history: no START or STOP has been at work since then

pulse == <<high, width, clean>>
vars == <<status, duty, pin, timer, hpc, hdelay, ipc, calls, loaded, pulse>>

Off == -1
Running == {"START", "RISING", "FALLING"}

\* The timer after probe: the servo driver does not start it, the motor driver does.
Probed == {Off, 0}

Init ==
  /\ status = "DISABLE" /\ duty = 0 /\ pin = 0
  /\ timer \in Probed
  /\ hpc = "idle" /\ hdelay = 0
  /\ ipc = "idle" /\ calls = 0
  /\ loaded = TRUE
  /\ high = 0 /\ width = 0 /\ clean = TRUE

-----------------------------------------------------------------------------
(* ioctl.                                                                  *)

\* Mutant: one more than what fits in the period.
Mutant_set_duty(v) ==
  /\ loaded /\ v \in 0..MaxDuty + 1
  /\ duty' = v
  /\ UNCHANGED <<status, pin, timer, hpc, hdelay, ipc, calls, loaded, pulse>>

\* MOTOR_SET_SPEED, SERVO_SET_DUTY: the driver takes any value; the limit is the
\* application's.
set_duty(v) ==
  /\ loaded /\ v \in 0..MaxDuty
  /\ duty' = v
  /\ UNCHANGED <<status, pin, timer, hpc, hdelay, ipc, calls, loaded, pulse>>

\* MOTOR_START and MOTOR_STOP, SERVO_START and SERVO_STOP: start_pwm_hrtimer
\* stores the state, then starts the timer.
ioctl_state(s) ==
  /\ loaded /\ ipc = "idle" /\ calls < MaxCalls
  /\ status' = s
  /\ ipc' = "arm"
  /\ calls' = calls + 1
  /\ clean' = FALSE
  /\ UNCHANGED <<duty, pin, timer, hpc, hdelay, loaded, high, width>>

\* Mutant: the timer is not started.
Mutant_ioctl_arm ==
  /\ ipc = "arm"
  /\ ipc' = "idle"
  /\ UNCHANGED <<status, duty, pin, timer, hpc, hdelay, calls, loaded, pulse>>

\* hrtimer_start: a timer that is queued already starts anew.
ioctl_arm ==
  /\ ipc = "arm"
  /\ timer' = IoctlDelay
  /\ ipc' = "idle"
  /\ clean' = FALSE
  /\ UNCHANGED <<status, duty, pin, hpc, hdelay, calls, loaded, high, width>>

-----------------------------------------------------------------------------
(* The handler.                                                            *)

\* Mutant: the line is raised for the time that it should be low.
Mutant_fire_rising ==
  /\ timer = 0 /\ hpc = "idle" /\ status \in {"START", "RISING"}
  /\ timer' = Off
  /\ pin' = 1
  /\ hdelay' = (Period - duty) % Word
  /\ hpc' = "FALLING"
  /\ high' = 0 /\ width' = duty /\ clean' = TRUE
  /\ UNCHANGED <<status, duty, ipc, calls, loaded>>

\* PWM_START and PWM_RISING: raise the line for duty_us.  A line that is high
\* already, a START having come in its pulse, begins a new one.
fire_rising ==
  /\ timer = 0 /\ hpc = "idle" /\ status \in {"START", "RISING"}
  /\ timer' = Off
  /\ pin' = 1
  /\ hdelay' = duty
  /\ hpc' = "FALLING"
  /\ high' = 0 /\ width' = duty /\ clean' = TRUE
  /\ UNCHANGED <<status, duty, ipc, calls, loaded>>

\* PWM_FALLING: lower it for the rest of the period.
fire_falling ==
  /\ timer = 0 /\ hpc = "idle" /\ status = "FALLING"
  /\ timer' = Off
  /\ pin' = 0
  /\ hdelay' = (Period - duty) % Word
  /\ hpc' = "RISING"
  /\ UNCHANGED <<status, duty, ipc, calls, loaded, pulse>>

\* Mutant: a disabled channel is left as it is.
Mutant_fire_disabled ==
  /\ timer = 0 /\ hpc = "idle" /\ status = "DISABLE"
  /\ timer' = Off
  /\ UNCHANGED <<status, duty, pin, hpc, hdelay, ipc, calls, loaded, pulse>>

\* PWM_DISABLE: lower it for good.
fire_disabled ==
  /\ timer = 0 /\ hpc = "idle" /\ status = "DISABLE"
  /\ timer' = Off
  /\ pin' = 0
  /\ UNCHANGED <<status, duty, hpc, hdelay, ipc, calls, loaded, pulse>>

\* start_pwm_hrtimer, called by the handler.
handler_state ==
  /\ hpc \in {"RISING", "FALLING"}
  /\ status' = hpc
  /\ hpc' = "arm"
  /\ UNCHANGED <<duty, pin, timer, hdelay, ipc, calls, loaded, pulse>>

handler_arm ==
  /\ hpc = "arm"
  /\ timer' = hdelay
  /\ hpc' = "idle" /\ hdelay' = 0
  /\ UNCHANGED <<status, duty, pin, ipc, calls, loaded, pulse>>

Tick ==
  /\ timer > 0 /\ hpc = "idle"
  /\ timer' = timer - 1
  /\ high' = high + pin
  /\ UNCHANGED <<status, duty, pin, hpc, hdelay, ipc, calls, loaded, width, clean>>

-----------------------------------------------------------------------------
(* The module is unloaded and loaded again (script/board_setup.sh), which   *)
(* the kernel allows only while no process has the device open.            *)

\* gpio_free leaves the line at its level, and a handler may still write it;
\* hrtimer_cancel then waits for that handler, so that one step at rest stands for
\* both.
remove ==
  /\ loaded /\ hpc = "idle" /\ ipc = "idle"
  /\ timer' = Off
  /\ loaded' = FALSE
  /\ UNCHANGED <<status, duty, pin, hpc, hdelay, ipc, calls, pulse>>

\* insmod, with no process running that would open the device node before its timer
\* is initialised.
probe ==
  /\ ~loaded
  /\ status' = "DISABLE" /\ duty' = 0 /\ pin' = 0
  /\ timer' \in Probed
  /\ loaded' = TRUE
  /\ UNCHANGED <<hpc, hdelay, ipc, calls, pulse>>

-----------------------------------------------------------------------------

Handler == fire_rising \/ fire_falling \/ fire_disabled \/ handler_state \/ handler_arm

Ioctl ==
  \/ \E v \in 0..MaxDuty + 1 : set_duty(v)
  \/ \E s \in {"START", "DISABLE"} : ioctl_state(s)
  \/ ioctl_arm

Next == Handler \/ Ioctl \/ Tick \/ remove \/ probe

\* Time passes, the interrupt is served and an ioctl that was entered returns.
Fairness == WF_vars(Handler) /\ WF_vars(ioctl_arm) /\ WF_vars(Tick)

Spec == Init /\ [][Next]_vars

FairSpec == Spec /\ Fairness

-----------------------------------------------------------------------------

TypeOK ==
  /\ status \in Running \cup {"DISABLE"}
  /\ duty \in 0..MaxDuty
  /\ pin \in 0..1
  /\ timer \in {Off} \cup 0..Word - 1
  /\ hpc \in {"idle", "RISING", "FALLING", "arm"}
  /\ hdelay \in 0..Word - 1
  /\ ipc \in {"idle", "arm"}
  /\ calls \in 0..MaxCalls
  /\ loaded \in BOOLEAN /\ clean \in BOOLEAN
  /\ high \in Nat /\ width \in 0..MaxDuty

\* period_us - duty_us never wraps around: no delay is longer than a period, so
\* the line cannot be left at a level for what a wrapped one would take, up to the
\* 4.3 s that delay_us * 1000 counts in 32 bits.
DelayWithinPeriod == timer <= Period /\ hdelay <= Period

\* The generator does not die: as long as the channel is not disabled its timer is
\* queued, or somebody is about to queue it, whatever the order in which an ioctl
\* and the handler store the state and start the timer.
NeverStalls ==
  loaded /\ status \in Running => timer # Off \/ hpc # "idle" \/ ipc = "arm"

\* A disabled channel at rest is low: after a STOP that took effect the motor gets
\* no current.
RestsLow ==
  loaded /\ status = "DISABLE" /\ timer = Off /\ hpc = "idle" /\ ipc = "idle" => pin = 0

\* A pulse that no START or STOP disturbs is as long as the duty that was in force
\* when it began, also if the duty is changed meanwhile: the servo holds the angle
\* and the motor gets the power that was asked for.  (Every set_chassis_turn issues
\* a START, which may come in the middle of a pulse.)
PulseExact == [][pin = 1 /\ pin' = 0 /\ clean /\ loaded => high = width]_vars

\* What is left of a pulse: the delay the handler is about to program, then the timer.
Rest == IF hpc = "idle" THEN timer ELSE hdelay

\* The inductive invariant behind these: a line that is high has somebody coming
\* who will lower it, and the rest of an undisturbed pulse is what is missing to its
\* width.
PwmInv ==
  /\ TypeOK /\ DelayWithinPeriod /\ NeverStalls /\ RestsLow
  /\ ~loaded => timer = Off /\ hpc = "idle" /\ ipc = "idle"
  /\ loaded /\ pin = 1 => timer # Off \/ hpc # "idle" \/ ipc = "arm"
  /\ hpc = "RISING" => pin = 0
  /\ loaded /\ clean /\ pin = 1 /\ hpc = "idle" => timer # Off
  /\ loaded /\ clean /\ pin = 1 => high + Rest = width

\* When a STOP works: one that is stored while no handler stands between its test of
\* the state and its store of the next one is not overwritten, and lowers the line in
\* the end, unless a START follows or the driver is removed.  (In between, the handler
\* overwrites it with RISING or FALLING, and the channel runs on.)
StopTakesEffect ==
  status = "DISABLE" /\ hpc \notin {"RISING", "FALLING"} ~>
    pin = 0 \/ status = "START" \/ ~loaded

\* A started channel pulses in the end, if it is not disabled again or removed.
StartedPulses == status = "START" ~> pin = 1 \/ status = "DISABLE" \/ ~loaded

=============================================================================

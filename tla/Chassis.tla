------------------------------ MODULE Chassis ------------------------------
(***************************************************************************)
(* The actuators of the stroller: two drive motors behind an H-bridge      *)
(* whose four inputs are GPIO lines, and a steering servo.  Translated     *)
(* from app/src/actuator/{chassis,motor,servo}.c.                          *)
(*                                                                         *)
(* Every call down to a device may fail (an ioctl returning < 0, a sysfs   *)
(* file that cannot be opened); Faulty is the set of device calls that may *)
(* fail in the instance at hand.  chassis.c is only ever called by one     *)
(* thread at a time, but it talks to its devices one after the other: each *)
(* access to a device is a step of its own, and the process may be killed  *)
(* and started anew between any two.                                       *)
(***************************************************************************)
EXTENDS Integers

CONSTANTS
  Faulty,   \* the device calls that may fail
  Speeds,   \* the arguments set_chassis_speed is called with
  Turns     \* the arguments set_chassis_turn is called with

Motors   == {"ml", "mr"}
Positive == {"lpositive", "rpositive"}
Negative == {"lnegative", "rnegative"}
Pins     == Positive \cup Negative
Devices  == Motors \cup Pins \cup {"servo", "servo_start"}

ASSUME FaultyAssumption == Faulty \subseteq Devices
ASSUME InputAssumption  == Speeds \subseteq Int /\ Turns \subseteq Int

VARIABLES
  speed,      \* chassis->speed, what get_chassis_speed returns
  turn,       \* chassis->turn, what get_chassis_turn returns
  duty,       \* per motor: motor->speed, the duty (us) given to its driver
  pin,        \* per H-bridge input: the level last written
  servoDuty,  \* the pulse width (us) this run has given the servo driver
  servoOn,    \* this run has started the servo driver
  call,       \* the call in progress: "none", "register", "speed" or "turn"
  at,         \* the device it accesses next, "none" between calls
  arg,        \* its argument
  ret,        \* its ret: 0, or negative once a device has refused
  inherited   \* history: the motors that have kept the duty of an earlier run

devVars     == <<duty, pin, servoDuty, servoOn, inherited>>
chassisVars == <<speed, turn, devVars, call, at, arg, ret>>

SPEED_MAX == 2000   \* motor->speed_max, motor->speed_min being 0

Abs(x) == IF x >= 0 THEN x ELSE -x

\* The level of an H-bridge input that drives the wheels in the direction of s;
\* 0 is reverse.
Level(p, s) == IF p \in Positive <=> s > 0 THEN 1 ELSE 0

\* servo_set_angle's conversion of an angle in degrees (45..135) to a pulse width.
ServoDuty(angle) == ((angle - 45) * 1000) \div 90 + 1000

\* Mutant: no limit on the turn, servo_set_angle's own check being wider.
Mutant_turnable(t) == -45 <= t /\ t <= 45

\* The turns set_chassis_turn does not refuse.
Turnable(t) == -40 < t /\ t < 40

\* Mutant: only the left side is switched before the motors are set.
Mutant_After ==
  [register |-> [mr |-> "ml", ml |-> "lpositive", lpositive |-> "lnegative",
                 lnegative |-> "rpositive", rpositive |-> "rnegative",
                 rnegative |-> "none"],
   speed    |-> [lpositive |-> "lnegative", lnegative |-> "ml", ml |-> "mr",
                 mr |-> "rpositive", rpositive |-> "rnegative",
                 rnegative |-> "cache", cache |-> "none"],
   turn     |-> [servo |-> "servo_start", servo_start |-> "none"]]

\* The order in which each call accesses the devices; chassis->speed comes last.
After ==
  [register |-> [mr |-> "ml", ml |-> "lpositive", lpositive |-> "lnegative",
                 lnegative |-> "rpositive", rpositive |-> "rnegative",
                 rnegative |-> "none"],
   speed    |-> [lpositive |-> "lnegative", lnegative |-> "rpositive",
                 rpositive |-> "rnegative", rnegative |-> "ml", ml |-> "mr",
                 mr |-> "cache", cache |-> "none"],
   turn     |-> [servo |-> "servo_start", servo_start |-> "none"]]

-----------------------------------------------------------------------------

\* The chassis as the first chassis_register since power-up leaves it.
ChassisInit ==
  /\ speed = 0 /\ turn = 0
  /\ duty = [m \in Motors |-> 0] /\ inherited = {}
  /\ pin = [p \in Pins |-> 0]
  /\ servoDuty = 0 /\ servoOn = FALSE
  /\ call = "none" /\ at = "none" /\ arg = 0 /\ ret = 0

Enter(c, device, a) == call' = c /\ at' = device /\ arg' = a /\ ret' = 0

Return == call' = "none" /\ at' = "none" /\ arg' = 0 /\ ret' = 0

\* A call goes on from one device to the next, and returns after the last one.
Leaves(device, r) ==
  /\ at = device
  /\ IF After[call][device] = "none" THEN Return
     ELSE at' = After[call][device] /\ ret' = r /\ UNCHANGED <<call, arg>>

\* With USR_OPEN_LOOP, what the cache says.
get_chassis_speed == speed
get_chassis_turn == turn

\* The process is killed, between calls or in the middle of one, and started anew:
\* chassis_register begins, with the devices as they were left.
chassis_register ==
  /\ Enter("register", "mr", 0)
  /\ speed' = 0 /\ turn' = 0 /\ servoDuty' = 0 /\ servoOn' = FALSE
  /\ inherited' = Motors
  /\ UNCHANGED <<duty, pin>>

set_chassis_speed(s) ==
  /\ call = "none" /\ Enter("speed", "lpositive", s)
  /\ UNCHANGED <<speed, turn, devVars>>

set_chassis_turn(t) ==
  /\ call = "none"
  /\ IF Turnable(t) THEN Enter("turn", "servo", t) ELSE UNCHANGED <<call, at, arg, ret>>
  /\ UNCHANGED <<speed, turn, devVars>>

\* chassis_register lowers every line, set_chassis_speed gives it the direction;
\* nobody is told of a failure.
gpio_set_value(p) ==
  /\ Leaves(p, ret)
  /\ \/ pin' = [pin EXCEPT ![p] = IF call = "register" THEN 0 ELSE Level(p, arg)]
     \/ p \in Faulty /\ pin' = pin
  /\ UNCHANGED <<speed, turn, duty, servoDuty, servoOn, inherited>>

\* Mutant: the second motor's result replaces the first's (ret = for ret |=).
Mutant_motor_set_speed(m) ==
  /\ \/ /\ Abs(arg) <= SPEED_MAX /\ Leaves(m, 0)
        /\ duty' = [duty EXCEPT ![m] = Abs(arg)] /\ inherited' = inherited \ {m}
     \/ /\ Abs(arg) > SPEED_MAX \/ m \in Faulty
        /\ Leaves(m, -1) /\ UNCHANGED <<duty, inherited>>
  /\ UNCHANGED <<speed, turn, pin, servoDuty, servoOn>>

\* The motor takes the magnitude of the argument (0 in motor_create, which does not
\* look at the result), or refuses it or fails; the call goes on either way.
motor_set_speed(m) ==
  /\ \/ /\ Abs(arg) <= SPEED_MAX /\ Leaves(m, ret)
        /\ duty' = [duty EXCEPT ![m] = Abs(arg)] /\ inherited' = inherited \ {m}
     \/ /\ Abs(arg) > SPEED_MAX \/ m \in Faulty
        /\ Leaves(m, -1) /\ UNCHANGED <<duty, inherited>>
  /\ UNCHANGED <<speed, turn, pin, servoDuty, servoOn>>

\* chassis->speed follows only if both motors have accepted.
cache_speed ==
  /\ Leaves("cache", ret)
  /\ speed' = IF ret = 0 THEN arg ELSE speed
  /\ UNCHANGED <<turn, devVars>>

\* Mutant: the turn is cached whatever the servo answered.
Mutant_servo_set_angle ==
  /\ Leaves("servo", ret)
  /\ \/ servoDuty' = ServoDuty(arg + 90)
     \/ "servo" \in Faulty /\ servoDuty' = servoDuty
  /\ UNCHANGED <<speed, turn, duty, pin, servoOn, inherited>>

\* A failure ends set_chassis_turn.
servo_set_angle ==
  /\ \/ Leaves("servo", ret) /\ servoDuty' = ServoDuty(arg + 90)
     \/ "servo" \in Faulty /\ at = "servo" /\ Return /\ servoDuty' = servoDuty
  /\ UNCHANGED <<speed, turn, duty, pin, servoOn, inherited>>

\* Its result is not looked at: chassis->turn is set either way.
servo_start ==
  /\ Leaves("servo_start", ret)
  /\ servoOn' = TRUE \/ ("servo_start" \in Faulty /\ servoOn' = servoOn)
  /\ turn' = arg
  /\ UNCHANGED <<speed, duty, pin, servoDuty, inherited>>

\* The next step of the call in progress.
CallStep ==
  \/ \E p \in Pins : gpio_set_value(p)
  \/ \E m \in Motors : motor_set_speed(m)
  \/ cache_speed \/ servo_set_angle \/ servo_start

ChassisNext ==
  \/ \E s \in Speeds : set_chassis_speed(s)
  \/ \E t \in Turns : set_chassis_turn(t)
  \/ CallStep
  \/ chassis_register

ChassisSpec == ChassisInit /\ [][ChassisNext]_chassisVars

-----------------------------------------------------------------------------

\* Where the call in progress is.
Calls ==
  \/ call = "none" /\ at = "none"
  \/ call = "register" /\ at \in Motors \cup Pins
  \/ call = "speed" /\ at \in Motors \cup Pins \cup {"cache"}
  \/ call = "turn" /\ at \in {"servo", "servo_start"}

ChassisTypeOK ==
  /\ speed \in -SPEED_MAX..SPEED_MAX
  /\ turn \in -39..39
  /\ duty \in [Motors -> 0..SPEED_MAX] /\ inherited \subseteq Motors
  /\ pin \in [Pins -> 0..1]
  /\ servoDuty \in Nat
  /\ servoOn \in BOOLEAN
  /\ Calls /\ arg \in Int /\ ret \in {0, -1}

\* What the open-loop cache promises between calls: the speed that
\* get_chassis_speed reports is the duty of a motor whenever no other motor can
\* fail (so of both, if none can), although the other one may by then run at a
\* newer speed; only a motor that has refused every speed of this run, beginning
\* with motor_create's, may still be at one of an earlier run.  And the turn that
\* get_chassis_turn reports is the pulse width the servo was given, if any.
CacheIsTrue ==
  call = "none" =>
    /\ \A m \in Motors \ inherited :
         Faulty \cap Motors \subseteq {m} => duty[m] = Abs(speed)
    /\ servoDuty # 0 => servoDuty = ServoDuty(turn + 90)

\* Even with failing devices, a new cached speed (other than the 0 of a new
\* process) is one both motors run at: a call in which either motor refuses or
\* fails leaves the cache alone.
CacheFollowsBothMotors ==
  [][speed' # speed /\ call' # "register" =>
       \A m \in Motors : duty'[m] = Abs(speed')]_chassisVars

Opposite == [lpositive |-> "lnegative", rpositive |-> "rnegative"]

\* Both inputs of the side with the positive input p work, and both are high.
BothHigh(p) ==
  /\ p \notin Faulty /\ Opposite[p] \notin Faulty
  /\ pin[p] = 1 /\ pin[Opposite[p]] = 1

\* The lines are being written.
Switching == call \in {"register", "speed"} /\ at \in Pins \cup Motors
               /\ (call = "speed" => at \in Pins)

\* What the working lines of the H-bridge show, at every moment and so also to a
\* process that dies there.  When no call is writing them, a call that is already
\* at the motors included, the two sides point the same way and no side has both
\* inputs high.  While set_chassis_speed writes them line by line, a side has both
\* inputs high for one step only, going forward, just before its negative input is
\* lowered.  If the process is killed there the state lasts until the next
\* chassis_register: on one side at most, and by the time the lines are lowered
\* there, each motor that answers has been set to 0.
BridgeConsistent ==
  /\ ~Switching =>
       /\ \A p, q \in Positive \ Faulty : pin[p] = pin[q]
       /\ \A p, q \in Negative \ Faulty : pin[p] = pin[q]
       /\ \A p \in Positive : ~BothHigh(p)
  /\ \A p \in Positive : BothHigh(p) =>
       call = "register" \/ (call = "speed" /\ at = Opposite[p] /\ arg > 0)
  /\ ~(BothHigh("lpositive") /\ BothHigh("rpositive"))
  /\ call = "register" /\ at \in Pins => \A m \in Motors \ inherited : duty[m] = 0

\* The servo is never started without a pulse width, and no pulse it is given
\* leaves the range for turns of less than 40 degrees (servo.c: 1000 to 2000
\* is 45 to 135 degrees), which is inside the 500..2500 that the driver declares.
ServoPulseSafe ==
  /\ servoOn => servoDuty # 0
  /\ servoDuty # 0 => servoDuty \in 1066..1933

-----------------------------------------------------------------------------
(* What makes them inductive: how far the call in progress has got.         *)

\* The lines a call has written when it is at device d, and the motors.
Written(d) == CASE d = "lpositive" -> {}
                [] d = "lnegative" -> {"lpositive"}
                [] d = "rpositive" -> {"lpositive", "lnegative"}
                [] d = "rnegative" -> {"lpositive", "lnegative", "rpositive"}
                [] OTHER           -> Pins

MotorsSet(d) == CASE d = "mr" -> {"ml"} [] d = "cache" -> Motors [] OTHER -> {}

\* The working lines in S point one way at most.
Agree(S) ==
  \A p, q \in S \ Faulty :
    IF p \in Positive <=> q \in Positive THEN pin[p] = pin[q] ELSE pin[p] + pin[q] <= 1

\* The lines agree before a call; in a call, those it has written have its direction
\* and the rest still agree.
BridgeInv ==
  /\ call \in {"none", "turn"} => Agree(Pins)
  /\ call = "speed" =>
       /\ \A p \in Written(at) \ Faulty : pin[p] = Level(p, arg)
       /\ Agree(Pins \ Written(at))
  /\ call = "register" /\ at \in Pins => \A p \in Written(at) \ Faulty : pin[p] = 0
  /\ ~(BothHigh("lpositive") /\ BothHigh("rpositive"))

\* The motors a call has set have its argument, or have made ret negative; the
\* others have what the cache says.
MotorInv ==
  /\ call = "register" =>
       /\ speed = 0 /\ arg = 0
       /\ \A m \in Motors \ inherited : duty[m] = 0
       /\ \A m \in Motors \ Faulty : m \in inherited => at \in {"mr", m}
  /\ call # "register" => inherited \subseteq Faulty
  /\ call = "speed" =>
       /\ \A m \in MotorsSet(at) :
            /\ ret = 0 => Abs(arg) <= SPEED_MAX /\ duty[m] = Abs(arg)
            /\ m \notin Faulty /\ Abs(arg) <= SPEED_MAX => duty[m] = Abs(arg)
       /\ ret # 0 => \E m \in MotorsSet(at) : m \in Faulty \/ Abs(arg) > SPEED_MAX
  /\ \A m \in Motors \ inherited : Faulty \cap Motors \subseteq {m} =>
       duty[m] = IF call = "speed" /\ m \in MotorsSet(at) /\ ret = 0 THEN Abs(arg) ELSE Abs(speed)

\* The servo has the pulse of the cached turn, but between its two accesses.
ServoInv ==
  /\ call = "turn" => Turnable(arg)
  /\ call = "register" => servoDuty = 0
  /\ at = "servo_start" => servoDuty = ServoDuty(arg + 90)
  /\ at # "servo_start" /\ servoDuty # 0 => servoDuty = ServoDuty(turn + 90)

\* Together: inductive.
ChassisInv == ChassisTypeOK /\ BridgeInv /\ MotorInv /\ ServoInv /\ ServoPulseSafe

=============================================================================

--------------------------- MODULE ChassisProofs ---------------------------
(* Chassis for every set of failing devices and all integer arguments, with *)
(* the process killed and started anew anywhere.                            *)
EXTENDS Chassis, TLAPS

\* The magnitude handed to the motors is a natural number.
LEMMA AbsNat ==
  ASSUME NEW s \in Int
  PROVE  /\ Abs(s) \in Nat
         /\ Abs(s) <= SPEED_MAX => /\ s \in -SPEED_MAX..SPEED_MAX
                                   /\ Abs(s) \in 0..SPEED_MAX
BY DEF Abs, SPEED_MAX

\* A turn that set_chassis_turn lets through has a pulse width in the safe range.
LEMMA ServoDutyRange ==
  ASSUME NEW t \in Int, Turnable(t)
  PROVE  /\ t \in -39..39
         /\ ServoDuty(t + 90) \in 1066..1933
BY DEF Turnable, ServoDuty

\* The table of the calls, entry by entry.
LEMMA Order ==
  /\ DOMAIN After = {"register", "speed", "turn"}
  /\ DOMAIN After["register"] = Motors \cup Pins
  /\ DOMAIN After["speed"] = Motors \cup Pins \cup {"cache"}
  /\ DOMAIN After["turn"] = {"servo", "servo_start"}
  /\ After["register"]["mr"] = "ml" /\ After["register"]["ml"] = "lpositive"
  /\ After["register"]["lpositive"] = "lnegative"
  /\ After["register"]["lnegative"] = "rpositive"
  /\ After["register"]["rpositive"] = "rnegative"
  /\ After["register"]["rnegative"] = "none"
  /\ After["speed"]["lpositive"] = "lnegative"
  /\ After["speed"]["lnegative"] = "rpositive"
  /\ After["speed"]["rpositive"] = "rnegative"
  /\ After["speed"]["rnegative"] = "ml" /\ After["speed"]["ml"] = "mr"
  /\ After["speed"]["mr"] = "cache" /\ After["speed"]["cache"] = "none"
  /\ After["turn"]["servo"] = "servo_start" /\ After["turn"]["servo_start"] = "none"
BY DEF After, Motors, Pins, Positive, Negative

\* A step of Leaves goes from a device to the one after it.
LEMMA LeavesTo ==
  ASSUME Calls, NEW d, NEW r, d # "none", Leaves(d, r)
  PROVE  /\ Calls' /\ at = d
         /\ \/ Return
            \/ call' = call /\ arg' = arg /\ ret' = r
         /\ call = "register" =>
              \/ d = "mr" /\ at' = "ml"
              \/ d = "ml" /\ at' = "lpositive"
              \/ d = "lpositive" /\ at' = "lnegative"
              \/ d = "lnegative" /\ at' = "rpositive"
              \/ d = "rpositive" /\ at' = "rnegative"
              \/ d = "rnegative" /\ Return
         /\ call = "speed" =>
              \/ d = "lpositive" /\ at' = "lnegative"
              \/ d = "lnegative" /\ at' = "rpositive"
              \/ d = "rpositive" /\ at' = "rnegative"
              \/ d = "rnegative" /\ at' = "ml"
              \/ d = "ml" /\ at' = "mr"
              \/ d = "mr" /\ at' = "cache"
              \/ d = "cache" /\ Return
         /\ call = "turn" =>
              \/ d = "servo" /\ at' = "servo_start"
              \/ d = "servo_start" /\ Return
         /\ at' # "none" => call' = call /\ arg' = arg /\ ret' = r
BY Order DEF Leaves, Return, Calls, Motors, Pins, Positive, Negative

\* A step of the chassis, with any argument.
AnyStep ==
  \/ \E s \in Int : set_chassis_speed(s)
  \/ \E t \in Int : set_chassis_turn(t)
  \/ CallStep \/ chassis_register
  \/ UNCHANGED chassisVars

\* Every step keeps the types.
LEMMA TypeStep ==
  ASSUME ChassisTypeOK, MotorInv, ServoInv, AnyStep
  PROVE  ChassisTypeOK'
PROOF
  <1> USE DEF ChassisTypeOK
  <1>0. Calls /\ SPEED_MAX = 2000
    BY DEF SPEED_MAX
  <1>1. ASSUME NEW s \in Int, set_chassis_speed(s) PROVE ChassisTypeOK'
    BY <1>0, <1>1 DEF set_chassis_speed, Enter, devVars, Calls, Pins, Positive
  <1>2. ASSUME NEW t \in Int, set_chassis_turn(t) PROVE ChassisTypeOK'
    BY <1>0, <1>2 DEF set_chassis_turn, Enter, devVars, Calls
  <1>3. ASSUME NEW p \in Pins, gpio_set_value(p) PROVE ChassisTypeOK'
    <2>1. Leaves(p, ret) /\ p # "none"
      BY <1>3 DEF gpio_set_value, Pins, Positive, Negative
    <2>2. Calls' /\ arg' \in Int /\ ret' \in {0, -1}
      BY <1>0, <2>1, LeavesTo DEF Return
    <2>3. pin' \in [Pins -> 0..1]
      BY <1>3 DEF gpio_set_value, Level
    <2> QED
      BY <1>3, <2>2, <2>3 DEF gpio_set_value
  <1>4. ASSUME NEW m \in Motors, motor_set_speed(m) PROVE ChassisTypeOK'
    <2>1. PICK r \in {0, -1} : Leaves(m, r)
      BY <1>4 DEF motor_set_speed
    <2>2. m # "none"
      BY DEF Motors
    <2>3. Calls' /\ arg' \in Int /\ ret' \in {0, -1}
      BY <1>0, <2>1, <2>2, LeavesTo DEF Return
    <2>4. duty' \in [Motors -> 0..SPEED_MAX] /\ inherited' \subseteq Motors
      BY <1>4, AbsNat DEF motor_set_speed
    <2> QED
      BY <1>4, <2>3, <2>4 DEF motor_set_speed
  <1>5. CASE cache_speed
    <2>1. /\ at = "cache" /\ Calls' /\ arg' \in Int /\ ret' \in {0, -1}
      BY <1>0, <1>5, LeavesTo DEF cache_speed, Return
    <2>2. ret = 0 => arg \in -SPEED_MAX..SPEED_MAX
      BY <1>0, <2>1, AbsNat DEF MotorInv, MotorsSet, Calls, Motors, Pins, Positive, Negative
    <2> QED
      BY <1>5, <2>1, <2>2 DEF cache_speed, devVars
  <1>6. CASE servo_set_angle
    <2>1. /\ at = "servo" /\ Calls' /\ arg' \in Int /\ ret' \in {0, -1}
      BY <1>0, <1>6, LeavesTo DEF servo_set_angle, Return, Calls
    <2>2. Turnable(arg)
      BY <1>0, <2>1 DEF ServoInv, Calls, Motors, Pins, Positive, Negative
    <2>3. ServoDuty(arg + 90) \in Nat
      BY <2>2, ServoDutyRange
    <2> QED
      BY <1>6, <2>1, <2>3 DEF servo_set_angle
  <1>7. CASE servo_start
    <2>1. /\ at = "servo_start" /\ Calls' /\ arg' \in Int /\ ret' \in {0, -1}
      BY <1>0, <1>7, LeavesTo DEF servo_start, Return
    <2>2. arg \in -39..39
      BY <1>0, <2>1, ServoDutyRange DEF ServoInv, Calls, Motors, Pins, Positive, Negative
    <2>3. servoOn' \in BOOLEAN
      BY <1>7, Zenon DEF servo_start
    <2> QED
      BY <1>7, <2>1, <2>2, <2>3 DEF servo_start
  <1>8. CASE chassis_register
    <2>1. servoOn' \in BOOLEAN
      BY <1>8, Zenon DEF chassis_register
    <2> QED
      BY <1>0, <1>8, <2>1 DEF chassis_register, Enter, Calls, Motors
  <1>9. CASE UNCHANGED chassisVars
    BY <1>9 DEF chassisVars, devVars, Calls
  <1> QED
    BY <1>1, <1>2, <1>3, <1>4, <1>5, <1>6, <1>7, <1>8, <1>9 DEF AnyStep, CallStep

\* How far the lines are written at each device.
LEMMA WrittenAt ==
  /\ Written("lpositive") = {} /\ Written("lnegative") = {"lpositive"}
  /\ Written("rpositive") = {"lpositive", "lnegative"}
  /\ Written("rnegative") = {"lpositive", "lnegative", "rpositive"}
  /\ \A d : d \notin Pins => Written(d) = Pins
BY DEF Written, Pins, Positive, Negative

\* A step that writes no line, and begins no call on the lines but a registration.
LEMMA LinesAlone ==
  ASSUME ChassisTypeOK, BridgeInv, pin' = pin,
         \/ UNCHANGED <<call, at, arg>>
         \/ call # "register" /\ at \notin Pins /\ call' \in {"none", "turn"}
         \/ call = "speed" /\ at \notin Pins /\ at' \notin Pins /\ UNCHANGED <<call, arg>>
         \/ call' = "register" /\ (at' \in Pins => at' = "lpositive")
  PROVE  BridgeInv'
PROOF
  <1>1. ~(BothHigh("lpositive") /\ BothHigh("rpositive"))'
    BY DEF BridgeInv, BothHigh
  <1>2. CASE UNCHANGED <<call, at, arg>>
    BY <1>1, <1>2 DEF BridgeInv, Agree
  <1>3. CASE call \in {"none", "turn"} /\ call' \in {"none", "turn"}
    BY <1>1, <1>3 DEF BridgeInv, Agree
  <1>4. CASE call = "speed" /\ at \notin Pins
    <2>1. \A p \in Pins \ Faulty : pin[p] = Level(p, arg)
      BY <1>4, WrittenAt DEF BridgeInv
    <2>2. Agree(Pins)'
      BY <2>1 DEF Agree, Level
    <2>3. CASE call' \in {"none", "turn"}
      BY <1>1, <2>2, <2>3 DEF BridgeInv
    <2>4. CASE call' = "speed" /\ at' \notin Pins /\ arg' = arg
      BY <1>1, <2>1, <2>4, WrittenAt DEF BridgeInv, Agree
    <2>5. CASE call' = "register" /\ (at' \in Pins => at' = "lpositive")
      BY <1>1, <2>5, WrittenAt DEF BridgeInv
    <2> QED BY <1>4, <2>3, <2>4, <2>5
  <1>5. CASE call' = "register" /\ (at' \in Pins => at' = "lpositive")
    BY <1>1, <1>5, WrittenAt DEF BridgeInv
  <1>6. Calls
    BY DEF ChassisTypeOK
  <1> QED BY <1>2, <1>3, <1>4, <1>5, <1>6 DEF Calls

\* gpio_set_value writes the line the call is at, and no other.
LEMMA WriteStep ==
  ASSUME ChassisTypeOK, BridgeInv, NEW p \in Pins, gpio_set_value(p)
  PROVE  BridgeInv'
PROOF
  <1>0. Calls /\ pin \in [Pins -> 0..1]
    BY DEF ChassisTypeOK
  <1>1. Leaves(p, ret) /\ p \in {"lpositive", "lnegative", "rpositive", "rnegative"}
    BY DEF gpio_set_value, Pins, Positive, Negative
  <1>2. /\ at = p /\ call \in {"register", "speed"}
        /\ \A q \in Pins : q # p => pin'[q] = pin[q]
        /\ p \notin Faulty => pin'[p] = IF call = "register" THEN 0 ELSE Level(p, arg)
        /\ pin' \in [Pins -> 0..1]
    BY <1>0, <1>1 DEF gpio_set_value, Leaves, Calls, Pins, Positive, Negative, Motors, Level
  <1>3. CASE call = "register"
    <2>1. \/ p = "lpositive" /\ at' = "lnegative" /\ call' = "register"
          \/ p = "lnegative" /\ at' = "rpositive" /\ call' = "register"
          \/ p = "rpositive" /\ at' = "rnegative" /\ call' = "register"
          \/ p = "rnegative" /\ call' = "none" /\ at' = "none"
      BY <1>0, <1>1, <1>3, LeavesTo DEF Return
    <2>2. \A q \in Written(p) \ Faulty : pin[q] = 0
      BY <1>2, <1>3 DEF BridgeInv
    <2>3. \A q \in Written(at') \ Faulty : pin'[q] = 0
      BY <1>2, <1>3, <2>1, <2>2, WrittenAt DEF Pins, Positive, Negative
    <2>4. ~(BothHigh("lpositive") /\ BothHigh("rpositive"))'
      BY <1>2, <1>3 DEF BridgeInv, BothHigh, Opposite, Pins, Positive, Negative
    <2>5. call' = "none" => Agree(Pins)'
      BY <2>1, <2>3, WrittenAt DEF Agree, Pins, Positive, Negative
    <2> QED
      BY <2>1, <2>3, <2>4, <2>5 DEF BridgeInv
  <1>4. CASE call = "speed"
    <2>1. /\ call' = "speed" /\ arg' = arg
          /\ \/ p = "lpositive" /\ at' = "lnegative"
             \/ p = "lnegative" /\ at' = "rpositive"
             \/ p = "rpositive" /\ at' = "rnegative"
             \/ p = "rnegative" /\ at' = "ml"
      BY <1>0, <1>1, <1>4, LeavesTo DEF Return
    <2>2. /\ \A q \in Written(p) \ Faulty : pin[q] = Level(q, arg)
          /\ Agree(Pins \ Written(p))
      BY <1>2, <1>4 DEF BridgeInv
    <2>3. Written(at') = Written(p) \cup {p}
      BY <2>1, WrittenAt DEF Pins, Positive, Negative
    <2>4. \A q \in Written(at') \ Faulty : pin'[q] = Level(q, arg)
      BY <1>1, <1>2, <1>4, <2>2, <2>3, WrittenAt DEF Pins, Positive, Negative
    <2>5. Agree(Pins \ Written(at))'
      BY <1>2, <2>2, <2>3 DEF Agree
    <2>6. ~(BothHigh("lpositive") /\ BothHigh("rpositive"))'
      BY <1>2, <2>1, <2>4, <2>5, WrittenAt DEF BothHigh, Opposite, Agree, Level, Pins, Positive,
         Negative
    <2> QED
      BY <2>1, <2>4, <2>5, <2>6 DEF BridgeInv
  <1> QED BY <1>2, <1>3, <1>4

\* Every step keeps what is known of the lines.
LEMMA BridgeStep ==
  ASSUME ChassisTypeOK, BridgeInv, AnyStep
  PROVE  BridgeInv'
PROOF
  <1>0. Calls
    BY DEF ChassisTypeOK
  <1>1. ASSUME NEW s \in Int, set_chassis_speed(s) PROVE BridgeInv'
    <2>1. /\ call = "none" /\ call' = "speed" /\ at' = "lpositive" /\ pin' = pin
      BY <1>1 DEF set_chassis_speed, Enter, devVars
    <2>2. ~(BothHigh("lpositive") /\ BothHigh("rpositive"))'
      BY <2>1 DEF BridgeInv, BothHigh
    <2> QED BY <2>1, <2>2, WrittenAt DEF BridgeInv, Agree
  <1>2. ASSUME NEW t \in Int, set_chassis_turn(t) PROVE BridgeInv'
    <2>1. /\ call = "none" /\ call' \in {"none", "turn"} /\ pin' = pin
      BY <1>2 DEF set_chassis_turn, Enter, devVars
    <2>2. at \notin Pins
      BY <1>0, <2>1 DEF Calls, Pins, Positive, Negative, Motors
    <2> QED BY <2>1, <2>2, LinesAlone
  <1>3. ASSUME NEW m \in Motors, motor_set_speed(m) PROVE BridgeInv'
    <2>1. PICK r : Leaves(m, r)
      BY <1>3, Zenon DEF motor_set_speed
    <2>2. /\ m # "none" /\ m \notin Pins /\ at = m /\ pin' = pin
          /\ call \in {"register", "speed"}
      BY <1>0, <1>3, <2>1 DEF Motors, Pins, Positive, Negative, motor_set_speed, Leaves, Calls
    <2> QED
      BY <1>0, <2>1, <2>2, LeavesTo, LinesAlone DEF Motors, Pins, Positive, Negative
  <1>4. CASE cache_speed
    <2>1. /\ at = "cache" /\ call = "speed" /\ pin' = pin /\ Return
      BY <1>0, <1>4, LeavesTo DEF cache_speed, devVars, Calls, Motors, Pins, Positive, Negative
    <2> QED BY <2>1, LinesAlone DEF Return, Pins, Positive, Negative
  <1>5. CASE servo_set_angle \/ servo_start
    <2>1. /\ at \in {"servo", "servo_start"} /\ pin' = pin
      BY <1>5 DEF servo_set_angle, servo_start, Leaves
    <2>2. call = "turn"
      BY <1>0, <2>1 DEF Calls, Motors, Pins, Positive, Negative
    <2>3. call' \in {"none", "turn"}
      BY <1>0, <1>5, <2>2, LeavesTo DEF servo_set_angle, servo_start, Return
    <2> QED BY <2>1, <2>2, <2>3, LinesAlone DEF Pins, Positive, Negative
  <1>6. CASE chassis_register
    BY <1>6, LinesAlone DEF chassis_register, Enter, Pins, Positive, Negative
  <1>7. CASE UNCHANGED chassisVars
    BY <1>7, LinesAlone DEF chassisVars, devVars
  <1> QED
    BY <1>1, <1>2, <1>3, <1>4, <1>5, <1>6, <1>7, WriteStep DEF AnyStep, CallStep

\* Which motors are set at each device.
LEMMA MotorsSetAt ==
  /\ MotorsSet("mr") = {"ml"} /\ MotorsSet("cache") = Motors
  /\ \A d : d \notin {"mr", "cache"} => MotorsSet(d) = {}
BY DEF MotorsSet

\* A step that sets no motor and does not move past one.
LEMMA MotorsAlone ==
  ASSUME MotorInv, inherited \subseteq Motors, UNCHANGED <<duty, inherited, speed>>,
         \/ UNCHANGED <<call, at, arg, ret>>
         \/ call \in {"none", "turn"} /\ call' \in {"none", "turn"}
         \/ call = "none" /\ call' = "speed" /\ at' = "lpositive" /\ ret' = 0
         \/ /\ call = "speed" /\ at \in Pins /\ at' \in Pins \cup {"ml"}
            /\ UNCHANGED <<call, arg, ret>>
         \/ /\ call = "register" /\ at \in Pins /\ at' \in Pins
            /\ UNCHANGED <<call, arg, ret>>
         \/ call = "register" /\ at \in Pins /\ call' = "none"
  PROVE  MotorInv'
PROOF
  <1> USE MotorsSetAt DEF MotorInv, Pins, Positive, Negative
  <1>1. CASE UNCHANGED <<call, at, arg, ret>>
    BY <1>1
  <1>2. CASE call \in {"none", "turn"} /\ call' \in {"none", "turn"}
    BY <1>2
  <1>3. CASE call = "none" /\ call' = "speed" /\ at' = "lpositive" /\ ret' = 0
    BY <1>3
  <1>4. CASE /\ call = "speed" /\ at \in Pins /\ at' \in Pins \cup {"ml"}
             /\ UNCHANGED <<call, arg, ret>>
    BY <1>4
  <1>5. CASE /\ call = "register" /\ at \in Pins /\ at' \in Pins
             /\ UNCHANGED <<call, arg, ret>>
    BY <1>5 DEF Motors
  <1>6. CASE call = "register" /\ at \in Pins /\ call' = "none"
    BY <1>6 DEF Motors
  <1> QED BY <1>1, <1>2, <1>3, <1>4, <1>5, <1>6

\* motor_set_speed sets the motor the call is at, or makes ret negative.
LEMMA SetStep ==
  ASSUME ChassisTypeOK, MotorInv, NEW m \in Motors, motor_set_speed(m)
  PROVE  MotorInv'
PROOF
  <1>0. Calls /\ duty \in [Motors -> 0..SPEED_MAX] /\ inherited \subseteq Motors
    BY DEF ChassisTypeOK
  <1>1. PICK r : /\ Leaves(m, r)
                 /\ \/ /\ r = ret /\ duty' = [duty EXCEPT ![m] = Abs(arg)]
                       /\ Abs(arg) <= SPEED_MAX /\ inherited' = inherited \ {m}
                    \/ /\ r = -1 /\ UNCHANGED <<duty, inherited>>
                       /\ Abs(arg) > SPEED_MAX \/ m \in Faulty
    BY Zenon DEF motor_set_speed
  <1>2. at = m /\ m \in {"mr", "ml"} /\ speed' = speed
    BY <1>1 DEF Leaves, Motors, motor_set_speed
  <1>3. CASE call = "register"
    <2>1. /\ call' = "register" /\ arg' = arg
          /\ \/ m = "mr" /\ at' = "ml"
             \/ m = "ml" /\ at' = "lpositive"
      BY <1>0, <1>1, <1>2, <1>3, LeavesTo DEF Return
    <2>2. Abs(0) = 0 /\ ~(0 > SPEED_MAX)
      BY SMT DEF Abs, SPEED_MAX
    <2>3. arg = 0
      BY <1>3 DEF MotorInv
    <2>4. CASE /\ UNCHANGED <<duty, inherited>> /\ m \in Faulty
      BY <1>2, <1>3, <2>1, <2>4, MotorsSetAt DEF MotorInv, Motors
    <2>5. CASE duty' = [duty EXCEPT ![m] = Abs(arg)] /\ inherited' = inherited \ {m}
      BY <1>0, <1>2, <1>3, <2>1, <2>2, <2>3, <2>5, MotorsSetAt DEF MotorInv, Motors
    <2> QED BY <1>1, <2>2, <2>3, <2>4, <2>5
  <1>4. CASE call = "speed"
    <2>1. /\ call' = "speed" /\ arg' = arg /\ ret' = r
          /\ \/ MotorsSet(at) = {} /\ MotorsSet(at') = {"ml"} /\ m = "ml"
             \/ MotorsSet(at) = {"ml"} /\ MotorsSet(at') = {"ml", "mr"} /\ m = "mr"
      BY <1>0, <1>1, <1>2, <1>4, LeavesTo, MotorsSetAt DEF Return, Motors
    <2>2. inherited' \subseteq Faulty
      BY <1>1, <1>4 DEF MotorInv
    <2>6. /\ \A n \in MotorsSet(at) :
               /\ ret = 0 => Abs(arg) <= SPEED_MAX /\ duty[n] = Abs(arg)
               /\ n \notin Faulty /\ Abs(arg) <= SPEED_MAX => duty[n] = Abs(arg)
          /\ ret # 0 => \E n \in MotorsSet(at) : n \in Faulty \/ Abs(arg) > SPEED_MAX
          /\ \A n \in Motors \ inherited : Faulty \cap Motors \subseteq {n} =>
               duty[n] = IF n \in MotorsSet(at) /\ ret = 0 THEN Abs(arg) ELSE Abs(speed)
      BY <1>4 DEF MotorInv
    <2>7. Abs(arg) \in Int /\ SPEED_MAX \in Int
      BY AbsNat DEF SPEED_MAX, ChassisTypeOK
    <2>3. \A n \in MotorsSet(at') :
            /\ ret' = 0 => Abs(arg) <= SPEED_MAX /\ duty'[n] = Abs(arg)
            /\ n \notin Faulty /\ Abs(arg) <= SPEED_MAX => duty'[n] = Abs(arg)
      <3>1. CASE /\ r = -1 /\ UNCHANGED <<duty, inherited>>
                 /\ Abs(arg) > SPEED_MAX \/ m \in Faulty
        BY <2>1, <2>6, <2>7, <3>1
      <3>2. CASE /\ r = ret /\ duty' = [duty EXCEPT ![m] = Abs(arg)]
                 /\ Abs(arg) <= SPEED_MAX /\ inherited' = inherited \ {m}
        BY <1>0, <2>1, <2>6, <2>7, <3>2 DEF Motors
      <3> QED BY <1>1, <3>1, <3>2
    <2>4. ret' # 0 => \E n \in MotorsSet(at') : n \in Faulty \/ Abs(arg) > SPEED_MAX
      BY <1>1, <1>4, <2>1 DEF MotorInv
    <2>5. ASSUME NEW n \in Motors, n \notin inherited', Faulty \cap Motors \subseteq {n}
          PROVE  duty'[n] = IF n \in MotorsSet(at') /\ ret' = 0 THEN Abs(arg) ELSE Abs(speed)
      <3>1. CASE /\ r = -1 /\ UNCHANGED <<duty, inherited>>
                 /\ Abs(arg) > SPEED_MAX \/ m \in Faulty
        <4>1. duty[n] = IF n \in MotorsSet(at) /\ ret = 0 THEN Abs(arg) ELSE Abs(speed)
          BY <2>5, <2>6, <3>1
        <4>2. ~(n \in MotorsSet(at) /\ ret = 0)
          BY <2>1, <2>5, <2>6, <2>7, <3>1 DEF Motors
        <4> QED BY <2>1, <3>1, <4>1, <4>2
      <3>2. CASE /\ r = ret /\ duty' = [duty EXCEPT ![m] = Abs(arg)]
                 /\ Abs(arg) <= SPEED_MAX /\ inherited' = inherited \ {m}
        <4>1. CASE n = m
          <5>1. ret = 0
            BY <2>1, <2>5, <2>6, <2>7, <3>2, <4>1 DEF Motors
          <5> QED BY <1>0, <2>1, <3>2, <4>1, <5>1 DEF Motors
        <4>2. CASE n # m
          BY <1>0, <2>1, <2>5, <2>6, <3>2, <4>2 DEF Motors
        <4> QED BY <4>1, <4>2
      <3> QED BY <1>1, <3>1, <3>2
    <2> QED BY <1>2, <2>1, <2>2, <2>3, <2>4, <2>5 DEF MotorInv
  <1> QED BY <1>0, <1>2, <1>3, <1>4 DEF Calls, Motors

\* Every step keeps what is known of the motors.
LEMMA MotorStep ==
  ASSUME ChassisTypeOK, MotorInv, AnyStep
  PROVE  MotorInv'
PROOF
  <1>0. Calls /\ inherited \subseteq Motors
    BY DEF ChassisTypeOK
  <1>1. ASSUME NEW s \in Int, set_chassis_speed(s) PROVE MotorInv'
    BY <1>0, <1>1, MotorsAlone DEF set_chassis_speed, Enter, devVars
  <1>2. ASSUME NEW t \in Int, set_chassis_turn(t) PROVE MotorInv'
    <2>1. call = "none" /\ call' \in {"none", "turn"} /\ UNCHANGED <<duty, inherited, speed>>
      BY <1>2 DEF set_chassis_turn, Enter, devVars
    <2> QED BY <1>0, <2>1, MotorsAlone
  <1>3. ASSUME NEW p \in Pins, gpio_set_value(p) PROVE MotorInv'
    <2>1. /\ Leaves(p, ret) /\ p # "none" /\ at = p
          /\ UNCHANGED <<duty, inherited, speed>>
      BY <1>3 DEF gpio_set_value, Leaves, Pins, Positive, Negative
    <2>2. call \in {"register", "speed"}
      BY <1>0, <2>1 DEF Calls, Pins, Positive, Negative
    <2>3. CASE call = "register"
      BY <1>0, <2>1, <2>3, LeavesTo, MotorsAlone DEF Return, Pins, Positive, Negative
    <2>4. CASE call = "speed"
      BY <1>0, <2>1, <2>4, LeavesTo, MotorsAlone DEF Return, Pins, Positive, Negative
    <2> QED BY <2>2, <2>3, <2>4
  <1>4. CASE cache_speed
    <2>1. /\ at = "cache" /\ call = "speed" /\ Return /\ speed' = IF ret = 0 THEN arg ELSE speed
          /\ UNCHANGED <<duty, inherited>>
      BY <1>0, <1>4, LeavesTo DEF cache_speed, devVars, Calls, Motors, Pins, Positive, Negative
    <2> QED BY <2>1, MotorsSetAt DEF Return, MotorInv
  <1>5. CASE servo_set_angle \/ servo_start
    <2>1. at \in {"servo", "servo_start"} /\ UNCHANGED <<duty, inherited, speed>>
      BY <1>5 DEF servo_set_angle, servo_start, Leaves
    <2>2. call = "turn"
      BY <1>0, <2>1 DEF Calls, Motors, Pins, Positive, Negative
    <2>3. call' \in {"none", "turn"}
      BY <1>0, <1>5, <2>2, LeavesTo DEF servo_set_angle, servo_start, Return
    <2> QED BY <1>0, <2>1, <2>2, <2>3, MotorsAlone
  <1>6. CASE chassis_register
    BY <1>6 DEF chassis_register, Enter, MotorInv, Motors
  <1>7. CASE UNCHANGED chassisVars
    BY <1>0, <1>7, MotorsAlone DEF chassisVars, devVars
  <1> QED
    BY <1>1, <1>2, <1>3, <1>4, <1>5, <1>6, <1>7, SetStep DEF AnyStep, CallStep

\* Every step keeps what is known of the servo.
LEMMA ServoStep ==
  ASSUME ChassisTypeOK, ServoInv, ServoPulseSafe, AnyStep
  PROVE  ServoInv' /\ ServoPulseSafe'
PROOF
  <1> USE DEF ServoInv, ServoPulseSafe
  <1>0. Calls /\ arg \in Int
    BY DEF ChassisTypeOK
  <1>1. ASSUME NEW s \in Int, set_chassis_speed(s) PROVE ServoInv' /\ ServoPulseSafe'
    BY <1>0, <1>1 DEF set_chassis_speed, Enter, devVars, Calls
  <1>2. ASSUME NEW t \in Int, set_chassis_turn(t) PROVE ServoInv' /\ ServoPulseSafe'
    BY <1>0, <1>2 DEF set_chassis_turn, Enter, devVars, Calls
  <1>3. ASSUME NEW d \in Pins \cup Motors \cup {"cache"}, NEW r, Leaves(d, r),
               UNCHANGED <<turn, servoDuty, servoOn>>
        PROVE  ServoInv' /\ ServoPulseSafe'
    <2>1. d # "none" /\ at \notin {"servo", "servo_start"}
      BY <1>3 DEF Leaves, Pins, Positive, Negative, Motors
    <2>2. call' \in {"none", call} /\ call' # "turn" /\ at' # "servo_start"
      BY <1>0, <1>3, <2>1, LeavesTo DEF Return, Calls, Motors, Pins, Positive, Negative
    <2> QED BY <1>3, <2>1, <2>2
  <1>8. ASSUME NEW p \in Pins, gpio_set_value(p) PROVE ServoInv' /\ ServoPulseSafe'
    <2>1. Leaves(p, ret) /\ UNCHANGED <<turn, servoDuty, servoOn>>
      BY <1>8 DEF gpio_set_value
    <2> QED BY <1>3, <2>1
  <1>9. ASSUME NEW m \in Motors, motor_set_speed(m) PROVE ServoInv' /\ ServoPulseSafe'
    <2>1. (Leaves(m, ret) \/ Leaves(m, -1)) /\ UNCHANGED <<turn, servoDuty, servoOn>>
      BY <1>9 DEF motor_set_speed
    <2> QED BY <1>3, <2>1
  <1>10. CASE cache_speed
    <2>1. Leaves("cache", ret) /\ UNCHANGED <<turn, servoDuty, servoOn>>
      BY <1>10 DEF cache_speed, devVars
    <2> QED BY <1>3, <2>1
  <1>4. CASE servo_set_angle
    <2>1. /\ at = "servo" /\ UNCHANGED <<turn, servoOn>>
          /\ \/ Return /\ servoDuty' = servoDuty
             \/ Leaves("servo", ret) /\ servoDuty' = ServoDuty(arg + 90)
      BY <1>4 DEF servo_set_angle, Leaves
    <2>2. call = "turn" /\ Turnable(arg)
      BY <1>0, <2>1 DEF Calls, Motors, Pins, Positive, Negative
    <2>3. ServoDuty(arg + 90) \in 1066..1933
      BY <1>0, <2>2, ServoDutyRange
    <2>4. CASE Return /\ servoDuty' = servoDuty
      BY <2>1, <2>4 DEF Return
    <2>5. CASE Leaves("servo", ret) /\ servoDuty' = ServoDuty(arg + 90)
      <3>1. call' = "turn" /\ at' = "servo_start" /\ arg' = arg
        BY <1>0, <2>2, <2>5, LeavesTo DEF Return
      <3> QED BY <2>1, <2>2, <2>3, <2>5, <3>1
    <2> QED BY <2>1, <2>4, <2>5
  <1>5. CASE servo_start
    <2>1. /\ at = "servo_start" /\ Leaves("servo_start", ret) /\ turn' = arg
          /\ servoDuty' = servoDuty
      BY <1>5 DEF servo_start, Leaves
    <2>2. call = "turn" /\ Turnable(arg)
      BY <1>0, <2>1 DEF Calls, Motors, Pins, Positive, Negative
    <2>3. Return
      BY <1>0, <2>1, <2>2, LeavesTo
    <2>4. ServoDuty(arg + 90) \in 1066..1933
      BY <1>0, <2>2, ServoDutyRange
    <2>5. servoDuty # 0
      BY <2>1, <2>4
    <2> QED BY <2>1, <2>3, <2>5 DEF Return
  <1>6. CASE chassis_register
    BY <1>6 DEF chassis_register, Enter
  <1>7. CASE UNCHANGED chassisVars
    BY <1>7 DEF chassisVars, devVars
  <1> QED
    BY <1>1, <1>2, <1>4, <1>5, <1>6, <1>7, <1>8, <1>9, <1>10 DEF AnyStep, CallStep

\* Every step of the chassis keeps its invariant.
LEMMA AnyKeepsInv ==
  ASSUME ChassisInv, AnyStep
  PROVE  ChassisInv'
BY TypeStep, BridgeStep, MotorStep, ServoStep DEF ChassisInv

\* The chassis as it is once registered satisfies the invariant.
LEMMA RegisteredInv ==
  ASSUME ChassisInit
  PROVE  ChassisInv
PROOF
  <1> USE DEF ChassisInit
  <1>1. ChassisTypeOK
    <2>1. speed \in -SPEED_MAX..SPEED_MAX /\ duty \in [Motors -> 0..SPEED_MAX]
      BY DEF SPEED_MAX
    <2>2. turn \in -39..39 /\ pin \in [Pins -> 0..1] /\ servoDuty \in Nat
      OBVIOUS
    <2>3. servoOn \in BOOLEAN
      BY Zenon
    <2> QED
      BY <2>1, <2>2, <2>3 DEF ChassisTypeOK, Calls
  <1>2. MotorInv
    <2>1. Abs(0) = 0
      BY SMT DEF Abs
    <2> QED
      BY <2>1 DEF MotorInv
  <1>3. BridgeInv
    BY DEF BridgeInv, BothHigh, Agree, Opposite, Pins, Positive, Negative
  <1>4. ServoInv /\ ServoPulseSafe
    <2>1. servoOn = FALSE
      OBVIOUS
    <2> QED BY <2>1 DEF ServoInv, ServoPulseSafe
  <1> QED
    BY <1>1, <1>2, <1>3, <1>4 DEF ChassisInv

\* Whatever the calls, whichever devices fail in them and wherever the process is
\* killed, the chassis keeps its invariant.
THEOREM ChassisCorrect == ChassisSpec => []ChassisInv
PROOF
  <1>1. ChassisInit => ChassisInv
    BY RegisteredInv
  <1>2. ChassisInv /\ [ChassisNext]_chassisVars => ChassisInv'
    <2>1. [ChassisNext]_chassisVars => AnyStep
      BY InputAssumption DEF ChassisNext, AnyStep
    <2> QED
      BY <2>1, AnyKeepsInv
  <1> QED
    BY <1>1, <1>2, PTL DEF ChassisSpec

\* Type correctness of the chassis.
THEOREM ChassisTypes == ChassisSpec => []ChassisTypeOK
PROOF
  <1>1. ChassisInv => ChassisTypeOK
    BY DEF ChassisInv
  <1> QED
    BY <1>1, ChassisCorrect, PTL

\* A new cached speed is the duty of both motors, devices failing or not: a call
\* in which either motor refuses or fails leaves chassis->speed alone.
THEOREM CacheFollows == ChassisSpec => CacheFollowsBothMotors
PROOF
  <1>1. ASSUME ChassisInv, ChassisNext, speed' # speed, call' # "register"
        PROVE  \A m \in Motors : duty'[m] = Abs(speed')
    <2>1. cache_speed
      BY <1>1 DEF ChassisNext, CallStep, set_chassis_speed, set_chassis_turn, gpio_set_value,
                  motor_set_speed, servo_set_angle, servo_start, chassis_register, Enter
    <2>2. /\ at = "cache" /\ call = "speed" /\ duty' = duty
          /\ speed' = IF ret = 0 THEN arg ELSE speed
      BY <1>1, <2>1 DEF cache_speed, Leaves, devVars, ChassisInv, ChassisTypeOK, Calls, Motors,
                        Pins, Positive, Negative
    <2>3. ret = 0 /\ speed' = arg
      BY <1>1, <2>2
    <2> QED
      BY <1>1, <2>2, <2>3, MotorsSetAt DEF ChassisInv, MotorInv
  <1>2. ChassisInv /\ [ChassisNext]_chassisVars =>
          [speed' # speed /\ call' # "register" =>
             \A m \in Motors : duty'[m] = Abs(speed')]_chassisVars
    BY <1>1
  <1> QED
    BY <1>2, ChassisCorrect, PTL DEF ChassisSpec, CacheFollowsBothMotors

\* Between calls, the cached speed and turn are what the working devices were given.
THEOREM CacheTrue == ChassisSpec => []CacheIsTrue
PROOF
  <1>1. ChassisInv => CacheIsTrue
    BY DEF ChassisInv, ChassisTypeOK, Calls, MotorInv, ServoInv, CacheIsTrue
  <1> QED
    BY <1>1, ChassisCorrect, PTL

\* The working inputs of the H-bridge agree on the direction but while they are being
\* written, and both inputs of a side are high only as BridgeConsistent says.
THEOREM BridgeSafe == ChassisSpec => []BridgeConsistent
PROOF
  <1>1. ASSUME ChassisInv PROVE BridgeConsistent
    <2>1. Calls /\ pin \in [Pins -> 0..1] /\ BridgeInv
      BY <1>1 DEF ChassisInv, ChassisTypeOK
    <2>2. ~Switching => Agree(Pins)
      <3>1. CASE call \in {"none", "turn"}
        BY <2>1, <3>1 DEF BridgeInv
      <3>2. CASE call = "speed" /\ at \notin Pins
        <4>1. \A p \in Pins \ Faulty : pin[p] = Level(p, arg)
          BY <2>1, <3>2, WrittenAt DEF BridgeInv
        <4> QED BY <4>1 DEF Agree, Level
      <3> QED
        BY <2>1, <3>1, <3>2 DEF Calls, Switching
    <2>3. Agree(Pins) =>
            /\ \A p, q \in Positive \ Faulty : pin[p] = pin[q]
            /\ \A p, q \in Negative \ Faulty : pin[p] = pin[q]
            /\ \A p \in Positive : ~BothHigh(p)
      BY <2>1 DEF Agree, BothHigh, Opposite, Pins, Positive, Negative
    <2>4. ASSUME NEW p \in Positive, BothHigh(p)
          PROVE  call = "register" \/ (call = "speed" /\ at = Opposite[p] /\ arg > 0)
      <3>1. CASE call \in {"none", "turn"}
        BY <2>2, <2>3, <2>4, <3>1 DEF Switching
      <3>2. CASE call = "speed"
        <4>1. /\ \A l \in Written(at) \ Faulty : pin[l] = Level(l, arg)
              /\ Agree(Pins \ Written(at))
          BY <2>1, <3>2 DEF BridgeInv
        <4>2. at \in Pins
          BY <2>2, <2>3, <2>4, <3>2 DEF Switching
        <4> QED
          BY <2>1, <2>4, <3>2, <4>1, <4>2, WrittenAt
             DEF BothHigh, Opposite, Agree, Level, Pins, Positive, Negative
      <3> QED BY <2>1, <3>1, <3>2 DEF Calls
    <2>5. call = "register" => \A m \in Motors \ inherited : duty[m] = 0
      BY <1>1 DEF ChassisInv, MotorInv
    <2> QED BY <2>1, <2>2, <2>3, <2>4, <2>5 DEF BridgeConsistent, BridgeInv
  <1> QED
    BY <1>1, ChassisCorrect, PTL

\* No pulse that set_chassis_turn gives the servo leaves its range.
THEOREM PulseSafe == ChassisSpec => []ServoPulseSafe
PROOF
  <1>1. ChassisInv => ServoPulseSafe
    BY DEF ChassisInv
  <1> QED
    BY <1>1, ChassisCorrect, PTL

=============================================================================

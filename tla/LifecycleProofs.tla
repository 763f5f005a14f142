-------------------------- MODULE LifecycleProofs --------------------------
(***************************************************************************)
(* The safety properties of the process, for every set of what may break,  *)
(* every number of runs and every number of SIGINTs: of the motors across  *)
(* restarts, of the sensors' data, and of the end of the program.          *)
(***************************************************************************)
EXTENDS Lifecycle, TLAPS

\* The aht10's data are a function on the two quantities, however it is written.
LEMMA AhtRecords ==
  ASSUME NEW a \in Ages
  PROVE  [temp |-> a, humi |-> a] \in [{"temp", "humi"} -> Ages]
  OBVIOUS

\* Every action keeps the types.
LEMMA TypeNext ==
  ASSUME LifeInv, Next
  PROVE  LifeTypeOK'
  <1> USE LifeAssumption DEF LifeInv, MainInv, LifeTypeOK, HubTypeOK, Ages, Values, Motors,
          Lines, Bridge, Xshut, roundVars, hubVars, procVars, bridge, gpioVars, mainVars, sigVars, Running
  <1>1. CASE main_motor("mr", "ml")
    BY <1>1 DEF main_motor, motor_create, motor_destroy, Stopped, Main, Fails, RestOfMain
  <1>2. CASE main_motor("ml", "servo")
    BY <1>2 DEF main_motor, motor_create, motor_destroy, Stopped, Main, Fails, RestOfMain
  <1>3. CASE main_servo BY <1>3 DEF main_servo, motor_destroy, Stopped, Main, Fails, RestOfMain
  <1>4. CASE main_gpio
    <2>1. held' \subseteq Lines /\ lines' \subseteq Lines
      BY <1>4 DEF main_gpio, gpio_create
    <2> QED BY <1>4, <2>1 DEF main_gpio, Main, RestOfMain
  <1>5. CASE main_lower
    <2>1. AfterLower(next) \in {"gpio", "still", "xshut", "signal"}
      BY DEF AfterLower
    <2> QED BY <1>5, <2>1 DEF main_lower, gpio_set_value, Main, RestOfMain
  <1>6. CASE main_still BY <1>6 DEF main_still, gpio_set_value, Main, RestOfMain
  <1>7. CASE main_iic
    BY <1>7 DEF main_iic, chassis_destroy, gpio_destroy, motor_destroy, Stopped, Main, Fails, RestOfMain
  <1>8. CASE main_sensors
    BY <1>8 DEF main_sensors, stlr_sensor_create, sensor_create_with_register, Main
  <1>9. CASE main_signal BY <1>9 DEF main_signal, Main
  <1>10. ASSUME NEW t \in DOMAIN Started, main_thread(t) PROVE LifeTypeOK'
    <2>1. /\ spc' \in {"off", "top", "aht10", "mq135", "sw18015", "sleep", "ended"}
          /\ fpc' \in {"off", "wait", "drive", "auto", "ended"}
      BY <1>10 DEF main_thread
    <2>2. contine' \in BOOLEAN
      BY <1>10, Zenon DEF main_thread
    <2>3. /\ mpc' = "log"
          /\ UNCHANGED <<kind, aht, reg, local, warned, before, procVars, bridge,
                         gpioVars, sigVars, rpc, runs>>
      BY <1>10 DEF main_thread, Main
    <2> QED BY <2>1, <2>2, <2>3
  <1>11. CASE log_lock BY <1>11 DEF log_lock, Main
  <1>12. CASE log_unlock BY <1>12 DEF log_unlock, Main
  <1>13. CASE main_loop BY <1>13 DEF main_loop, Main
  <1>14. CASE stlr_stop BY <1>14 DEF stlr_stop, Main
  <1>15. CASE main_destroy
    BY <1>15 DEF main_destroy, stlr_sensor_destroy, sensor_destroy, gpio_set_value,
                 gpio_destroy, Main
  <1>16. CASE main_ungpio \/ main_unmotor
    BY <1>16 DEF main_ungpio, main_unmotor, gpio_destroy, motor_destroy, Stopped, Main
  <1>17. CASE sigint BY <1>17 DEF sigint
  <1>18. CASE stop
    <2>1. contine' \in BOOLEAN
      BY <1>18, Zenon DEF stop
    <2> QED BY <1>18, <2>1 DEF stop
  <1>19. CASE follow_wake BY <1>19 DEF follow_wake
  <1>20. CASE follow_drive BY <1>20 DEF follow_drive
  <1>21. CASE follow_auto BY <1>21 DEF follow_auto
  <1>22. CASE follow_crash BY <1>22 DEF follow_crash
  <1>23. CASE radar_warn BY <1>23 DEF radar_warn
  <1>24. CASE radar_warned BY <1>24 DEF radar_warned
  <1>25. CASE radar_cancelled BY <1>25 DEF radar_cancelled
  <1>26. CASE Sensing /\ sensor_loop_top
    <2>1. \A a \in Ages : Aged(a) \in Ages
      BY DEF Aged
    <2>2. aht' \in [{"temp", "humi"} -> Ages] /\ local' \in [Values -> Ages]
      BY <1>26, <2>1 DEF sensor_loop_top
    <2>3. reg' \in {"old", "last", "fresh"} /\ before' \subseteq {"aht10"} /\ warned' \subseteq Sensors
      BY <1>26 DEF sensor_loop_top
    <2> QED BY <1>26, <2>2, <2>3 DEF Sensing, sensor_loop_top
  <1>27. CASE Sensing /\ sensor_loop_aht10
    <2>1. [temp |-> reg, humi |-> reg] \in [{"temp", "humi"} -> Ages]
      BY AhtRecords
    <2>2. aht' \in [{"temp", "humi"} -> Ages]
      BY <1>27, <2>1 DEF sensor_loop_aht10, aht10_measure, fake_read
    <2>3. aht'.temp \in Ages /\ aht'.humi \in Ages
      BY <2>2
    <2>4. local' \in [Values -> Ages]
      <3>1. CASE kind["aht10"] # "real"
        BY <1>27, <3>1 DEF sensor_loop_aht10, fake_read
      <3>2. CASE kind["aht10"] = "real"
        <4>1. local' = [local EXCEPT !.temp = aht'.temp, !.humi = aht'.humi]
          BY <1>27, <3>2 DEF sensor_loop_aht10
        <4> HIDE DEF Ages
        <4> QED BY <2>3, <4>1
      <3> QED BY <3>1, <3>2
    <2>5. warned' \subseteq Sensors
      BY <1>27 DEF sensor_loop_aht10, fake_read, Sensors
    <2>6. /\ spc' = "mq135" /\ UNCHANGED <<kind, before, isStop, logger, outcome>>
          /\ reg' \in {"old", "last", "fresh"}
      BY <1>27 DEF sensor_loop_aht10, Triggered, fake_read
    <2>7. UNCHANGED <<bridge, gpioVars, mainVars, sigVars, fpc, rpc, runs>>
      BY <1>27 DEF Sensing
    <2> QED BY <2>2, <2>4, <2>5, <2>6, <2>7
  <1>28. CASE Sensing /\ sensor_loop_mq135
    BY <1>28 DEF Sensing, sensor_loop_mq135, fake_read
  <1>29. CASE Sensing /\ sensor_loop_sw18015
    <2>1. local' \in [Values -> Ages]
      BY <1>29 DEF sensor_loop_sw18015, fake_read
    <2>2. warned' \subseteq Sensors
      BY <1>29 DEF sensor_loop_sw18015, fake_read, Sensors
    <2> QED BY <1>29, <2>1, <2>2 DEF Sensing, sensor_loop_sw18015, fake_read
  <1>30. CASE Sensing /\ sensor_loop_crash BY <1>30 DEF Sensing, sensor_loop_crash
  <1>31. CASE Die \/ Restart
    <2>1. Cleared /\ UNCHANGED dev /\ outcome' \in {"running", "killed"} /\ runs' \in 1..MaxRuns
      BY <1>31 DEF Die, Restart
    <2>2. aht' \in [{"temp", "humi"} -> Ages]
      BY <2>1, AhtRecords DEF Cleared, SensorHubReset
    <2>3. contine' \in BOOLEAN
      BY <2>1, Zenon DEF Cleared
    <2> QED BY <2>1, <2>2, <2>3 DEF Cleared, SensorHubReset, Sensors
  <1>32. CASE sigint_again
    <2>1. contine' \in BOOLEAN
      BY <1>32, Zenon DEF sigint_again
    <2>2. logger' \in {"none", "main", "radar", "lost"} /\ rpc' \in {"off", "poll", "warn", "ended"}
      BY <1>32 DEF sigint_again
    <2> QED BY <1>32, <2>1, <2>2 DEF sigint_again
  <1> QED
    BY <1>1, <1>2, <1>3, <1>4, <1>5, <1>6, <1>7, <1>8, <1>9, <1>10, <1>11, <1>12,
       <1>13, <1>14, <1>15, <1>16, <1>17, <1>18, <1>19, <1>20, <1>21, <1>22, <1>23,
       <1>24, <1>25, <1>26, <1>27, <1>28, <1>29, <1>30, <1>31, <1>32
       DEF Next, MainStep, Follow, Sensing, SensorLoop

-----------------------------------------------------------------------------
(* Which steps disturb what.                                               *)

\* main's place, the threads it has started and what has become of the process.
LEMMA MainFrame ==
  ASSUME Next
  PROVE  \/ MainStep \/ stop \/ follow_wake \/ Follow \/ Sensing \/ Die \/ Restart
         \/ /\ UNCHANGED <<mpc, then, spc, fpc, kind, outcome, isStop, gone, lines, next>>
            /\ rpc = "off" => rpc' = "off"
            /\ hpc = "off" => hpc' = "off"
  BY DEF Next, sigint, sigint_again, radar_warn, radar_warned, radar_cancelled, roundVars,
         hubVars, bridge, gpioVars, mainVars, sigVars, procVars

\* What main's steps do to the process: it goes on, or main returns.
LEMMA MainOutcome ==
  ASSUME MainStep
  PROVE  outcome' \in {"running", "exited"}
  <1> USE DEF Main, Fails, RestOfMain, procVars, Running
  <1>1. CASE main_motor("mr", "ml") \/ main_motor("ml", "servo")
    BY <1>1 DEF main_motor
  <1>2. CASE main_servo \/ main_gpio \/ main_lower \/ main_still \/ main_iic
    BY <1>2 DEF main_servo, main_gpio, main_lower, main_still, main_iic
  <1>3. CASE main_sensors \/ main_signal \/ \E t \in DOMAIN Started : main_thread(t)
    BY <1>3 DEF main_sensors, main_signal, main_thread
  <1>4. CASE log_lock \/ log_unlock
    BY <1>4 DEF log_lock, log_unlock
  <1>5. CASE main_loop \/ stlr_stop \/ main_destroy \/ main_ungpio \/ main_unmotor
    BY <1>5 DEF main_loop, stlr_stop, main_destroy, main_ungpio, main_unmotor
  <1> QED BY <1>1, <1>2, <1>3, <1>4, <1>5 DEF MainStep

\* The steps of the other threads leave main where it is, or out of its pause.
LEMMA OtherThreads ==
  ASSUME stop \/ follow_wake \/ Follow \/ Sensing
  PROVE  /\ Running
         /\ then' = then /\ (mpc' = mpc \/ (mpc = "paused" /\ mpc' = "loop"))
         /\ UNCHANGED <<kind, rpc, isStop, mine, gone, lines, next>>
         /\ spc = "off" => spc' = "off"
         /\ fpc = "off" => fpc' = "off"
         /\ hpc = "off" => hpc' = "off"
         /\ outcome' \in {"running", "crashed"}
  <1> USE DEF roundVars, hubVars, procVars, bridge, gpioVars, mainVars, sigVars, Running
  <1>1. CASE stop BY <1>1 DEF stop
  <1>2. CASE follow_wake BY <1>2 DEF follow_wake
  <1>3. CASE Follow
    BY <1>3 DEF Follow, follow_drive, follow_auto, follow_crash
  <1>4. CASE Sensing
    <2>1. /\ UNCHANGED <<kind, isStop>> /\ (spc = "off" => spc' = "off")
          /\ outcome' \in {outcome, "crashed"}
      BY <1>4 DEF Sensing, SensorLoop, sensor_loop_top, sensor_loop_aht10,
                  sensor_loop_mq135, sensor_loop_sw18015, sensor_loop_crash, Sensors
    <2> QED BY <1>4, <2>1 DEF Sensing
  <1> QED BY <1>1, <1>2, <1>3, <1>4

-----------------------------------------------------------------------------

\* Where main is decides what exists: the sensors, the threads, the motors.
LEMMA MainNext ==
  ASSUME LifeInv, Next
  PROVE  MainInv'
  <1> USE DEF LifeInv, MainInv, Where, Booting, Equipping, Equipped, Leaving, BridgeAt,
              Bridge, Xshut, Lines, Usable, LifeTypeOK, roundVars, hubVars, procVars,
              bridge, gpioVars, mainVars, sigVars, Running
  <1>1. CASE main_motor("mr", "ml")
    BY <1>1 DEF main_motor, motor_create, motor_destroy, Stopped, Main, Fails, RestOfMain
  <1>2. CASE main_motor("ml", "servo")
    BY <1>2 DEF main_motor, motor_create, motor_destroy, Stopped, Main, Fails, RestOfMain
  <1>3. CASE main_servo BY <1>3 DEF main_servo, motor_destroy, Stopped, Main, Fails, RestOfMain
  <1>4. CASE main_gpio BY <1>4 DEF main_gpio, gpio_create, Main, RestOfMain
  <1>5. CASE main_lower
    <2>1. /\ next' = IF next = 6 THEN 6 ELSE next + 1
          /\ UNCHANGED <<lines, kind, rpc, spc, fpc, hpc, then, isStop, gone, outcome>>
          /\ mpc \in {"lower", "xlow"} /\ mpc' = AfterLower(next)
      BY <1>5 DEF main_lower, Main, RestOfMain
    <2>2. CASE mpc = "lower"
      <3>1. next \in 1..4 /\ mpc' = IF next = 4 THEN "still" ELSE "gpio"
        BY <2>1, <2>2 DEF AfterLower
      <3> QED BY <2>1, <2>2, <3>1
    <2>3. CASE mpc = "xlow"
      <3>1. next \in 5..6 /\ mpc' = IF next = 5 THEN "xshut" ELSE "signal"
        BY <2>1, <2>3 DEF AfterLower
      <3> QED BY <2>1, <2>3, <3>1
    <2> QED BY <2>1, <2>2, <2>3
  <1>6. CASE main_still BY <1>6 DEF main_still, Main, RestOfMain
  <1>7. CASE main_iic
    BY <1>7 DEF main_iic, chassis_destroy, gpio_destroy, motor_destroy, Stopped, Main, Fails, RestOfMain
  <1>8. CASE main_sensors
    BY <1>8 DEF main_sensors, stlr_sensor_create, sensor_create_with_register, Main
  <1>9. CASE main_signal BY <1>9 DEF main_signal, Main
  <1>10. ASSUME NEW t \in DOMAIN Started, main_thread(t) PROVE MainInv'
    BY <1>10 DEF main_thread, Started, Main
  <1>11. CASE log_lock BY <1>11 DEF log_lock, Main
  <1>12. CASE log_unlock BY <1>12 DEF log_unlock, Main
  <1>13. CASE main_loop BY <1>13 DEF main_loop, Main
  <1>14. CASE stlr_stop BY <1>14 DEF stlr_stop, Main
  <1>15. CASE main_destroy BY <1>15 DEF main_destroy, gpio_destroy, Main
  <1>16. CASE main_ungpio \/ main_unmotor
    BY <1>16 DEF main_ungpio, main_unmotor, motor_destroy, Main
  <1>17. CASE stop \/ follow_wake \/ Follow \/ Sensing
    BY <1>17, OtherThreads
  <1>18. CASE Die \/ Restart BY <1>18 DEF Die, Restart, Cleared, SensorHubReset
  <1> QED
    BY MainFrame, <1>1, <1>2, <1>3, <1>4, <1>5, <1>6, <1>7, <1>8, <1>9, <1>10, <1>11, <1>12,
       <1>13, <1>14, <1>15, <1>16, <1>17, <1>18 DEF MainStep

\* The log's lock: main and the radar's thread exclude each other, and a thread is
\* cancelled only once its sensor has been freed.
LEMMA LogNext ==
  ASSUME LifeInv, Next
  PROVE  LogInv'
  <1> USE DEF LifeInv, LogInv, LifeTypeOK, procVars, mainVars, Running
  <1>1. CASE main_motor("mr", "ml") \/ main_motor("ml", "servo")
    BY <1>1 DEF main_motor, Main, Fails, RestOfMain
  <1>2. CASE main_servo \/ main_gpio \/ main_lower \/ main_still \/ main_iic
    <2>1. mpc # "unlock" /\ mpc' # "unlock" /\ UNCHANGED <<isStop, logger, rpc, hpc>>
      BY <1>2 DEF main_servo, main_gpio, main_lower, main_still, main_iic, AfterLower, Lines,
                  Bridge, Xshut, sigVars, Main, Fails, RestOfMain
    <2> QED BY <2>1
  <1>3. CASE main_sensors
    BY <1>3 DEF main_sensors, Main, MainInv, Where, Booting, hubVars, roundVars
  <1>4. CASE main_signal \/ main_loop \/ stlr_stop \/ main_destroy \/ main_ungpio \/ main_unmotor
    BY <1>4 DEF main_signal, main_loop, stlr_stop, main_destroy, main_ungpio, main_unmotor, Main
  <1>5. ASSUME NEW t \in DOMAIN Started, main_thread(t) PROVE LogInv'
    BY <1>5 DEF main_thread, Main, Started
  <1>6. CASE log_lock BY <1>6 DEF log_lock, Main
  <1>7. CASE log_unlock BY <1>7 DEF log_unlock, Main, MainInv
  <1>8. CASE stop \/ follow_wake \/ Follow \/ Sensing
    <2>1. UNCHANGED <<logger, rpc>> /\ (logger = "lost" => hpc' = hpc)
      BY <1>8 DEF sigVars, stop, follow_wake, Follow, follow_drive, follow_auto, follow_crash,
                  Sensing, SensorLoop, sensor_loop_top, sensor_loop_aht10,
                  sensor_loop_mq135, sensor_loop_sw18015, sensor_loop_crash
    <2> QED BY <1>8, <2>1, OtherThreads
  <1>9. CASE sigint \/ sigint_again \/ radar_warn \/ radar_warned
    BY <1>9 DEF sigint, sigint_again, radar_warn, radar_warned, sigVars
  <1>10. CASE radar_cancelled
    <2>1. Where \in Leaving
      BY <1>10 DEF radar_cancelled, MainInv, Where, Booting, Equipping, Equipped,
                   Leaving, Usable, Sensors
    <2> QED BY <1>10, <2>1 DEF radar_cancelled, MainInv
  <1>11. CASE Die \/ Restart BY <1>11 DEF Die, Restart, Cleared
  <1> QED
    BY <1>1, <1>2, <1>3, <1>4, <1>5, <1>6, <1>7, <1>8, <1>9, <1>10, <1>11
       DEF Next, MainStep

\* chassis_destroy and the error paths stop every motor there is; after them no
\* step of main starts one, and no other thread can.
LEMMA StoppedNext ==
  ASSUME LifeInv, Next
  PROVE  StoppedInv'
  <1> USE DEF LifeInv, MainInv, StoppedInv, Where, LifeTypeOK, Motors, procVars, bridge,
              mainVars, Running
  <1>1. CASE main_motor("mr", "ml")
    BY <1>1 DEF main_motor, motor_create, motor_destroy, Stopped, Main, Fails, RestOfMain
  <1>2. CASE main_motor("ml", "servo")
    BY <1>2 DEF main_motor, motor_create, motor_destroy, Stopped, Main, Fails, RestOfMain
  <1>3. CASE main_servo BY <1>3 DEF main_servo, motor_destroy, Stopped, Main, Fails, RestOfMain
  <1>4. CASE main_iic
    BY <1>4 DEF main_iic, chassis_destroy, gpio_destroy, motor_destroy, Stopped, Main, Fails, RestOfMain
  <1>5. CASE main_gpio \/ main_lower \/ main_still
    <2>1. mpc' \in {"lower", "gpio", "still", "xshut", "xlow", "signal", "iic"}
      BY <1>5 DEF main_gpio, main_lower, main_still, AfterLower, Lines, Bridge, Xshut, Main
    <2> QED BY <1>5, <2>1 DEF main_gpio, main_lower, main_still, Main, RestOfMain
  <1>6. CASE main_sensors \/ main_signal \/ main_loop \/ stlr_stop \/ main_destroy
    BY <1>6 DEF main_sensors, main_signal, main_loop, stlr_stop, main_destroy, Main
  <1>7. ASSUME NEW t \in DOMAIN Started, main_thread(t) PROVE StoppedInv'
    BY <1>7 DEF main_thread, Started, Main
  <1>8. CASE log_lock BY <1>8 DEF log_lock, Main
  <1>9. CASE log_unlock BY <1>9 DEF log_unlock, Main
  <1>10. CASE main_ungpio \/ main_unmotor
    BY <1>10 DEF main_ungpio, main_unmotor, motor_destroy, Stopped, Main
  <1>11. CASE follow_drive BY <1>11 DEF follow_drive
  <1>12. CASE stop \/ follow_wake \/ follow_auto \/ follow_crash \/ Sensing
    <2>1. UNCHANGED dev
      BY <1>12 DEF stop, follow_wake, follow_auto, follow_crash, Sensing
    <2> QED BY <1>12, <2>1, OtherThreads DEF Follow
  <1>13. CASE Die \/ Restart BY <1>13 DEF Die, Restart, Cleared
  <1>14. CASE sigint \/ sigint_again \/ radar_warn \/ radar_warned \/ radar_cancelled
    BY <1>14 DEF sigint, sigint_again, radar_warn, radar_warned, radar_cancelled
  <1> QED
    BY <1>1, <1>2, <1>3, <1>4, <1>5, <1>6, <1>7, <1>8, <1>9, <1>10, <1>11, <1>12, <1>13,
       <1>14 DEF Next, MainStep, Follow

\* One round of sensor_loop: a failed measurement of the aht10 leaves its data as
\* they were and is warned about, one of the sw18015 likewise.
LEMMA RoundNext ==
  ASSUME LifeInv, Next
  PROVE  RoundInv'
  <1> USE DEF LifeInv, MainInv, Where, Booting, Equipping, RoundInv, LifeTypeOK, HubTypeOK,
              Sensors, Values, Ages, roundVars, hubVars, procVars
  <1>1. CASE Sensing /\ sensor_loop_top
    <2>1. CASE isStop = 1
      BY <1>1, <2>1 DEF Sensing, sensor_loop_top
    <2>2. CASE isStop # 1
      <3>1. /\ spc' = "aht10" /\ UNCHANGED kind /\ spc # "off" /\ spc \in {"top", "sleep"}
            /\ before' = warned \cap {"aht10"}
            /\ reg' = IF reg = "fresh" THEN "last" ELSE "old"
        BY <1>1, <2>2 DEF Sensing, sensor_loop_top
      <3>2. aht'["temp"] = Aged(aht["temp"]) /\ aht'["humi"] = Aged(aht["humi"])
        BY <1>1, <2>2 DEF Sensing, sensor_loop_top
      <3>3. aht'["temp"] = aht'["humi"] /\ aht'["temp"] \notin {"uninit", "fresh"}
        BY <3>2 DEF Aged
      <3>4. kind["aht10"] = "real" => reg' # "fresh" /\ ("aht10" \notin before' => reg' = "last")
        BY <3>1
      <3> QED BY <3>1, <3>3, <3>4
    <2> QED BY <2>1, <2>2
  <1>2. CASE Sensing /\ sensor_loop_aht10
    <2> USE <1>2 DEF sensor_loop_aht10, fake_read
    <2>1. CASE kind["aht10"] # "real" BY <2>1
    <2>2. CASE kind["aht10"] = "real"
      <3>1. PICK event \in AhtEvents :
              /\ aht' = aht10_measure(event, aht) /\ reg' = Triggered(event)
              /\ local' = [local EXCEPT !.temp = aht'.temp, !.humi = aht'.humi]
              /\ warned' = IF Aht10Ret(event) THEN warned \cup {"aht10"} ELSE warned
        BY <2>2
      <3>2. CASE event = "busy"
        <4>1. aht' = [temp |-> reg, humi |-> reg] /\ reg' = "fresh" /\ warned' = warned
          BY <3>1, <3>2 DEF aht10_measure, Triggered, Aht10Ret
        <4>2. aht'["temp"] = reg /\ aht'["humi"] = reg
          BY <4>1
        <4>3. local'["temp"] = reg /\ local'["humi"] = reg
          BY <3>1, <4>2
        <4> QED BY <2>2, <4>1, <4>2, <4>3
      <3>3. CASE event # "busy"
        BY <2>2, <3>1, <3>3 DEF aht10_measure, Aht10Ret
      <3> QED BY <3>2, <3>3
    <2> QED BY <2>1, <2>2
  <1>3. CASE Sensing /\ sensor_loop_mq135
    BY <1>3 DEF Sensing, sensor_loop_mq135, fake_read
  <1>4. CASE Sensing /\ sensor_loop_sw18015
    BY <1>4 DEF Sensing, sensor_loop_sw18015, fake_read
  <1>5. CASE Sensing /\ sensor_loop_crash BY <1>5 DEF Sensing, sensor_loop_crash
  <1>6. CASE main_sensors BY <1>6 DEF main_sensors, Main
  <1>7. CASE main_destroy
    BY <1>7 DEF main_destroy, stlr_sensor_destroy, sensor_destroy
  <1>8. ASSUME NEW t \in DOMAIN Started, main_thread(t) PROVE RoundInv'
    <2>1. UNCHANGED <<aht, reg, local, warned, before, kind>>
      BY <1>8 DEF main_thread
    <2>2. spc' = spc \/ (spc = "off" /\ spc' = "top")
      BY <1>8 DEF main_thread, Main
    <2> QED BY <2>1, <2>2
  <1>9. CASE Die \/ Restart BY <1>9 DEF Die, Restart, Cleared, SensorHubReset
  <1>10. CASE UNCHANGED hubVars BY <1>10
  <1>11. \/ UNCHANGED hubVars \/ Sensing \/ Die \/ Restart
         \/ main_sensors \/ main_destroy \/ \E t \in DOMAIN Started : main_thread(t)
    BY DEF Next, MainStep, main_motor, main_servo, main_gpio, main_lower, main_still,
           main_iic, main_signal, log_lock, log_unlock, main_loop, stlr_stop,
           main_ungpio, main_unmotor, RestOfMain, sigint, sigint_again, stop, follow_wake,
           Follow, follow_drive, follow_auto, follow_crash, radar_warn, radar_warned,
           radar_cancelled
  <1> QED
    BY <1>1, <1>2, <1>3, <1>4, <1>5, <1>6, <1>7, <1>8, <1>9, <1>10, <1>11
       DEF Sensing, SensorLoop

\* Power is given only by follow_drive, and only when the client has asked.
LEMMA StillNext ==
  ASSUME LifeInv, Next
  PROVE  StillUntilTold'
  <1> USE DEF LifeInv, StillUntilTold, LifeTypeOK, Motors, bridge
  <1>1. CASE main_motor("mr", "ml")
    BY <1>1 DEF main_motor, motor_create, motor_destroy, Stopped
  <1>2. CASE main_motor("ml", "servo")
    BY <1>2 DEF main_motor, motor_create, motor_destroy, Stopped
  <1>3. CASE main_servo BY <1>3 DEF main_servo, motor_destroy, Stopped
  <1>4. CASE main_still BY <1>4 DEF main_still
  <1>5. CASE main_iic BY <1>5 DEF main_iic, chassis_destroy, motor_destroy, Stopped
  <1>6. CASE main_unmotor BY <1>6 DEF main_unmotor, motor_destroy, Stopped
  <1>7. CASE follow_drive BY <1>7 DEF follow_drive
  <1>8. CASE Die \/ Restart BY <1>8 DEF Die, Restart, Cleared
  <1>9. CASE UNCHANGED bridge BY <1>9
  <1>10. \/ UNCHANGED bridge \/ main_motor("mr", "ml") \/ main_motor("ml", "servo")
         \/ main_servo \/ main_still \/ main_iic \/ main_unmotor
         \/ follow_drive \/ Die \/ Restart
    BY DEF Next, MainStep, main_gpio, main_lower, main_sensors, main_signal, main_thread,
           log_lock, log_unlock, main_loop, stlr_stop, main_destroy, main_ungpio, sigint, sigint_again, stop,
           follow_wake, Follow, follow_auto, follow_crash, radar_warn, radar_warned,
           radar_cancelled, Sensing
  <1> QED BY <1>1, <1>2, <1>3, <1>4, <1>5, <1>6, <1>7, <1>8, <1>9, <1>10

\* Before stlr_stop every sensor a thread can reach exists, and so do the motors.
LEMMA CrashNext ==
  ASSUME LifeInv, Next
  PROVE  NoCrashWhileRunning'
  <1> USE DEF LifeInv, NoCrashWhileRunning, procVars
  <1>1. CASE MainStep
    BY <1>1, MainOutcome
  <1>2. CASE follow_crash
    <2>1. fpc # "off" /\ Running /\ UNCHANGED isStop
      BY <1>2 DEF follow_crash
    <2>2. Where \notin Booting \cup Equipping
      BY <2>1 DEF MainInv
    <2>3. gone # {} \/ ~(Bridge \subseteq lines) \/ \E s \in Sensors : ~Usable(s)
      BY <1>2 DEF follow_crash, Sensors
    <2>4. Where \in Equipped => Bridge \subseteq lines
      BY <2>1 DEF MainInv, BridgeAt, Equipped
    <2>5. Where \in {"destroy"} \cup Leaving
      BY <2>1, <2>2, <2>3, <2>4
         DEF MainInv, Where, Booting, Equipping, Equipped, Leaving, LifeTypeOK
    <2> QED BY <2>1, <2>5 DEF MainInv
  <1>3. CASE Sensing /\ sensor_loop_crash
    <2>1. spc # "off" /\ Running /\ UNCHANGED isStop /\ \E s \in Sensors : ~Usable(s)
      BY <1>3 DEF Sensing, sensor_loop_crash, Sensors
    <2>2. Where \notin Booting \cup Equipping
      BY <2>1 DEF MainInv
    <2>3. Where \in Leaving
      BY <2>1, <2>2 DEF MainInv, Where, Booting, Equipping, Equipped, Leaving, LifeTypeOK
    <2> QED BY <2>1, <2>3 DEF MainInv
  <1>4. CASE stop \/ follow_wake \/ follow_drive \/ follow_auto
    BY <1>4 DEF stop, follow_wake, follow_drive, follow_auto
  <1>5. CASE Sensing /\ outcome' = outcome
    BY <1>5, OtherThreads
  <1>6. ASSUME Sensing PROVE sensor_loop_crash \/ outcome' = outcome
    BY <1>6 DEF Sensing, SensorLoop, sensor_loop_top, sensor_loop_aht10,
                sensor_loop_mq135, sensor_loop_sw18015
  <1>7. CASE Die \/ Restart BY <1>7 DEF Die, Restart
  <1>8. CASE UNCHANGED <<outcome, isStop>> BY <1>8
  <1> QED BY MainFrame, <1>1, <1>2, <1>3, <1>4, <1>5, <1>6, <1>7, <1>8 DEF Follow

-----------------------------------------------------------------------------

\* The invariant holds at the start, and
LEMMA LifeInit == Init => LifeInv
  <1> SUFFICES ASSUME Init PROVE LifeInv
    OBVIOUS
  <1> USE DEF Init, SensorHubInit
  <1>1. LifeTypeOK
    <2>1. HubTypeOK
      BY AhtRecords DEF HubTypeOK, Ages, Values, Sensors
    <2>2. contine \in BOOLEAN
      BY Zenon
    <2> QED BY <2>1, <2>2, LifeAssumption DEF LifeTypeOK, Motors, Lines, Bridge, Xshut
  <1>2. MainInv
    BY DEF MainInv, Where, Booting, Equipping, Equipped, Leaving, BridgeAt, Running
  <1>3. LogInv /\ StoppedInv /\ RoundInv /\ StillUntilTold /\ NoCrashWhileRunning
    BY DEF LogInv, StoppedInv, RoundInv, StillUntilTold, NoCrashWhileRunning, Where
  <1> QED BY <1>1, <1>2, <1>3 DEF LifeInv

\* every step preserves it.
LEMMA LifeInvNext == LifeInv /\ [Next]_vars => LifeInv'
  <1> SUFFICES ASSUME LifeInv, [Next]_vars PROVE LifeInv'
    OBVIOUS
  <1>1. CASE Next
    BY <1>1, TypeNext, MainNext, LogNext, StoppedNext, RoundNext, StillNext, CrashNext
       DEF LifeInv
  <1>2. CASE UNCHANGED vars
    BY <1>2 DEF vars, roundVars, hubVars, procVars, bridge, gpioVars, mainVars, sigVars, LifeInv,
                LifeTypeOK, HubTypeOK, MainInv, LogInv, StoppedInv, RoundInv,
                StillUntilTold, NoCrashWhileRunning, Where, Usable, BridgeAt, Running
  <1> QED BY <1>1, <1>2

\* The inductive invariant of the process: where main is, what exists there, and
\* what one round of the sensor thread has measured.
THEOREM LifeInvariant == Spec => []LifeInv
  BY LifeInit, LifeInvNext, PTL DEF Spec

\* Type correctness of the whole process.
THEOREM LifeTypes == Spec => []LifeTypeOK
  <1>1. LifeInv => LifeTypeOK
    BY DEF LifeInv
  <1> QED BY <1>1, LifeInvariant, PTL

\* A motor opened by this run gives no power before set_chassis_speed is told to,
\* however the earlier runs ended and left the drivers.
THEOREM MotorsStillUntilTold == Spec => []StillUntilTold
  <1>1. LifeInv => StillUntilTold
    BY DEF LifeInv
  <1> QED BY <1>1, LifeInvariant, PTL

\* main returns, from stlr_destroy or from an error path of stlr_create, with no motor
\* it opened giving power but one that was driven in this run and whose STOP the
\* driver's handler has written over.
THEOREM PowerAtExit == Spec => []PoweredAtExitOnlyByRace
  <1>1. LifeInv => PoweredAtExitOnlyByRace
    <2> SUFFICES ASSUME LifeInv, outcome = "exited", NEW m \in mine, Powered(m)
                 PROVE  asked = 1 /\ dev[m].state = "lost"
      BY DEF PoweredAtExitOnlyByRace
    <2> USE DEF LifeInv, LifeTypeOK, Powered
    <2>1. m \in gone
      BY DEF StoppedInv, Where
    <2>2. dev[m].state = "lost"
      BY <2>1 DEF StoppedInv
    <2>3. asked = 1
      BY DEF StillUntilTold
    <2> QED BY <2>2, <2>3
  <1> QED BY <1>1, LifeInvariant, PTL

\* No thread uses a null or a freed sensor or motor before stlr_stop.
THEOREM NoEarlyCrash == Spec => []NoCrashWhileRunning
  <1>1. LifeInv => NoCrashWhileRunning
    BY DEF LifeInv
  <1> QED BY <1>1, LifeInvariant, PTL

\* The lock of log_log is held by main or the radar's thread only while they write, and
\* is lost only after stlr_stop or under a handler of SIGINT that a second SIGINT has
\* overtaken: until then whoever waits for it waits for one of these two, and is stuck
\* only if it is the handler on top of main.
THEOREM LogLockDiscipline == Spec => []LogInv
  <1>1. LifeInv => LogInv
    BY DEF LifeInv
  <1> QED BY <1>1, LifeInvariant, PTL

\* What sensor_loop publishes of the aht10 is of the round before, never of its own, and
\* older only with a warning in one of the two; of the sw18015 nothing old is published
\* in silence.
THEOREM StaleIsWarned == Spec => []StaleWarned
  <1>1. LifeInv => StaleWarned
    BY DEF LifeInv, RoundInv, StaleWarned
  <1> QED BY <1>1, LifeInvariant, PTL

\* Temperature and humidity are of one measurement, whichever transaction with the
\* aht10 fails.
THEOREM AhtOfOneMeasurement == Spec => []AhtNeverGarbage
  <1>1. LifeInv => AhtNeverGarbage
    BY DEF LifeInv, RoundInv, AhtNeverGarbage
  <1> QED BY <1>1, LifeInvariant, PTL

=============================================================================

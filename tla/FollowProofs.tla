---------------------------- MODULE FollowProofs ----------------------------
(* Follow for every set of failing devices, every set of speeds and turns   *)
(* and every buffer size: the type invariant, no lost command, no power     *)
(* from an earlier session, and the safety part of the refinement of        *)
(* RemoteControl.                                                           *)
EXTENDS Follow, ChassisProofs, SequenceTheorems

USE DEF chassisVars, devVars, netVars, mailVars

\* An action that does not touch the chassis keeps its invariant and what it
\* reflects.
LEMMA ChassisUnchanged ==
  ASSUME ChassisInv, UNCHANGED chassisVars
  PROVE  /\ ChassisInv'
         /\ \A c, d : Reflects(c, d)' <=> Reflects(c, d)
PROOF
  <1>1. ChassisInv'
    BY AnyKeepsInv DEF AnyStep
  <1>2. \A c, d : Reflects(c, d)' <=> Reflects(c, d)
    BY DEF Reflects, devVars
  <1> QED
    BY <1>1, <1>2

\* The call in progress goes on or returns; one that returns leaves the working
\* devices as the command it came from asks.
LEMMA CallReturns ==
  ASSUME ChassisInv, CallStep, call # "register"
  PROVE  \/ call' = call /\ arg' = arg
         \/ call' = "none" /\ call = "speed" /\ (\A d : d = arg => Reflects("SPEED", d)')
                           /\ (arg = 0 => \A d : Reflects("STOP", d)')
         \/ call' = "none" /\ call = "turn" /\ (\A d : d = arg => Reflects("DIRECTION", d)')
PROOF
  <1>0. Calls /\ arg \in Int /\ BridgeInv /\ MotorInv /\ ServoInv
    BY DEF ChassisInv, ChassisTypeOK
  <1> USE DEF Motors, Pins, Positive, Negative
  <1>1. ASSUME NEW p \in Pins, gpio_set_value(p) PROVE call' = call /\ arg' = arg
    BY <1>0, <1>1, LeavesTo DEF gpio_set_value, Calls, Return
  <1>2. ASSUME NEW m \in Motors, motor_set_speed(m) PROVE call' = call /\ arg' = arg
    <2>1. PICK r : Leaves(m, r)
      BY <1>2 DEF motor_set_speed
    <2> QED BY <1>0, <2>1, LeavesTo DEF Calls, Return
  <1>3. CASE cache_speed
    <2>1. /\ call = "speed" /\ at = "cache" /\ call' = "none" /\ UNCHANGED devVars
      BY <1>0, <1>3, LeavesTo DEF cache_speed, Calls, Return
    <2>2. \A p \in Pins \ Faulty : pin[p] = Level(p, arg)
      BY <1>0, <2>1, WrittenAt DEF BridgeInv
    <2>3. Abs(arg) <= SPEED_MAX => \A m \in Motors \ Faulty : duty[m] = Abs(arg)
      BY <1>0, <2>1, MotorsSetAt DEF MotorInv
    <2>4. \A d : d = arg => Reflects("SPEED", d)'
      BY <2>1, <2>2, <2>3 DEF Reflects, devVars
    <2>5. Abs(0) = 0 /\ 0 <= SPEED_MAX
      BY SMT DEF Abs, SPEED_MAX
    <2>6. arg = 0 => \A d : Reflects("STOP", d)'
      BY <2>1, <2>3, <2>5 DEF Reflects, devVars
    <2> QED BY <2>1, <2>4, <2>6
  <1>4. CASE servo_set_angle
    <2>1. CASE Leaves("servo", ret)
      BY <1>0, <2>1, LeavesTo DEF Calls, Return
    <2>2. CASE "servo" \in Faulty /\ at = "servo" /\ Return
      BY <1>0, <2>2 DEF Calls, Return, Reflects
    <2> QED BY <1>4, <2>1, <2>2 DEF servo_set_angle
  <1>5. CASE servo_start
    <2>1. /\ call = "turn" /\ at = "servo_start" /\ call' = "none" /\ servoDuty' = servoDuty
      BY <1>0, <1>5, LeavesTo DEF servo_start, Calls, Return
    <2> QED BY <1>0, <2>1 DEF ServoInv, Reflects
  <1> QED BY <1>1, <1>2, <1>3, <1>4, <1>5 DEF CallStep

\* Executing a command once more leaves what it did the first time.
LEMMA CallReflects ==
  ASSUME ChassisInv, CallStep, call # "register", NEW c, NEW d \in Int, Reflects(c, d),
         call = "speed" => (c = "STOP" /\ arg = 0) \/ (c = "SPEED" /\ arg = d),
         call = "turn" => c = "DIRECTION" /\ arg = d
  PROVE  Reflects(c, d)'
PROOF
  <1>0. Calls /\ pin \in [Pins -> 0..1] /\ duty \in [Motors -> 0..SPEED_MAX]
    BY DEF ChassisInv, ChassisTypeOK
  <1>1. ASSUME NEW p \in Pins, gpio_set_value(p) PROVE Reflects(c, d)'
    <2>1. call = "speed"
      BY <1>0, <1>1 DEF gpio_set_value, Leaves, Calls, Pins, Positive, Negative
    <2> QED BY <1>0, <1>1, <2>1 DEF gpio_set_value, Reflects
  <1>2. ASSUME NEW m \in Motors, motor_set_speed(m) PROVE Reflects(c, d)'
    <2>1. call = "speed" /\ Abs(0) = 0
      BY <1>0, <1>2, SMT DEF motor_set_speed, Leaves, Calls, Motors, Abs
    <2>2. UNCHANGED <<pin, servoDuty>>
      BY <1>2 DEF motor_set_speed
    <2>3. \A n \in Motors \ Faulty : duty'[n] = duty[n] \/ duty'[n] = Abs(arg)
      BY <1>0, <1>2 DEF motor_set_speed
    <2> QED BY <2>1, <2>2, <2>3 DEF Reflects
  <1>3. CASE cache_speed
    BY <1>3 DEF cache_speed, Reflects, devVars
  <1>4. CASE servo_set_angle
    <2>1. call = "turn"
      BY <1>0, <1>4 DEF servo_set_angle, Leaves, Calls, Motors, Pins, Positive, Negative
    <2> QED BY <1>4, <2>1 DEF servo_set_angle, Reflects
  <1>5. CASE servo_start
    BY <1>5 DEF servo_start, Reflects
  <1> QED BY <1>1, <1>2, <1>3, <1>4, <1>5 DEF CallStep

\* move_of_remote begins the call its command asks for, or has nothing to do.
LEMMA MoveBegins ==
  ASSUME NEW c \in {"NONE", "STOP", "SPEED", "DIRECTION"}, NEW d \in Int,
         call = "none", move_of_remote(c, d)
  PROVE  /\ UNCHANGED <<speed, turn, devVars>>
         /\ call' = "speed" => \/ c = "STOP" /\ arg' = 0
                               \/ c = "SPEED" /\ arg' = d
         /\ call' = "turn" => c = "DIRECTION" /\ arg' = d
         /\ call' = "none" => Reflects(c, d)'
         /\ call' # "register"
PROOF
  <1>1. CASE c \in {"STOP", "SPEED"}
    BY <1>1 DEF move_of_remote, set_chassis_speed, Enter
  <1>2. CASE c = "DIRECTION"
    BY <1>2 DEF move_of_remote, set_chassis_turn, Enter, Reflects
  <1>3. CASE c = "NONE"
    BY <1>3 DEF move_of_remote, Reflects
  <1> QED
    BY <1>1, <1>2, <1>3

\* move_of_remote is a step of the chassis.
LEMMA MoveIsStep ==
  ASSUME NEW c \in {"NONE", "STOP", "SPEED", "DIRECTION"}, NEW d \in Int,
         move_of_remote(c, d)
  PROVE  AnyStep
BY DEF move_of_remote, AnyStep

-----------------------------------------------------------------------------

\* The state stlr_create and stlr_start begin from satisfies the invariant.
LEMMA InitInv == Init => FollowInv
PROOF
  <1> SUFFICES ASSUME Init PROVE FollowInv
    OBVIOUS
  <1>1. ChassisInv
    BY RegisteredInv DEF Init
  <1>2. TypeOK
    <2>1. rx \in Frames /\ net \in Seq(Frames)
      BY DEF Init, Frames
    <2>2. split \in BOOLEAN /\ isStop \in BOOLEAN /\ settled \in BOOLEAN
      BY DEF Init
    <2> QED
      BY <1>1, <2>1, <2>2 DEF Init, TypeOK, ChassisInv
  <1>3. MutexInv
    BY DEF Init, MutexInv
  <1>4. MailboxInv /\ MovingInv
    BY DEF Init, ChassisInit, MailboxInv, MovingInv
  <1> QED
    BY <1>1, <1>2, <1>3, <1>4 DEF FollowInv

\* The steps of the comm thread, the client and stlr_stop keep the types.
LEMMA CommType ==
  ASSUME TypeOK, Client \/ Comm \/ stlr_stop
  PROVE  TypeOK'
PROOF
  <1> USE DEF TypeOK
  <1>0. UNCHANGED chassisVars => ChassisTypeOK'
    BY DEF ChassisTypeOK, Calls
  <1>1. CASE \E f \in Frames : Send(f)
    BY <1>0, <1>1, AppendProperties DEF Send
  <1>2. CASE Reset
    <2>1. split' \in BOOLEAN
      BY <1>2 DEF Reset
    <2>2. net' \in Seq(Frames)
      BY <1>2, EmptySeq DEF Reset
    <2> QED
      BY <1>0, <1>2, <2>1, <2>2 DEF Reset
  <1>3. CASE stlr_stop
    <2>1. isStop' \in BOOLEAN
      BY <1>3 DEF stlr_stop
    <2> QED
      BY <1>0, <1>3, <2>1 DEF stlr_stop
  <1>4. CASE comm_top \/ poll_timeout
    <2>1. cpc' \in {"exit", "poll", "top"}
      BY <1>4 DEF comm_top, poll_timeout
    <2>2. UNCHANGED <<chassisVars, netVars, mailVars, fpc, mutex, isStop>>
      BY <1>4 DEF comm_top, poll_timeout
    <2> QED
      BY <1>0, <2>1, <2>2
  <1>5. CASE comm_read
    <2>1. PICK n \in 0..Len(net), part \in BOOLEAN :
            /\ net' = SubSeq(net, n + 1, Len(net))
            /\ split' = part
            /\ \/ WellFramed(n, part) /\ rx' = Head(net) /\ cpc' \in {"lock", "top"}
               \/ UNCHANGED rx /\ cpc' = "top"
      BY <1>5 DEF comm_read
    <2>2. net' \in Seq(Frames)
      BY <2>1, SubSeqProperties
    <2>3. rx' \in Frames
      <3>1. CASE WellFramed(n, part) /\ rx' = Head(net)
        <4>1. n > 0
          BY <3>1 DEF WellFramed
        <4> QED
          BY <3>1, <4>1, HeadTailProperties
      <3> QED
        BY <2>1, <3>1
    <2>4. split' \in BOOLEAN
      BY <2>1
    <2> QED
      BY <1>0, <1>5, <2>1, <2>2, <2>3, <2>4 DEF comm_read
  <1>6. CASE comm_lock
    BY <1>0, <1>6 DEF comm_lock
  <1>7. CASE store_move
    <2>1. settled' \in BOOLEAN
      BY <1>7 DEF store_move
    <2>2. /\ followCmd' \in {"NONE", "STOP", "SPEED", "DIRECTION"}
          /\ followData' \in Speeds \cup Turns \cup {0}
          /\ heard' \subseteq Speeds
      BY <1>7 DEF store_move, Moves, Command
    <2> QED
      BY <1>0, <1>7, <2>1, <2>2 DEF store_move
  <1>8. CASE store_mode
    <2>1. settled' \in BOOLEAN
      BY <1>8 DEF store_mode
    <2> QED
      BY <1>0, <1>8, <2>1 DEF store_mode
  <1>9. CASE comm_signal
    BY <1>0, <1>9 DEF comm_signal
  <1>10. CASE comm_unlock
    BY <1>0, <1>10 DEF comm_unlock, Frames
  <1>11. CASE comm_ack
    BY <1>0, <1>11 DEF comm_ack
  <1> QED
    BY <1>1, <1>2, <1>3, <1>4, <1>5, <1>6, <1>7, <1>8, <1>9, <1>10, <1>11
       DEF Client, Comm, CommCallback

\* The steps of stlr_create, stlr_start and the follow thread keep the types,
\* given that what they do to the chassis does.
LEMMA FollowType ==
  ASSUME TypeOK, ChassisTypeOK', Boot \/ FollowThread
  PROVE  TypeOK'
PROOF
  <1> USE DEF TypeOK
  <1>1. CASE create_speed
    BY <1>1 DEF create_speed
  <1>2. CASE create_turn \/ create_look
    BY <1>2 DEF create_turn, create_look
  <1>3. CASE start_comm \/ start_follow \/ call_step
    BY <1>3 DEF start_comm, start_follow, call_step
  <1>4. CASE follow_top
    <2>1. fpc' \in {"exit", "lock"}
      BY <1>4 DEF follow_top
    <2> QED
      BY <1>4, <2>1 DEF follow_top
  <1>5. CASE follow_remote
    BY <1>5 DEF follow_remote
  <1>9. CASE follow_moved
    <2>1. settled' \in BOOLEAN
      BY <1>9 DEF follow_moved
    <2> QED
      BY <1>9, <2>1 DEF follow_moved
  <1>6. CASE follow_auto \/ follow_none \/ follow_sleep \/ follow_slept
    BY <1>6 DEF follow_auto, follow_none, follow_sleep, follow_slept
  <1>7. CASE follow_park \/ follow_unlock \/ spurious_wakeup
    BY <1>7 DEF follow_park, follow_unlock, spurious_wakeup
  <1>8. CASE follow_lock \/ follow_relock
    BY <1>8 DEF follow_lock, follow_relock
  <1> QED
    BY <1>1, <1>2, <1>3, <1>4, <1>5, <1>6, <1>7, <1>8, <1>9
       DEF Boot, FollowThread, FollowStep

\* Every step keeps the mutex where the program counters say it is.
LEMMA MutexStep ==
  ASSUME TypeOK, MutexInv, [Next]_vars
  PROVE  MutexInv'
PROOF
  <1> USE DEF MutexInv
  <1>1. CASE Boot
    BY <1>1 DEF Boot, create_speed, create_turn, create_look, start_comm, start_follow
  <1>2. CASE stlr_stop \/ Client
    BY <1>2 DEF stlr_stop, Client, Send, Reset
  <1>3. CASE Comm
    <2>1. CASE comm_top \/ poll_timeout \/ comm_read
      BY <2>1 DEF comm_top, poll_timeout, comm_read
    <2>2. CASE comm_lock \/ store_move \/ store_mode
      BY <2>2 DEF comm_lock, store_move, store_mode
    <2>3. CASE comm_signal \/ comm_unlock \/ comm_ack
      BY <2>3 DEF comm_signal, comm_unlock, comm_ack
    <2> QED
      BY <1>3, <2>1, <2>2, <2>3 DEF Comm, CommCallback
  <1>4. CASE FollowThread
    <2>1. CASE follow_top \/ follow_remote \/ follow_moved \/ call_step \/ follow_auto
                \/ follow_none
      BY <2>1 DEF follow_top, follow_remote, follow_moved, call_step, follow_auto, follow_none
    <2>2. CASE follow_sleep \/ follow_slept \/ follow_park \/ follow_unlock
      BY <2>2 DEF follow_sleep, follow_slept, follow_park, follow_unlock
    <2>3. CASE follow_lock \/ follow_relock \/ spurious_wakeup
      BY <2>3 DEF follow_lock, follow_relock, spurious_wakeup
    <2> QED
      BY <1>4, <2>1, <2>2, <2>3 DEF FollowThread, FollowStep
  <1>5. CASE UNCHANGED vars
    BY <1>5 DEF vars
  <1> QED
    BY <1>1, <1>2, <1>3, <1>4, <1>5 DEF Next

\* Only stlr_create and the follow thread executing a command touch the chassis.
LEMMA OnlyMovesTouchChassis ==
  ASSUME [Next]_vars, ~(create_speed \/ create_turn \/ follow_remote \/ call_step)
  PROVE  UNCHANGED chassisVars
BY DEF Next, vars, Boot, Client, Comm, CommCallback, FollowThread, FollowStep, create_look,
       start_comm, start_follow, stlr_stop, Send, Reset, comm_top, poll_timeout,
       comm_read, comm_lock, store_move, store_mode, comm_signal, comm_unlock,
       comm_ack, follow_top, follow_lock, follow_moved, follow_auto, follow_none,
       follow_sleep, follow_slept, follow_park, spurious_wakeup, follow_relock, follow_unlock

\* Only the callback's stores write the mailbox, and only follow_moved settles it;
\* no other step goes back to the time before the threads.
LEMMA OnlyStoresTouchMailbox ==
  ASSUME [Next]_vars,
         ~(create_speed \/ create_turn \/ store_move \/ store_mode \/ follow_moved)
  PROVE  /\ UNCHANGED <<followCmd, followData, settled, heard>>
         /\ cpc' = "off" => cpc = "off" /\ mode' = mode
         /\ fpc' \in {"create", "straight", "look"} => fpc' = fpc
BY DEF Next, vars, Boot, Client, Comm, CommCallback, FollowThread, FollowStep, create_look,
       start_comm, start_follow, stlr_stop, Send, Reset, comm_top, poll_timeout,
       comm_read, comm_lock, comm_signal, comm_unlock, comm_ack, follow_top, follow_remote,
       call_step, follow_lock, follow_auto, follow_none, follow_sleep, follow_slept,
       follow_park, spurious_wakeup, follow_relock, follow_unlock

\* Every step of the system is a step of the chassis or leaves it alone.
LEMMA ChassisSteps ==
  ASSUME TypeOK, [Next]_vars
  PROVE  AnyStep
PROOF
  <1>1. CASE create_speed \/ create_turn \/ call_step
    BY <1>1 DEF create_speed, create_turn, call_step, AnyStep
  <1>2. CASE follow_remote
    BY <1>2, InputAssumption, MoveIsStep DEF follow_remote, TypeOK
  <1>3. CASE ~(create_speed \/ create_turn \/ follow_remote \/ call_step)
    BY <1>3, OnlyMovesTouchChassis DEF AnyStep
  <1> QED
    BY <1>1, <1>2, <1>3

\* Where a call may be in progress, and on whose behalf, is kept by the steps that
\* touch the chassis.
LEMMA MovingStep ==
  ASSUME FollowInv, [Next]_vars
  PROVE  MovingInv'
PROOF
  <1>0. TypeOK /\ ChassisInv /\ MutexInv /\ MailboxInv /\ MovingInv
    BY DEF FollowInv
  <1>1. CASE create_speed
    BY <1>0, <1>1 DEF create_speed, set_chassis_speed, Enter, MovingInv
  <1>2. CASE create_turn
    BY <1>0, <1>2 DEF create_turn, set_chassis_turn, Enter, MovingInv
  <1>3. CASE follow_remote
    <2>1. call = "none"
      BY <1>0, <1>3 DEF follow_remote, MovingInv
    <2>2. /\ followCmd \in {"NONE", "STOP", "SPEED", "DIRECTION"} /\ followData \in Int
          /\ followCmd' = followCmd /\ followData' = followData /\ mode' = "REMOTE"
          /\ fpc' = "moving" /\ move_of_remote(followCmd, followData)
      BY <1>0, <1>3, InputAssumption DEF follow_remote, TypeOK
    <2> HIDE DEF mailVars, chassisVars
    <2>3. /\ call' = "speed" => \/ followCmd = "STOP" /\ arg' = 0
                                \/ followCmd = "SPEED" /\ arg' = followData
          /\ call' = "turn" => followCmd = "DIRECTION" /\ arg' = followData
          /\ call' = "none" => Reflects(followCmd, followData)'
          /\ call' # "register"
      BY <2>1, <2>2, MoveBegins
    <2> QED BY <2>2, <2>3 DEF MovingInv
  <1>4. CASE call_step
    <2>1. /\ CallStep /\ call # "register" /\ call # "none"
          /\ UNCHANGED <<fpc, mode, followCmd, followData>>
      <3>1. call # "none"
        BY <1>0, <1>4 DEF call_step, CallStep, gpio_set_value, motor_set_speed, cache_speed,
             servo_set_angle, servo_start, Leaves, ChassisInv, ChassisTypeOK, Calls, Motors,
             Pins, Positive, Negative
      <3> QED BY <1>0, <1>4, <3>1 DEF call_step, MovingInv
    <2>2. \/ call' = call /\ arg' = arg
          \/ call' = "none" /\ call = "speed" /\ (\A d : d = arg => Reflects("SPEED", d)')
                            /\ (arg = 0 => \A d : Reflects("STOP", d)')
          \/ call' = "none" /\ call = "turn" /\ (\A d : d = arg => Reflects("DIRECTION", d)')
      BY <1>0, <2>1, CallReturns
    <2>3. CASE call' = call /\ arg' = arg
      BY <1>0, <2>1, <2>3 DEF MovingInv
    <2>4. CASE call' = "none"
      <3>1. ASSUME fpc = "moving" PROVE Reflects(followCmd, followData)'
        <4>1. CASE call = "speed" /\ followCmd = "STOP" /\ arg = 0
          BY <2>1, <2>2, <2>4, <4>1
        <4>2. CASE call = "speed" /\ followCmd = "SPEED" /\ arg = followData
          BY <2>1, <2>2, <2>4, <4>2
        <4>3. CASE call = "turn" /\ followCmd = "DIRECTION" /\ arg = followData
          BY <2>1, <2>2, <2>4, <4>3
        <4> QED BY <1>0, <2>1, <2>2, <2>4, <3>1, <4>1, <4>2, <4>3 DEF MovingInv
      <3>2. fpc = "moving" => mode = "REMOTE"
        BY <1>0 DEF MovingInv
      <3> QED BY <2>1, <2>4, <3>1, <3>2 DEF MovingInv
    <2> QED BY <2>2, <2>3, <2>4
  <1>5. CASE store_move \/ store_mode
    BY <1>0, <1>5 DEF store_move, store_mode, MovingInv, MutexInv
  <1>6. CASE create_look
    BY <1>0, <1>6 DEF create_look, MovingInv
  <1>7. CASE follow_moved
    BY <1>0, <1>7 DEF follow_moved, MovingInv
  <1>8. ASSUME ~(create_speed \/ create_turn \/ create_look \/ follow_remote \/ call_step
                   \/ follow_moved \/ store_move \/ store_mode)
        PROVE  MovingInv'
    <2>1. UNCHANGED chassisVars
      BY <1>8, OnlyMovesTouchChassis
    <2>2. UNCHANGED <<followCmd, followData>>
      BY <1>8, OnlyStoresTouchMailbox
    <2>3. Reflects(followCmd, followData)' <=> Reflects(followCmd, followData)
      BY <1>0, <2>1, <2>2, ChassisUnchanged
    <2>4. /\ fpc \in {"straight", "look", "moving"} => fpc' = fpc
          /\ fpc' = "moving" => fpc = "moving"
          /\ fpc' = "moving" => mode' = mode
      BY <1>0, <1>8
         DEF Next, vars, Boot, Client, Comm, CommCallback, FollowThread, FollowStep,
           start_comm, start_follow, stlr_stop, Send, Reset, comm_top, poll_timeout,
           comm_read, comm_lock, comm_signal, comm_unlock, comm_ack, follow_top,
           follow_lock, follow_auto, follow_none, follow_sleep, follow_slept,
           follow_park, spurious_wakeup, follow_relock, follow_unlock
    <2>5. UNCHANGED <<call, arg>>
      BY <2>1
    <2> HIDE DEF chassisVars, mailVars, netVars
    <2> QED BY <1>0, <2>2, <2>3, <2>4, <2>5 DEF MovingInv
  <1> QED
    BY <1>1, <1>2, <1>3, <1>4, <1>5, <1>6, <1>7, <1>8

\* Every step keeps the mailbox in step with the chassis and the program counters.
LEMMA MailboxStep ==
  ASSUME FollowInv, [Next]_vars
  PROVE  MailboxInv'
PROOF
  <1> USE DEF MailboxInv
  <1>0. TypeOK /\ ChassisInv /\ MutexInv /\ MailboxInv /\ MovingInv
    BY DEF FollowInv
  <1>1. CASE create_speed \/ create_turn
    BY <1>0, <1>1 DEF create_speed, create_turn
  <1>2. CASE store_move
    BY <1>0, <1>2 DEF store_move, Moves, Command
  <1>3. CASE store_mode
    BY <1>0, <1>3 DEF store_mode, Switches, Command
  <1>4. CASE follow_moved
    <2>1. Reflects(followCmd, followData)
      BY <1>0, <1>4 DEF follow_moved, MovingInv
    <2>2. Reflects(followCmd, followData)'
      BY <1>0, <1>4, <2>1, ChassisUnchanged DEF follow_moved
    <2>3. cpc # "off" \/ mode = "NONE"
      BY <1>0
    <2> QED BY <1>0, <1>4, <2>2, <2>3 DEF follow_moved
  <1>5. ASSUME ~(create_speed \/ create_turn \/ store_move \/ store_mode
                   \/ follow_moved)
        PROVE  MailboxInv'
    <2>2. /\ UNCHANGED <<followCmd, followData, settled, heard>>
          /\ cpc' = "off" => cpc = "off" /\ mode' = mode
          /\ fpc' \in {"create", "straight", "look"} => fpc' = fpc
      BY <1>5, OnlyStoresTouchMailbox
    <2>3. settled /\ Reflects(followCmd, followData) => Reflects(followCmd, followData)'
      <3>0. followCmd \in {"NONE", "STOP", "SPEED", "DIRECTION"} /\ followData \in Int
        BY <1>0, InputAssumption DEF TypeOK
      <3>1. CASE call_step
        <4>1. settled => fpc = "moving" \/ call = "none"
          BY <1>0 DEF MovingInv
        <4>2. CASE settled /\ fpc = "moving"
          BY <1>0, <2>2, <3>0, <3>1, <4>2, CallReflects DEF call_step, MovingInv
        <4>3. CASE call = "none"
          BY <1>0, <3>1, <4>3 DEF call_step, CallStep, gpio_set_value, motor_set_speed,
               cache_speed, servo_set_angle, servo_start, Leaves, ChassisInv, ChassisTypeOK,
               Calls, Motors, Pins, Positive, Negative
        <4> QED BY <4>1, <4>2, <4>3
      <3>2. CASE follow_remote
        <4>1. call = "none"
          BY <1>0, <3>2 DEF follow_remote, MovingInv
        <4>2. UNCHANGED devVars
          BY <3>0, <3>2, <4>1, MoveBegins DEF follow_remote
        <4> QED BY <2>2, <4>2 DEF Reflects, devVars
      <3>3. CASE ~(call_step \/ follow_remote)
        BY <1>0, <1>5, <2>2, <3>3, OnlyMovesTouchChassis, ChassisUnchanged
      <3> QED BY <3>1, <3>2, <3>3
    <2>4. fpc' \in {"park", "wait"} /\ mode' = "REMOTE" /\ cpc' # "signal" => settled
      <3>1. CASE Boot \/ stlr_stop \/ Client \/ UNCHANGED vars
        BY <1>0, <1>5, <3>1 DEF vars, Boot, Client, create_look, start_comm, start_follow,
             stlr_stop, Send, Reset
      <3>2. CASE Comm
        BY <1>0, <1>5, <3>2 DEF MutexInv, Comm, CommCallback, comm_top,
             poll_timeout, comm_read, comm_lock, comm_signal, comm_unlock, comm_ack
      <3>3. CASE FollowThread
        BY <1>0, <1>5, <3>3 DEF MutexInv, FollowThread, FollowStep, follow_top,
             follow_remote, call_step, follow_lock, follow_auto, follow_none, follow_sleep,
             follow_slept, follow_park, spurious_wakeup, follow_relock, follow_unlock
      <3> QED
        BY <3>1, <3>2, <3>3 DEF Next
    <2> HIDE DEF chassisVars, mailVars, netVars
    <2> QED
      BY <1>0, <2>2, <2>3, <2>4
  <1> QED
    BY <1>1, <1>2, <1>3, <1>4, <1>5

\* The invariant is inductive.
LEMMA NextInv == FollowInv /\ [Next]_vars => FollowInv'
PROOF
  <1> SUFFICES ASSUME FollowInv, [Next]_vars
               PROVE  FollowInv'
    OBVIOUS
  <1>1. ChassisInv' /\ MutexInv' /\ MailboxInv' /\ MovingInv'
    BY ChassisSteps, AnyKeepsInv, MutexStep, MailboxStep, MovingStep DEF FollowInv
  <1>2. TypeOK'
    <2>1. CASE UNCHANGED vars
      BY <2>1 DEF vars, FollowInv, TypeOK, ChassisTypeOK, Calls
    <2> QED
      BY <1>1, <2>1, CommType, FollowType DEF Next, FollowInv, ChassisInv
  <1> QED
    BY <1>1, <1>2 DEF FollowInv

\* The locks, the mailbox and the chassis are in step in every reachable state,
\* whatever the client sends, however TCP cuts it and whichever devices fail.
THEOREM FollowInvariant == Spec => []FollowInv
BY InitInv, NextInv, PTL DEF Spec

\* Type correctness of Follow.
THEOREM TypeCorrect == Spec => []TypeOK
PROOF
  <1>1. FollowInv => TypeOK
    BY DEF FollowInv
  <1> QED
    BY <1>1, FollowInvariant, PTL

\* No command is lost between comm_receive_callback and stlr_follow_loop: a
\* follow thread that waits in remote mode has executed what the mailbox holds.
THEOREM NothingLost == Spec => []NoLostCommand
PROOF
  <1>1. FollowInv => NoLostCommand
    BY DEF FollowInv, MailboxInv, NoLostCommand
  <1> QED
    BY <1>1, FollowInvariant, PTL

\* A step of a call gives a motor no duty but the magnitude of its argument.
LEMMA CallDuty ==
  ASSUME ChassisInv, CallStep, NEW m \in Motors, duty'[m] # duty[m]
  PROVE  call \in {"register", "speed"} /\ duty'[m] = Abs(arg)
PROOF
  <1>1. PICK n \in Motors : motor_set_speed(n)
    BY DEF CallStep, gpio_set_value, cache_speed, servo_set_angle, servo_start, devVars
  <1>2. duty \in [Motors -> 0..SPEED_MAX] /\ Calls
    BY DEF ChassisInv, ChassisTypeOK
  <1>3. call \in {"register", "speed"}
    BY <1>1, <1>2 DEF motor_set_speed, Leaves, Calls, Motors
  <1> QED BY <1>1, <1>2, <1>3 DEF motor_set_speed

\* A motor gets new power only from a SPEED that the client sent after the last
\* mode switch, executed in remote mode.
THEOREM PowerFromSession == Spec => PowerOnlyFromThisSession
PROOF
  <1>1. ASSUME FollowInv, [Next]_vars, NEW m \in Motors,
               duty'[m] # duty[m], duty'[m] # 0
        PROVE  mode = "REMOTE" /\ \E s \in heard : duty'[m] = Abs(s)
    <2>1. Abs(0) = 0
      BY SMT DEF Abs
    <2>2. CASE create_speed \/ create_turn
      BY <1>1, <2>2 DEF create_speed, create_turn, set_chassis_speed, set_chassis_turn, devVars
    <2>3. CASE follow_remote
      <3>1. /\ call = "none" /\ followData \in Int
            /\ followCmd \in {"NONE", "STOP", "SPEED", "DIRECTION"}
        BY <1>1, <2>3, InputAssumption DEF follow_remote, FollowInv, TypeOK, MovingInv
      <3>2. duty' = duty
        BY <2>3, <3>1, MoveBegins DEF follow_remote
      <3> QED BY <1>1, <3>2
    <2>4. CASE call_step
      <3>1. call = "speed" /\ duty'[m] = Abs(arg)
        BY <1>1, <2>4, CallDuty DEF call_step, FollowInv, MovingInv
      <3>2. fpc = "moving"
        BY <1>1, <2>1, <3>1 DEF FollowInv, MovingInv
      <3>3. mode = "REMOTE" /\ followCmd = "SPEED" /\ arg = followData
        BY <1>1, <2>1, <3>1, <3>2 DEF FollowInv, MovingInv
      <3>4. followData \in heard
        BY <1>1, <3>3 DEF FollowInv, MailboxInv
      <3> QED BY <3>1, <3>3, <3>4
    <2>5. CASE ~(create_speed \/ create_turn \/ follow_remote \/ call_step)
      BY <1>1, <2>5, OnlyMovesTouchChassis DEF devVars
    <2> QED
      BY <2>2, <2>3, <2>4, <2>5
  <1>2. FollowInv /\ [Next]_vars =>
          [\A m \in Motors : duty'[m] # duty[m] /\ duty'[m] # 0 =>
             mode = "REMOTE" /\ \E s \in heard : duty'[m] = Abs(s)]_vars
    BY <1>1
  <1> QED
    BY <1>2, FollowInvariant, PTL DEF Spec, PowerOnlyFromThisSession

-----------------------------------------------------------------------------

\* Every step of the threads is a step of RemoteControl or invisible to it.
LEMMA StepSimulates ==
  ASSUME FollowInv, [Next]_vars
  PROVE  [Promise!Next]_(Promise!vars)
PROOF
  <1> USE DEF Promise!vars
  <1>1. CASE store_move
    <2>1. rx.cmd = "STOP" => rx.data = 0
      BY <1>1 DEF store_move, Moves, Command
    <2>2. Promise!Command([cmd |-> rx.cmd, data |-> rx.data])
      BY <1>1, <2>1 DEF store_move, Promise!Command
    <2>3. [cmd |-> rx.cmd, data |-> rx.data] \in
            [cmd : {"STOP"}, data : {0}] \cup [cmd : {"SPEED"}, data : Speeds]
              \cup [cmd : {"DIRECTION"}, data : Turns]
      BY <1>1 DEF store_move, Moves, Command
    <2> QED
      BY <2>2, <2>3 DEF Promise!Next
  <1>2. CASE store_mode
    <2>1. \E m \in {"AUTO", "REMOTE"} : Promise!SwitchMode(m)
      BY <1>2 DEF store_mode, Promise!SwitchMode, Promise!Stop
    <2> QED
      BY <2>1 DEF Promise!Next
  <1>3. CASE follow_moved
    <2>1. mode = "REMOTE"
      BY <1>3 DEF follow_moved, FollowInv, MovingInv
    <2>2. Promise!Apply
      BY <1>3, <2>1 DEF follow_moved, Promise!Apply
    <2> QED
      BY <2>2 DEF Promise!Next
  <1>4. CASE stlr_stop
    <2>1. Promise!Shutdown
      BY <1>4 DEF stlr_stop, Promise!Shutdown
    <2> QED
      BY <2>1 DEF Promise!Next
  <1>5. CASE start_comm
    BY <1>5 DEF start_comm, FollowInv, MailboxInv
  <1>6. CASE ~(store_move \/ store_mode \/ follow_moved \/ stlr_stop \/ start_comm)
    <2>1. UNCHANGED <<mode, followCmd, followData, settled, isStop>>
      BY <1>6 DEF Next, vars, Boot, Client, Comm, CommCallback, FollowThread,
           FollowStep, create_speed, create_turn, create_look, follow_remote,
           call_step, start_follow, Send, Reset, comm_top,
           poll_timeout, comm_read, comm_lock, comm_signal, comm_unlock, comm_ack,
           follow_top, follow_lock, follow_auto, follow_none, follow_sleep,
           follow_slept, follow_park, spurious_wakeup, follow_relock, follow_unlock
    <2> QED
      BY <2>1
  <1> QED
    BY <1>1, <1>2, <1>3, <1>4, <1>5, <1>6

\* The threads, the mailbox and the network implement RemoteControl, but for its
\* fairness: the newest command is in force, and a mode switch puts a stop in force.
THEOREM ImplementsRemoteControl == Spec => Promise!SafeSpec
PROOF
  <1>1. Init => Promise!Init
    BY DEF Init, Promise!Init
  <1> QED
    BY <1>1, StepSimulates, FollowInvariant, PTL DEF Spec, Promise!SafeSpec

=============================================================================

------------------------------- MODULE Follow -------------------------------
(***************************************************************************)
(* Remote control of the stroller: the client's frames, the comm thread's  *)
(* receive callback, the follow thread that drives the chassis, and the    *)
(* one-command mailbox, mutex and condition variable between the two.      *)
(* Translated from comm_receive_callback, stlr_follow_loop, move_of_remote,*)
(* stlr_create, stlr_start and stlr_stop in app/src/stroller.c.            *)
(*                                                                         *)
(* A frame "y<cmd> <data1> <data2> <checksum>c" is a record; TCP delivers  *)
(* a stream, so a read returns any chunk of it: several frames at once, or *)
(* a frame in two parts.                                                   *)
(***************************************************************************)
EXTENDS Chassis, Sequences

CONSTANTS
  RbufFrames,  \* how many frames fill rbuf (100 bytes)
  MaxNet       \* bound: how many frames the client has in flight

ASSUME BufAssumption == RbufFrames \in Nat \ {0} /\ MaxNet \in Nat \ {0}

VARIABLES
  net,        \* the frames sent and not yet read
  split,      \* the first part of Head(net) has been read already
  rx,         \* comm_receive_callback: the frame being handled, Unknown if none
  cpc, fpc,   \* where the comm thread and the follow thread are
  mutex,      \* who holds follow_mutex
  mode, followCmd, followData,  \* stroller_t: mode, follow_cmd, follow_data[0]
  isStop,     \* is_stop
  settled,    \* history: the mailbox has been executed since it was written
  heard       \* history: the speeds received since the last mode switch

mailVars  == <<mode, followCmd, followData, settled, heard>>
netVars   == <<net, split, rx>>
vars == <<chassisVars, netVars, mailVars, cpc, fpc, mutex, isStop>>

Command(cmd, data) == [cmd : cmd, data : data, form : {"good"}]

Moves == Command({"STOP"}, {0}) \cup Command({"SPEED"}, Speeds)
           \cup Command({"DIRECTION"}, Turns)
Switches == Command({"ACTION_MODE"}, {0, 1})

\* A well-formed frame with a command the callback does not know, one whose
\* checksum is wrong, and bytes that are no frame (no 'y' first, no 'c' last).
Unknown == [cmd |-> "NONE", data |-> 0, form |-> "good"]
BadSum  == [cmd |-> "NONE", data |-> 0, form |-> "badsum"]
Garbage == [cmd |-> "NONE", data |-> 0, form |-> "garbage"]

Frames == Moves \cup Switches \cup {Unknown, BadSum, Garbage}

-----------------------------------------------------------------------------

Init ==
  /\ ChassisInit
  /\ net = <<>> /\ split = FALSE /\ rx = Unknown
  /\ cpc = "off" /\ fpc = "create" /\ mutex = "none"
  /\ mode = "NONE" /\ followCmd = "NONE" /\ followData = 0
  /\ isStop = FALSE
  /\ settled = FALSE /\ heard = {}

\* stlr_create stops and straightens the chassis, then looks at the cache; the
\* calls themselves go on in call_step.
create_speed ==
  /\ fpc = "create"
  /\ set_chassis_speed(0)
  /\ fpc' = "straight"
  /\ UNCHANGED <<netVars, mailVars, cpc, mutex, isStop>>

create_turn ==
  /\ fpc = "straight"
  /\ set_chassis_turn(0)
  /\ fpc' = "look"
  /\ UNCHANGED <<netVars, mailVars, cpc, mutex, isStop>>

create_look ==
  /\ fpc = "look" /\ call = "none"
  /\ fpc' = IF get_chassis_speed = 0 /\ get_chassis_turn = 0
            THEN "spawn" ELSE "failed"
  /\ UNCHANGED <<chassisVars, netVars, mailVars, cpc, mutex, isStop>>

\* The call of set_chassis_speed or set_chassis_turn that stlr_create or the follow
\* thread is in accesses its next device.
call_step ==
  /\ CallStep
  /\ UNCHANGED <<netVars, mailVars, cpc, fpc, mutex, isStop>>

\* stlr_start: the comm thread runs before the follow thread exists.
start_comm ==
  /\ fpc = "spawn" /\ cpc = "off"
  /\ mode' = "NONE"
  /\ cpc' = "top"
  /\ UNCHANGED <<chassisVars, netVars, followCmd, followData, settled, heard,
                 fpc, mutex, isStop>>

start_follow ==
  /\ fpc = "spawn" /\ cpc # "off"
  /\ fpc' = "top"
  /\ UNCHANGED <<chassisVars, netVars, mailVars, cpc, mutex, isStop>>

stlr_stop ==
  /\ cpc # "off" /\ ~isStop
  /\ isStop' = TRUE
  /\ UNCHANGED <<chassisVars, netVars, mailVars, cpc, fpc, mutex>>

-----------------------------------------------------------------------------
(* The client and the network.                                             *)

Send(f) ==
  /\ cpc # "off" /\ Len(net) < MaxNet
  /\ net' = Append(net, f)
  /\ UNCHANGED <<chassisVars, split, rx, mailVars, cpc, fpc, mutex, isStop>>

\* The connection breaks; what was not read is lost with it.
Reset ==
  /\ net # <<>>
  /\ net' = <<>> /\ split' = FALSE
  /\ UNCHANGED <<chassisVars, rx, mailVars, cpc, fpc, mutex, isStop>>

-----------------------------------------------------------------------------
(* The comm thread: comm_loop and comm_receive_callback.                   *)

comm_top ==
  /\ cpc = "top"
  /\ cpc' = IF isStop THEN "exit" ELSE "poll"
  /\ UNCHANGED <<chassisVars, netVars, mailVars, fpc, mutex, isStop>>

poll_timeout ==
  /\ cpc = "poll"
  /\ cpc' = "top"
  /\ UNCHANGED <<chassisVars, netVars, mailVars, fpc, mutex, isStop>>

\* The checks of the callback on a chunk that ends n frames, and that ends with
\* the first part of another one if part: only the first and the last character
\* of the chunk are looked at, and only the first frame is parsed.
WellFramed(n, part) ==
  /\ ~split /\ n > 0 /\ ~part
  /\ Head(net).form = "good"
  /\ net[n].form # "garbage"

\* One read of at most sizeof(rbuf) bytes, and the callback up to its switch.
\* A chunk that fills rbuf leaves no terminating 0, so that strlen goes on into
\* sbuf: when something waits there the chunk does not end in 'c'.
comm_read ==
  /\ cpc = "poll"
  /\ \E n \in 0..Len(net), part \in BOOLEAN :
       LET size == IF part THEN n + 1 ELSE n IN
       /\ size > 0 /\ size <= Len(net) /\ size <= RbufFrames
       /\ n = 0 => ~split
       /\ net' = SubSeq(net, n + 1, Len(net))
       /\ split' = part
       /\ \/ /\ WellFramed(n, part)
             /\ rx' = Head(net)
             /\ cpc' = IF rx' \in Moves \cup Switches THEN "lock" ELSE "top"
          \/ /\ ~WellFramed(n, part) \/ size = RbufFrames
             /\ cpc' = "top"
             /\ UNCHANGED rx
  /\ UNCHANGED <<chassisVars, mailVars, fpc, mutex, isStop>>

comm_lock ==
  /\ cpc = "lock" /\ mutex = "none"
  /\ mutex' = "comm"
  /\ cpc' = "store"
  /\ UNCHANGED <<chassisVars, netVars, mailVars, fpc, isStop>>

store_move ==
  /\ cpc = "store" /\ rx \in Moves
  /\ followCmd' = rx.cmd
  /\ followData' = rx.data
  /\ heard' = IF rx.cmd = "SPEED" THEN heard \cup {rx.data} ELSE heard
  /\ settled' = FALSE
  /\ cpc' = "signal"
  /\ UNCHANGED <<chassisVars, netVars, mode, fpc, mutex, isStop>>

\* Mutant: a mode switch keeps the command that is in the mailbox.
Mutant_action_mode ==
  /\ cpc = "store" /\ rx \in Switches
  /\ mode' = IF rx.data = 0 THEN "AUTO" ELSE "REMOTE"
  /\ heard' = {}
  /\ settled' = FALSE
  /\ cpc' = "signal"
  /\ UNCHANGED <<chassisVars, netVars, followCmd, followData, fpc, mutex, isStop>>

store_mode ==
  /\ cpc = "store" /\ rx \in Switches
  /\ mode' = IF rx.data = 0 THEN "AUTO" ELSE "REMOTE"
  /\ followCmd' = "STOP"
  /\ heard' = {}
  /\ settled' = FALSE
  /\ cpc' = "signal"
  /\ UNCHANGED <<chassisVars, netVars, followData, fpc, mutex, isStop>>

\* Mutant: the waiting thread is not woken for a mode switch.
Mutant_signal ==
  /\ cpc = "signal"
  /\ cpc' = "unlock"
  /\ fpc' = IF fpc = "wait" /\ rx \in Moves THEN "relock" ELSE fpc
  /\ UNCHANGED <<chassisVars, netVars, mailVars, mutex, isStop>>

\* pthread_cond_signal: lost unless the follow thread waits.
comm_signal ==
  /\ cpc = "signal"
  /\ cpc' = "unlock"
  /\ fpc' = IF fpc = "wait" THEN "relock" ELSE fpc
  /\ UNCHANGED <<chassisVars, netVars, mailVars, mutex, isStop>>

comm_unlock ==
  /\ cpc = "unlock"
  /\ mutex' = "none"
  /\ cpc' = IF rx \in Switches THEN "ack" ELSE "top"
  /\ rx' = Unknown
  /\ UNCHANGED <<chassisVars, net, split, mailVars, fpc, isStop>>

\* The "ok" of a mode switch, outside the lock; stlr_comm_send is in Comm.
comm_ack ==
  /\ cpc = "ack"
  /\ cpc' = "top"
  /\ UNCHANGED <<chassisVars, netVars, mailVars, fpc, mutex, isStop>>

-----------------------------------------------------------------------------
(* The follow thread: stlr_follow_loop.                                    *)

follow_top ==
  /\ fpc = "top"
  /\ fpc' = IF isStop THEN "exit" ELSE "lock"
  /\ UNCHANGED <<chassisVars, netVars, mailVars, cpc, mutex, isStop>>

follow_lock ==
  /\ fpc = "lock" /\ mutex = "none"
  /\ mutex' = "follow"
  /\ fpc' = "run"
  /\ UNCHANGED <<chassisVars, netVars, mailVars, cpc, isStop>>

move_of_remote(cmd, data) ==
  CASE cmd = "STOP"      -> set_chassis_speed(0)
    [] cmd = "SPEED"     -> set_chassis_speed(data)
    [] cmd = "DIRECTION" -> set_chassis_turn(data)
    [] OTHER             -> UNCHANGED chassisVars

follow_remote ==
  /\ fpc = "run" /\ mode = "REMOTE"
  /\ move_of_remote(followCmd, followData)
  /\ fpc' = "moving"
  /\ UNCHANGED <<netVars, mailVars, cpc, mutex, isStop>>

\* Mutant: the mutex is released before the wait, not by it.
Mutant_follow_moved ==
  /\ fpc = "moving" /\ call = "none"
  /\ settled' = TRUE
  /\ mutex' = "none"
  /\ fpc' = "park"
  /\ UNCHANGED <<chassisVars, netVars, mode, followCmd, followData, heard, cpc, isStop>>

\* move_of_remote has returned.
follow_moved ==
  /\ fpc = "moving" /\ call = "none"
  /\ settled' = TRUE
  /\ fpc' = "park"
  /\ UNCHANGED <<chassisVars, netVars, mode, followCmd, followData, heard, cpc, mutex,
                 isStop>>

\* Measures and logs the three distances, with the mutex held.
follow_auto ==
  /\ fpc = "run" /\ mode = "AUTO"
  /\ fpc' = "measured"
  /\ UNCHANGED <<chassisVars, netVars, mailVars, cpc, mutex, isStop>>

follow_none ==
  /\ fpc = "run" /\ mode = "NONE"
  /\ fpc' = "park"
  /\ UNCHANGED <<chassisVars, netVars, mailVars, cpc, mutex, isStop>>

\* Mutant: the branch of the automatic mode keeps the mutex over its sleep.
Mutant_follow_sleep ==
  /\ fpc = "measured"
  /\ fpc' = "sleep"
  /\ UNCHANGED <<chassisVars, netVars, mailVars, cpc, mutex, isStop>>

follow_sleep ==
  /\ fpc = "measured"
  /\ mutex' = "none"
  /\ fpc' = "sleep"
  /\ UNCHANGED <<chassisVars, netVars, mailVars, cpc, isStop>>

follow_slept ==
  /\ fpc = "sleep"
  /\ fpc' = "top"
  /\ UNCHANGED <<chassisVars, netVars, mailVars, cpc, mutex, isStop>>

\* pthread_cond_wait: gives up the mutex and waits, in one step.
follow_park ==
  /\ fpc = "park"
  /\ mutex' = "none"
  /\ fpc' = "wait"
  /\ UNCHANGED <<chassisVars, netVars, mailVars, cpc, isStop>>

\* A wait may also end with no signal.
spurious_wakeup ==
  /\ fpc = "wait"
  /\ fpc' = "relock"
  /\ UNCHANGED <<chassisVars, netVars, mailVars, cpc, mutex, isStop>>

follow_relock ==
  /\ fpc = "relock" /\ mutex = "none"
  /\ mutex' = "follow"
  /\ fpc' = "woken"
  /\ UNCHANGED <<chassisVars, netVars, mailVars, cpc, isStop>>

follow_unlock ==
  /\ fpc = "woken"
  /\ mutex' = "none"
  /\ fpc' = "top"
  /\ UNCHANGED <<chassisVars, netVars, mailVars, cpc, isStop>>

-----------------------------------------------------------------------------

Boot == create_speed \/ create_turn \/ create_look \/ start_comm \/ start_follow

Client == (\E f \in Frames : Send(f)) \/ Reset

CommCallback == store_move \/ store_mode \/ comm_signal \/ comm_unlock \/ comm_ack

Comm == comm_top \/ poll_timeout \/ comm_read \/ comm_lock \/ CommCallback

FollowStep ==
  \/ follow_top \/ follow_remote \/ follow_moved \/ follow_auto \/ follow_none \/ follow_sleep
  \/ follow_slept \/ follow_park \/ follow_unlock \/ call_step

FollowThread == FollowStep \/ follow_lock \/ follow_relock \/ spurious_wakeup

Next == Boot \/ stlr_stop \/ Client \/ Comm \/ FollowThread

\* A thread that can run does; a mutex that is free again and again is acquired
\* in the end.  Nothing is asked of the client, of poll or of spurious wakeups.
Fairness ==
  /\ WF_vars(Boot)
  /\ WF_vars(CommCallback)
  /\ WF_vars(FollowStep)
  /\ SF_vars(comm_lock) /\ SF_vars(follow_lock) /\ SF_vars(follow_relock)

Spec == Init /\ [][Next]_vars

FairSpec == Spec /\ Fairness

-----------------------------------------------------------------------------

TypeOK ==
  /\ ChassisTypeOK
  /\ net \in Seq(Frames) /\ split \in BOOLEAN /\ rx \in Frames
  /\ cpc \in {"off", "top", "poll", "lock", "store", "signal", "unlock", "ack",
              "exit"}
  /\ fpc \in {"create", "straight", "look", "failed", "spawn", "top", "lock", "run",
              "moving", "park", "wait", "relock", "woken", "measured", "sleep", "exit"}
  /\ mutex \in {"none", "comm", "follow"}
  /\ mode \in {"NONE", "AUTO", "REMOTE"}
  /\ followCmd \in {"NONE", "STOP", "SPEED", "DIRECTION"}
  /\ followData \in Speeds \cup Turns \cup {0}
  /\ isStop \in BOOLEAN /\ settled \in BOOLEAN
  /\ heard \subseteq Speeds

\* Locking: follow_mutex is held by the thread that is between its lock and its unlock.
MutexInv ==
  /\ mutex = "comm" <=> cpc \in {"store", "signal", "unlock"}
  /\ mutex = "follow" <=> fpc \in {"run", "moving", "park", "woken", "measured"}

\* What executing a command leaves on the devices that do not fail, for as long
\* as nothing else is executed.
Reflects(cmd, data) ==
  /\ cmd = "STOP" => \A m \in Motors \ Faulty : duty[m] = 0
  /\ cmd = "SPEED" /\ Abs(data) <= SPEED_MAX =>
       /\ \A m \in Motors \ Faulty : duty[m] = Abs(data)
       /\ \A p \in Pins \ Faulty : pin[p] = Level(p, data)
  /\ cmd = "DIRECTION" /\ Turnable(data) /\ "servo" \notin Faulty =>
       servoDuty = ServoDuty(data + 90)

\* No command is lost between the two threads: whenever the follow thread waits
\* on the condition variable in remote mode, and the comm thread is not about to
\* signal it, the chassis does what the mailbox says; after a STOP, say, the
\* motors are off.
NoLostCommand ==
  fpc = "wait" /\ mode = "REMOTE" /\ cpc # "signal" =>
    Reflects(followCmd, followData)

\* The mailbox: what has been executed is visible on the chassis, a follow thread
\* that waits (or is about to) has executed it unless a signal is coming, and a
\* SPEED in it is one of this session.
MailboxInv ==
  /\ cpc = "off" => mode = "NONE"
  /\ fpc \in {"create", "straight", "look"} => ~settled
  /\ followCmd = "SPEED" => followData \in heard
  /\ settled => Reflects(followCmd, followData)
  /\ fpc \in {"park", "wait"} /\ mode = "REMOTE" /\ cpc # "signal" => settled

\* A call of the chassis is in progress only where the program counter says, in
\* remote mode it is the one the mailbox asks for, and when it returns the chassis
\* does what the mailbox says.
MovingInv ==
  /\ call # "none" => fpc \in {"straight", "look", "moving"}
  /\ call # "register"
  /\ call = "speed" /\ fpc # "moving" => arg = 0
  /\ fpc = "moving" =>
       /\ mode = "REMOTE"
       /\ call = "speed" => \/ followCmd = "STOP" /\ arg = 0
                            \/ followCmd = "SPEED" /\ arg = followData
       /\ call = "turn" => followCmd = "DIRECTION" /\ arg = followData
       /\ call = "none" => Reflects(followCmd, followData)

\* The inductive invariant: from locks and mailbox in step with the program
\* counters follows that no command is lost.
FollowInv == TypeOK /\ ChassisInv /\ MutexInv /\ MailboxInv /\ MovingInv

\* A motor is given new power only by the follow thread executing, in remote
\* mode, a SPEED that the client sent after the last mode switch: a speed from
\* before the switch never comes back.
PowerOnlyFromThisSession ==
  [][\A m \in Motors : duty'[m] # duty[m] /\ duty'[m] # 0 =>
       mode = "REMOTE" /\ \E s \in heard : duty'[m] = Abs(s)]_vars

\* A STOP in force in remote mode reaches the motors that work, unless it is
\* overtaken by another command, a mode switch or the end of the program.
StopReachesMotors ==
  (mode = "REMOTE" /\ followCmd = "STOP") ~>
    \/ \A m \in Motors \ Faulty : duty[m] = 0
    \/ mode # "REMOTE" \/ followCmd # "STOP" \/ isStop

\* stlr_create marks its calls "stop" and "straight" and reports "Failed to set
\* chassis speed and turn": once the threads run, the wheels have been set
\* straight.
CreatedStraight ==
  fpc \notin {"create", "straight", "look", "failed"} => servoDuty # 0

\* The promise of RemoteControl, kept by the threads.
Promise == INSTANCE RemoteControl WITH
  Commands <- [cmd : {"STOP"}, data : {0}] \cup [cmd : {"SPEED"}, data : Speeds]
                \cup [cmd : {"DIRECTION"}, data : Turns],
  cmd <- [cmd |-> followCmd, data |-> IF followCmd = "STOP" THEN 0 ELSE followData],
  stopped <- isStop

\* Follow implements RemoteControl: the newest command is in force, a mode switch
\* puts a stop in force, and what is in force is applied in the end.
KeepsPromise == Promise!Spec

=============================================================================

----------------------------- MODULE Lifecycle -----------------------------
(***************************************************************************)
(* The process from its start to its end, over several runs: main, the     *)
(* SIGINT handler, the sensor thread (SensorHub), the follow thread and    *)
(* the radar's thread, the lock of the log they all take, and what the     *)
(* motor drivers keep when the process is gone.  Translated from           *)
(* app/src/main.c, stlr_create, stlr_start, stlr_destroy and stlr_stop in  *)
(* app/src/stroller.c, chassis_register and chassis_destroy in chassis.c,  *)
(* motor_create and motor_destroy in motor.c, app/src/hal/hal_gpio.c and   *)
(* the locking of app/lib/log/log.c.                                       *)
(*                                                                         *)
(* The drivers' release functions do nothing, so a motor goes on as it was *)
(* last told when the process dies.  A duty is 0 or 1: some power.         *)
(***************************************************************************)
EXTENDS SensorHub

CONSTANTS
  Broken,    \* what may fail: devices whose open fails, "gpio", "thread"
  MaxRuns,   \* bound: how often the process is started
  MaxSigint  \* bound: how many SIGINTs a run gets in main, besides those that come while
             \*   main is in the handler

Motors  == {"mr", "ml"}
Bridge  == 1..4   \* USE_GPIO_IN1 to USE_GPIO_IN4
Xshut   == 5..6   \* the shutdown lines of vl6180_l and vl6180_r
Lines   == Bridge \cup Xshut
Faults  == {"mr", "ml", "servo", "iic", "gpio", "thread"}

ASSUME LifeAssumption ==
  Broken \subseteq Faults /\ MaxRuns \in Nat \ {0} /\ MaxSigint \in Nat

VARIABLES
  dev,      \* per motor, in its driver: the channel is "off", "on", or on because a STOP
            \*   has been "lost"; and the duty
  mine,     \* the motors this run has opened
  gone,     \* those of them that have been destroyed
  asked,    \* history: the most power this run has been told to give
  lines,    \* the GPIO lines there is a gpio_dev_t of
  held,     \* those whose lock is held
  next,     \* the next line to create
  mpc,      \* main: the name of what it does next
  then,     \* what it does after writing to the log
  contine,  \* contine
  hpc,      \* the handler of SIGINT: "off" (not installed), "idle", "log"
  sigints,  \* SIGINTs this run's main has got
  fpc,      \* the follow thread: "off", "wait", "ended", or what it is about to do
  rpc,      \* the radar's thread: "off", "poll", "warn" (holding the log), "ended"
            \*   (or stuck for ever)
  runs      \* how often the process has been started

bridge   == <<dev, mine, gone, asked>>
gpioVars == <<lines, held, next>>
mainVars == <<mpc, then, contine>>
sigVars  == <<hpc, sigints>>
procVars == <<isStop, logger, outcome>>
vars == <<hubVars, procVars, bridge, gpioVars, mainVars, sigVars, fpc, rpc, runs>>

Running == outcome = "running"

Init ==
  /\ SensorHubInit
  /\ isStop = 0 /\ logger = "none" /\ outcome = "running"
  /\ dev = [m \in Motors |-> [state |-> "off", duty |-> 0]]
  /\ mine = {} /\ gone = {} /\ asked = 0
  /\ lines = {} /\ held = {} /\ next = 1
  /\ mpc = "mr" /\ then = "mr" /\ contine = TRUE
  /\ hpc = "off" /\ sigints = 0
  /\ fpc = "off" /\ rpc = "off" /\ runs = 1

-----------------------------------------------------------------------------
(* Creating and destroying the motors and the GPIO lines.                  *)

\* Mutant: the speed is not set before the motor is started.
Mutant_motor_create(m) ==
  /\ dev' = [dev EXCEPT ![m].state = "on"]
  /\ mine' = mine \cup {m} /\ UNCHANGED <<gone, asked>>

\* No power, then START.  Neither result is looked at, but these ioctls of the driver
\* do not return an error.
motor_create(m) ==
  /\ dev' = [dev EXCEPT ![m] = [state |-> "on", duty |-> 0]]
  /\ mine' = mine \cup {m} /\ UNCHANGED <<gone, asked>>

\* STOP disables the channel, unless the driver's timer handler, which is just setting
\* the next edge, writes its own state over it (SoftPwm).  The duty stays.
Stopped(ms) ==
  \E lost \in SUBSET ms :
    dev' = [m \in Motors |-> IF m \in ms
                             THEN [dev[m] EXCEPT !.state = IF m \in lost THEN "lost" ELSE "off"]
                             ELSE dev[m]]

\* Mutant: closed and freed without a STOP.
Mutant_motor_close(ms) ==
  /\ dev' = dev
  /\ gone' = gone \cup (ms \cap mine) /\ UNCHANGED <<mine, asked>>

\* Mutant: no test for a motor that was never created.
Mutant_motor_destroy(ms) ==
  Stopped(ms) /\ gone' = gone \cup ms /\ UNCHANGED <<mine, asked>>

\* STOP, close and free, on each motor of ms that was created.
motor_destroy(ms) ==
  /\ Stopped(ms \cap mine)
  /\ gone' = gone \cup (ms \cap mine) /\ UNCHANGED <<mine, asked>>

\* Exports the line and sets its direction, which keeps the lock if the
\* direction cannot be written.
gpio_create(i) ==
  /\ lines' = lines \cup {i}
  /\ \/ held' = held
     \/ "gpio" \in Broken /\ held' = held \cup {i}

gpio_destroy(is) == lines' = lines \ is

\* Mutant: the lock is not given back.
Mutant_gpio_set_value(is) == held \cap is = {} /\ held' = held \cup is

\* Waits for the lock of each line.
gpio_set_value(is) == held \cap is = {} /\ held' = held

-----------------------------------------------------------------------------
(* main.                                                                   *)

\* main moves on, which it does not do while the handler runs on top of it.
Main(at, to) == Running /\ hpc # "log" /\ mpc = at /\ mpc' = to

\* An error path of stlr_create: main returns.
Fails(at) == Main(at, "returned") /\ outcome' = "exited"

RestOfMain ==
  UNCHANGED <<hubVars, isStop, logger, then, contine, sigVars, fpc, rpc, runs>>

main_motor(m, to) ==
  /\ \/ Main(m, to) /\ motor_create(m) /\ UNCHANGED outcome
     \/ m \in Broken /\ Fails(m) /\ motor_destroy(Motors)
  /\ UNCHANGED gpioVars /\ RestOfMain

main_servo ==
  /\ \/ Main("servo", "gpio") /\ UNCHANGED <<bridge, outcome>>
     \/ "servo" \in Broken /\ Fails("servo") /\ motor_destroy(Motors)
  /\ UNCHANGED gpioVars /\ RestOfMain

main_gpio ==
  /\ Main("gpio", "lower") \/ Main("xshut", "xlow")
  /\ gpio_create(next) /\ UNCHANGED next
  /\ UNCHANGED <<bridge, outcome>> /\ RestOfMain

\* Where main goes after lowering a line: another one of the bridge or the next step of
\* stlr_create; the other vl6180 or the rest of main.
AfterLower(i) ==
  CASE i < 4 -> "gpio" [] i = 4 -> "still" [] i = 5 -> "xshut" [] i = 6 -> "signal"

main_lower ==
  /\ Main("lower", AfterLower(next)) \/ Main("xlow", AfterLower(next))
  /\ gpio_set_value({next}) /\ UNCHANGED lines
  /\ next' = IF next = 6 THEN 6 ELSE next + 1
  /\ UNCHANGED <<bridge, outcome>> /\ RestOfMain

\* set_chassis_speed(0) and set_chassis_turn(0); the cache then says 0 and 0.
main_still ==
  /\ Main("still", "iic")
  /\ gpio_set_value(Bridge) /\ UNCHANGED <<lines, next>>
  /\ dev' = [m \in Motors |-> [dev[m] EXCEPT !.duty = 0]]
  /\ UNCHANGED <<mine, gone, asked, outcome>> /\ RestOfMain

\* chassis_destroy where no other thread of the stroller exists yet: the lines, then
\* the motors.
chassis_destroy == gpio_destroy(Bridge) /\ UNCHANGED <<held, next>> /\ motor_destroy(Motors)

main_iic ==
  /\ \/ Main("iic", "sensors") /\ UNCHANGED <<bridge, gpioVars, outcome>>
     \/ "iic" \in Broken /\ Fails("iic") /\ chassis_destroy
  /\ RestOfMain

\* The radar's thread starts here.  The two vl6180 come last: each creates and lowers
\* its shutdown line (main_gpio, main_lower) before it does anything with its chip,
\* which is the subject of Vl6180.  The TCP server's failure changes nothing.
main_sensors ==
  /\ Main("sensors", "xshut")
  /\ \E failed \in SUBSET MayFail :
       /\ stlr_sensor_create(failed)
       /\ rpc' = IF "hlk2411s" \in failed THEN "off" ELSE "poll"
  /\ UNCHANGED <<roundVars, procVars, bridge, gpioVars, then, contine, sigVars, fpc, runs>>

main_signal ==
  /\ Main("signal", "sensor_thread")
  /\ hpc' = "idle"
  /\ UNCHANGED <<hubVars, procVars, bridge, gpioVars, then, contine, sigints, fpc, rpc, runs>>

\* stlr_start's threads, one after the other; what the comm thread does is left to
\* Comm and Follow.  Each success is logged.  A failure ends the loop of main.
Started == [sensor_thread |-> "comm_thread", comm_thread |-> "follow_thread",
            follow_thread |-> "loop"]

main_thread(t) ==
  /\ \/ /\ Main(t, "log") /\ then' = Started[t]
        /\ spc' = IF t = "sensor_thread" THEN "top" ELSE spc
        /\ fpc' = IF t = "follow_thread" THEN "wait" ELSE fpc
        /\ UNCHANGED contine
     \/ /\ "thread" \in Broken /\ Main(t, "log") /\ then' = "loop"
        /\ contine' = FALSE /\ UNCHANGED <<spc, fpc>>
  /\ UNCHANGED <<kind, aht, reg, local, warned, before, procVars, bridge,
                 gpioVars, sigVars, rpc, runs>>

\* log_log: the lock is taken, the message written, the lock given back.
log_lock ==
  /\ Main("log", "unlock")
  /\ logger = "none" /\ logger' = "main"
  /\ UNCHANGED <<hubVars, isStop, outcome, bridge, gpioVars, then, contine, sigVars,
                 fpc, rpc, runs>>

log_unlock ==
  /\ Main("unlock", then)
  /\ logger' = "none"
  /\ outcome' = IF then = "returned" THEN "exited" ELSE outcome
  /\ UNCHANGED <<hubVars, isStop, bridge, gpioVars, then, contine, sigVars,
                 fpc, rpc, runs>>

\* The test of contine and the call of pause are two steps.
main_loop ==
  /\ \/ Main("loop", IF contine THEN "pause" ELSE "stlr_stop")
     \/ Main("pause", "paused")
  /\ UNCHANGED <<hubVars, procVars, bridge, gpioVars, then, contine, sigVars,
                 fpc, rpc, runs>>

\* The threads are asked, not waited for.
stlr_stop ==
  /\ Main("stlr_stop", "destroy") /\ isStop' = 1
  /\ UNCHANGED <<hubVars, logger, outcome, bridge, gpioVars, then, contine, sigVars,
                 fpc, rpc, runs>>

\* stlr_destroy: the sensors first, the two vl6180 with their lines, which are lowered
\* once more; then chassis_destroy, the lines of the bridge before the motors.  The
\* threads run on meanwhile.
main_destroy ==
  /\ Main("destroy", "ungpio") /\ stlr_sensor_destroy
  /\ gpio_set_value(Xshut) /\ gpio_destroy(Xshut) /\ UNCHANGED next
  /\ UNCHANGED <<roundVars, procVars, bridge, then, contine, sigVars, fpc, rpc, runs>>

main_ungpio ==
  /\ Main("ungpio", "unmr")
  /\ gpio_destroy(Bridge) /\ UNCHANGED <<held, next>>
  /\ UNCHANGED <<hubVars, procVars, bridge, then, contine, sigVars, fpc, rpc, runs>>

main_unmotor ==
  /\ \/ Main("unmr", "unml") /\ motor_destroy({"mr"}) /\ UNCHANGED then
     \/ Main("unml", "log") /\ motor_destroy({"ml"}) /\ then' = "returned"
  /\ UNCHANGED <<hubVars, procVars, gpioVars, contine, sigVars, fpc, rpc, runs>>

MainStep ==
  \/ main_motor("mr", "ml") \/ main_motor("ml", "servo") \/ main_servo
  \/ main_gpio \/ main_lower \/ main_still \/ main_iic \/ main_sensors \/ main_signal
  \/ \E t \in DOMAIN Started : main_thread(t)
  \/ log_lock \/ log_unlock \/ main_loop \/ stlr_stop
  \/ main_destroy \/ main_ungpio \/ main_unmotor

-----------------------------------------------------------------------------
(* SIGINT.                                                                 *)

\* The signal interrupts main wherever it is, and is blocked there until the handler
\* returns.  Before the handler is installed it kills (see Die).
sigint ==
  /\ Running /\ hpc = "idle" /\ sigints < MaxSigint
  /\ hpc' = "log" /\ sigints' = sigints + 1
  /\ UNCHANGED <<hubVars, procVars, bridge, gpioVars, mainVars, fpc, rpc, runs>>

\* Another one meanwhile goes to a thread it is not blocked in, which runs the handler
\* too.  Where that thread is itself writing to the log, it waits for itself from then
\* on: the radar's thread, or any other, whose writing is not split in steps.
sigint_again ==
  /\ Running /\ hpc = "log"
  /\ rpc # "off" \/ spc # "off"
  /\ \/ logger = "none" /\ contine' = FALSE /\ UNCHANGED <<logger, rpc>>
     \/ logger = "none" /\ spc # "off" /\ logger' = "lost" /\ UNCHANGED <<contine, rpc>>
     \/ rpc = "warn" /\ rpc' = "ended" /\ logger' = "lost" /\ UNCHANGED contine
  /\ UNCHANGED <<hubVars, isStop, outcome, bridge, gpioVars, mpc, then, sigVars, fpc,
                 runs>>

\* Mutant: contine is left alone.
Mutant_stop ==
  /\ Running /\ hpc = "log" /\ logger = "none"
  /\ hpc' = "idle" /\ contine' = contine
  /\ mpc' = IF mpc = "paused" THEN "loop" ELSE mpc
  /\ UNCHANGED <<hubVars, procVars, bridge, gpioVars, then, sigints, fpc, rpc, runs>>

\* The handler takes the lock of the log, even if main, under it, holds it; its
\* return ends pause.
stop ==
  /\ Running /\ hpc = "log" /\ logger = "none"
  /\ hpc' = "idle" /\ contine' = FALSE
  /\ mpc' = IF mpc = "paused" THEN "loop" ELSE mpc
  /\ UNCHANGED <<hubVars, procVars, bridge, gpioVars, then, sigints, fpc, rpc, runs>>

-----------------------------------------------------------------------------
(* The other threads.                                                      *)

\* A command of the client wakes the follow thread, which looks at is_stop first.
follow_wake ==
  /\ Running /\ fpc = "wait"
  /\ fpc' \in IF isStop = 1 THEN {"ended"} ELSE {"drive", "auto"}
  /\ UNCHANGED <<hubVars, procVars, bridge, gpioVars, mainVars, sigVars, rpc, runs>>

\* set_chassis_speed, after a line in the log; only motors not yet destroyed hear.
follow_drive ==
  /\ Running /\ fpc = "drive" /\ fpc' = "wait"
  /\ logger = "none"
  /\ \E power \in 0..1 :
       /\ dev' = [m \in Motors |->
                    IF m \in mine \ gone THEN [dev[m] EXCEPT !.duty = power] ELSE dev[m]]
       /\ asked' = IF power = 1 THEN 1 ELSE asked
  /\ UNCHANGED <<hubVars, procVars, mine, gone, gpioVars, mainVars, sigVars, rpc, runs>>

\* The automatic branch reads the distance sensors and logs them.
follow_auto ==
  /\ Running /\ fpc = "auto" /\ fpc' = "wait"
  /\ logger = "none"
  /\ UNCHANGED <<hubVars, procVars, bridge, gpioVars, mainVars, sigVars, rpc, runs>>

\* What the branch uses is a null pointer or has been freed.
follow_crash ==
  /\ Running
  /\ \/ fpc = "drive" /\ (gone # {} \/ ~(Bridge \subseteq lines))
     \/ fpc = "auto" /\ \E s \in {"hlk2411s", "vl6180_l", "vl6180_r"} : ~Usable(s)
  /\ outcome' = "crashed"
  /\ UNCHANGED <<hubVars, isStop, logger, bridge, gpioVars, mainVars, sigVars,
                 fpc, rpc, runs>>

Follow == follow_drive \/ follow_auto \/ follow_crash

\* The radar's thread has read something that is no frame, and says so.
radar_warn ==
  /\ Running /\ rpc = "poll" /\ rpc' = "warn"
  /\ logger = "none" /\ logger' = "radar"
  /\ UNCHANGED <<hubVars, isStop, outcome, bridge, gpioVars, mainVars, sigVars,
                 fpc, runs>>

radar_warned ==
  /\ Running /\ rpc = "warn" /\ rpc' = "poll"
  /\ logger' = "none"
  /\ UNCHANGED <<hubVars, isStop, outcome, bridge, gpioVars, mainVars, sigVars,
                 fpc, runs>>

\* pthread_cancel takes effect in read and usleep, or in the output of the log,
\* which then stays locked.
radar_cancelled ==
  /\ Running /\ kind["hlk2411s"] = "freed"
  /\ rpc \in {"poll", "warn"} /\ rpc' = "ended"
  /\ logger' = IF rpc = "warn" THEN "lost" ELSE logger
  /\ UNCHANGED <<hubVars, isStop, outcome, bridge, gpioVars, mainVars, sigVars,
                 fpc, runs>>

Sensing ==
  /\ Running /\ SensorLoop
  /\ UNCHANGED <<bridge, gpioVars, mainVars, sigVars, fpc, rpc, runs>>

-----------------------------------------------------------------------------
(* Death and restart.                                                      *)

\* The process has the memory it starts with: nothing is left of an earlier run.
Cleared ==
  /\ SensorHubReset
  /\ isStop' = 0 /\ logger' = "none"
  /\ mine' = {} /\ gone' = {} /\ asked' = 0
  /\ lines' = {} /\ held' = {} /\ next' = 1
  /\ mpc' = "mr" /\ then' = "mr" /\ contine' = TRUE
  /\ hpc' = "off" /\ sigints' = 0
  /\ fpc' = "off" /\ rpc' = "off"

\* SIGKILL, the SIGPIPE of a write to a client that is gone, or a SIGINT before
\* the handler is installed, and everything is gone but the drivers' state.
Die ==
  /\ Running /\ outcome' = "killed"
  /\ Cleared /\ UNCHANGED <<dev, runs>>

\* The process is started again, and finds the drivers as they were.
Restart ==
  /\ ~Running /\ runs < MaxRuns /\ runs' = runs + 1
  /\ outcome' = "running"
  /\ Cleared /\ UNCHANGED dev

Next ==
  \/ MainStep \/ sigint \/ sigint_again \/ stop
  \/ follow_wake \/ Follow
  \/ radar_warn \/ radar_warned \/ radar_cancelled
  \/ Sensing
  \/ Die \/ Restart

\* Every thread is scheduled, and none waits for the log's lock for ever while
\* others take turns with it.
Spec ==
  /\ Init /\ [][Next]_vars
  /\ SF_vars(MainStep) /\ SF_vars(stop)
  /\ WF_vars(radar_warned \/ radar_cancelled)

-----------------------------------------------------------------------------

LifeTypeOK ==
  /\ HubTypeOK
  /\ isStop \in 0..1
  /\ logger \in {"none", "main", "radar", "lost"}
  /\ outcome \in {"running", "exited", "killed", "crashed"}
  /\ dev \in [Motors -> [state : {"off", "on", "lost"}, duty : 0..1]]
  /\ gone \subseteq mine /\ mine \subseteq Motors
  /\ asked \in 0..1 /\ contine \in BOOLEAN
  /\ lines \subseteq Lines /\ held \subseteq Lines /\ next \in Lines
  /\ mpc \in {"mr", "ml", "servo", "gpio", "lower", "still", "iic", "sensors", "xshut",
              "xlow", "signal", "sensor_thread", "comm_thread", "follow_thread", "log", "unlock",
              "loop", "pause", "paused", "stlr_stop", "destroy", "ungpio", "unmr", "unml",
              "returned"}
  /\ hpc \in {"off", "idle", "log"} /\ sigints \in 0..MaxSigint
  /\ fpc \in {"off", "wait", "drive", "auto", "ended"}
  /\ rpc \in {"off", "poll", "warn", "ended"}
  /\ runs \in 1..MaxRuns

\* However the last run ended, and whatever its motors were doing, a motor that this
\* run has opened gives no power before this run is told to move.
StillUntilTold == \A m \in mine : dev[m].duty <= asked

Powered(m) == dev[m].state # "off" /\ dev[m].duty = 1

\* When main returns, by whichever of its paths, a motor it opened gives power in one
\* case only: this run has driven it, and its driver's handler has written over the
\* STOP.  chassis_destroy sets no speed 0 that would make up for that, and the threads
\* main has not waited for may drive on until the last motor is stopped.
PoweredAtExitOnlyByRace ==
  outcome = "exited" =>
    \A m \in mine : Powered(m) => asked = 1 /\ dev[m].state = "lost"

\* The program only ever falls over a null or a freed sensor or motor once
\* stlr_stop has been called: until then the fakes stand in for what is missing.
NoCrashWhileRunning == outcome = "crashed" => isStop = 1

\* A SIGINT ends the run, with these exceptions: it comes between main's test of
\* contine and pause; it finds main writing to the log, where the handler waits for the
\* lock for ever; or the lock is lost, with the radar's thread (main has stopped the
\* motors then but does not return) or to a second SIGINT.
SigintEnds ==
  (Running /\ hpc = "log" /\ mpc # "pause")
    ~> (~Running \/ (hpc = "log" /\ logger = "main") \/ logger = "lost")

\* Every run comes to the point where SIGINT is handled, or ends before; only a GPIO
\* line whose direction could not be set holds it up, at the next use of the line: one
\* of the bridge, or the shutdown line of a vl6180.
Boots ==
  (Running /\ hpc = "off")
    ~> (~Running \/ hpc # "off" \/ (mpc \in {"lower", "xlow"} /\ held = {next}))

-----------------------------------------------------------------------------
(* What makes the safety properties inductive.                             *)

\* Where main is, or goes on once it has written to the log.
Where == IF mpc \in {"log", "unlock"} THEN then ELSE mpc

\* The stretches of main: before the sensors exist, while the two vl6180 come into
\* being, while all is there, and after the sensors are gone.
Booting  == {"mr", "ml", "servo", "gpio", "lower", "still", "iic", "sensors"}
Equipping == {"xshut", "xlow"}
Equipped == {"signal", "sensor_thread", "comm_thread", "follow_thread", "loop",
             "pause", "paused", "stlr_stop", "destroy"}
Leaving  == {"ungpio", "unmr", "unml", "returned"}

\* The lines of the bridge that exist while main is at p.
BridgeAt(p) == CASE p = "gpio"  -> 1..(next - 1)
                 [] p = "lower" -> 1..next
                 [] p \in {"still", "iic", "sensors", "ungpio"} \cup Equipping \cup Equipped
                      -> Bridge
                 [] OTHER -> {}

MainInv ==
  /\ then \in {"mr", "comm_thread", "follow_thread", "loop", "returned"}
  /\ Where \in Booting => rpc = "off" /\ \A s \in Sensors : kind[s] = "none"
  /\ Where \in Booting \cup Equipping => spc = "off" /\ fpc = "off" /\ hpc = "off"
  /\ Where \in {"signal", "sensor_thread"} => spc = "off"
  /\ Where \in Equipping \cup Equipped => \A s \in Sensors : Usable(s)
  /\ Running => BridgeAt(Where) \subseteq lines
  /\ Where \in {"mr", "ml", "servo"} => next = 1
  /\ Where \in {"gpio", "lower"} => next <= 4
  /\ Where \in {"still", "iic", "sensors"} \cup Equipping => next >= 5
  /\ Running /\ Where \in {"destroy"} \cup Leaving => isStop = 1
  /\ Running /\ gone # {} => Where \in {"unml", "returned"}

\* The lock of the log is held only by who is writing, and lost only with a radar's
\* thread that is cancelled in the middle of it, after stlr_stop, or under a handler
\* that never returns.
LogInv ==
  /\ logger = "main" <=> mpc = "unlock"
  /\ logger = "radar" <=> rpc = "warn"
  /\ logger = "lost" => (rpc = "ended" /\ isStop = 1) \/ hpc = "log"

\* Once main has destroyed a motor, it is not started any more, and when it returns it
\* has destroyed them all.
StoppedInv ==
  /\ \A m \in gone : dev[m].state # "on"
  /\ Where = "unml" => "mr" \in gone \/ "mr" \notin mine
  /\ Where = "returned" => mine \subseteq gone
  /\ outcome = "exited" => mpc = "returned"

\* The sensor thread: what the chip has measured in a round is still in the chip, and
\* what is taken of it is of the round before, if both go without a warning.
RoundInv ==
  /\ aht["temp"] = aht["humi"] /\ aht["temp"] \notin {"uninit", "fresh"}
  /\ spc \in {"off", "top"} => "aht10" \in warned
  /\ kind["aht10"] = "real" /\ spc # "off" =>
       /\ spc = "aht10" => reg # "fresh" /\ ("aht10" \notin before => reg = "last")
       /\ spc \in {"mq135", "sw18015", "sleep"} /\ "aht10" \notin warned =>
            reg = "fresh"
  /\ kind["aht10"] = "real" /\ spc \in {"mq135", "sw18015", "sleep"} =>
       /\ local["temp"] = local["humi"] /\ local["temp"] \notin {"uninit", "fresh"}
       /\ "aht10" \notin warned \cup before => local["temp"] = "last"
  /\ kind["sw18015"] = "real" /\ spc = "sleep" =>
       local["shake"] = "fresh" \/ "sw18015" \in warned

LifeInv ==
  /\ LifeTypeOK
  /\ MainInv /\ LogInv /\ StoppedInv /\ RoundInv
  /\ StillUntilTold /\ NoCrashWhileRunning

=============================================================================

----------------------------- MODULE SensorHub -----------------------------
(***************************************************************************)
(* The sensors of the stroller as the sensor thread uses them: creation    *)
(* with a fake one in place of what cannot be created, one round of        *)
(* sensor_loop, and destruction.  Translated from sensor_loop,             *)
(* stlr_sensor_create and stlr_sensor_destroy in app/src/stroller.c, from  *)
(* app/src/sensor/{sensor_platfrom,sensor_op,sensor_aht10_op,              *)
(* sensor_mq135_op,sensor_fake_op,sensor_sw18015_op}.c and the plain reads *)
(* and writes of app/src/hal/hal_iic.c.                                    *)
(*                                                                         *)
(* Of a value only its age is kept: "uninit" if nothing was ever stored,   *)
(* "fresh" if it was measured in this round, "last" if in the one before,  *)
(* "old" if earlier, or never: as calloc or the chip's reset left it.  The *)
(* module has no specification of its own: Lifecycle runs the thread       *)
(* inside the process.                                                     *)
(***************************************************************************)
EXTENDS Naturals

CONSTANT
  MayFail   \* the sensors whose creation may fail in the instance at hand; that of a
            \*   vl6180 does not, short of memory

Sensors == {"aht10", "mq135", "sw18015", "hlk2411s", "vl6180_l", "vl6180_r"}

ASSUME SensorsAssumption == MayFail \subseteq Sensors \ {"vl6180_l", "vl6180_r"}

VARIABLES
  kind,      \* per sensor: "none" (a null pointer), "real", "fake" or "freed"
  aht,       \* the aht10's data: temperature and humidity
  reg,       \* what the aht10, the chip, has measured last; no process owns it
  local,     \* sensor_loop's temp, humi, co2 and shake, which telemetry is made of
  warned,    \* the sensors this round has logged a warning about
  before,    \* history: {"aht10"} if the round before this one has warned about it
  spc,       \* the sensor thread: "off", "top", "aht10", "mq135", "sw18015",
             \*   "sleep" (the telemetry is made), "ended"
  isStop,    \* is_stop, 0 or 1
  logger,    \* who holds the lock of the log, "none", or "lost": a thread that ended
  outcome    \* the process: "running", "exited", "killed" or "crashed"

roundVars == <<aht, reg, local, warned, before, spc>>
hubVars   == <<kind, roundVars>>

Ages   == {"uninit", "old", "last", "fresh"}
Values == {"temp", "humi", "co2", "shake"}

\* The age one round later of what is in the process: it is of an earlier round.
Aged(a) == IF a = "uninit" THEN "uninit" ELSE "old"

\* Using a null or a freed sensor need not crash the process, but it may.
Usable(s) == kind[s] \in {"real", "fake"}

-----------------------------------------------------------------------------

SensorHubInit ==
  /\ kind = [s \in Sensors |-> "none"]
  /\ aht = [temp |-> "old", humi |-> "old"]
  /\ local = [v \in Values |-> "uninit"]
  /\ reg = "old"
  /\ warned = {"aht10"} /\ before = {"aht10"} /\ spc = "off"

\* The same for a process that is started anew; what the chip has measured is not of
\* its rounds.  Before the first round it is as if the aht10 had failed.
SensorHubReset ==
  /\ kind' = [s \in Sensors |-> "none"]
  /\ aht' = [temp |-> "old", humi |-> "old"]
  /\ local' = [v \in Values |-> "uninit"]
  /\ reg' = "old"
  /\ warned' = {"aht10"} /\ before' = {"aht10"} /\ spc' = "off"

\* A sensor whose device cannot be opened is freed again, and null returned.
sensor_create_with_register(s, failed) == IF s \in failed THEN "none" ELSE "real"

\* Mutant: a sensor that cannot be created stays a null pointer.
Mutant_sensor_create(failed) ==
  kind' = [s \in Sensors |-> sensor_create_with_register(s, failed)]

\* A fake takes the place of each sensor that could not be created.
stlr_sensor_create(failed) ==
  kind' = [s \in Sensors |-> IF sensor_create_with_register(s, failed) = "none"
                             THEN "fake" ELSE "real"]

\* A null pointer is let be.
sensor_destroy(k) == IF k = "none" THEN "none" ELSE "freed"

stlr_sensor_destroy == kind' = [s \in Sensors |-> sensor_destroy(kind[s])]

\* Stores nothing, and returns 0.
fake_read == UNCHANGED <<aht, reg, local, warned>>

\* Mutant: the raw bytes are not cleared, and the failed read is not noticed.
Mutant_aht10_measure(event, data) ==
  IF event = "read_fails" THEN [temp |-> "uninit", humi |-> "uninit"]
  ELSE IF event = "busy" THEN [temp |-> reg, humi |-> reg] ELSE data

\* What the measurement leaves in the aht10's data.  It reads right after the trigger
\* and takes bit 7, which says that the chip is busy, for success: what it stores then
\* is what the chip had measured before.  iic_read returns 0 even when it fails: it is
\* the cleared buffer, without the bit, that gives it away.
aht10_measure(event, data) ==
  IF event = "busy" THEN [temp |-> reg, humi |-> reg] ELSE data

\* The chip measures once it has been triggered, whatever becomes of the read.
Triggered(event) == IF event = "write_fails" THEN reg ELSE "fresh"

AhtEvents == {"write_fails", "read_fails", "not_busy", "busy"}

\* Mutant: the results of the reads replace that of the measurement.
Mutant_aht10_ret(event) == FALSE

\* ret < 0 once the measurement's result and those of the two reads are or'ed.
Aht10Ret(event) == event # "busy"

\* sensor_config and two sensor_reads of the aht10, and the warning.
sensor_loop_aht10 ==
  /\ spc = "aht10" /\ spc' = "mq135"
  /\ \/ /\ kind["aht10"] = "real"
        /\ \E event \in AhtEvents :
             /\ aht' = aht10_measure(event, aht) /\ reg' = Triggered(event)
             /\ local' = [local EXCEPT !.temp = aht'.temp, !.humi = aht'.humi]
             /\ warned' = IF Aht10Ret(event) THEN warned \cup {"aht10"} ELSE warned
             /\ Aht10Ret(event) => logger = "none"
     \/ kind["aht10"] # "real" /\ fake_read
  /\ UNCHANGED <<kind, before, isStop, logger, outcome>>

\* mq135_read does what fake_read does.
sensor_loop_mq135 ==
  /\ spc = "mq135" /\ spc' = "sw18015"
  /\ fake_read
  /\ UNCHANGED <<kind, before, isStop, logger, outcome>>

\* Either ioctl may fail; the count is stored only after the first has not.  Then the
\* round's values go into the stroller's own copy, which nothing else reads, and into
\* telemetry, whose way is the subject of Comm.
sensor_loop_sw18015 ==
  /\ spc = "sw18015" /\ spc' = "sleep"
  /\ \/ /\ kind["sw18015"] = "real"
        /\ \E event \in {"count_fails", "clean_fails", "done"} :
             /\ local' = IF event = "count_fails" THEN local
                         ELSE [local EXCEPT !.shake = "fresh"]
             /\ warned' = IF event = "done" THEN warned ELSE warned \cup {"sw18015"}
             /\ event # "done" => logger = "none"
        /\ UNCHANGED <<aht, reg>>
     \/ kind["sw18015"] # "real" /\ fake_read
  /\ UNCHANGED <<kind, before, isStop, logger, outcome>>

\* Another round, at least five seconds after the last, in which everything is older;
\* or the end.
sensor_loop_top ==
  /\ spc \in {"top", "sleep"}
  /\ IF isStop = 1
     THEN spc' = "ended" /\ UNCHANGED <<aht, reg, local, warned, before>>
     ELSE /\ spc' = "aht10"
          /\ aht' = [v \in {"temp", "humi"} |-> Aged(aht[v])]
          /\ local' = [v \in Values |-> Aged(local[v])]
          /\ reg' = IF reg = "fresh" THEN "last" ELSE "old"
          /\ before' = warned \cap {"aht10"} /\ warned' = {}
  /\ UNCHANGED <<kind, isStop, logger, outcome>>

\* A call through a sensor that is not there.
sensor_loop_crash ==
  /\ spc \in Sensors /\ ~Usable(spc)
  /\ outcome' = "crashed"
  /\ UNCHANGED <<hubVars, isStop, logger>>

SensorLoop ==
  \/ sensor_loop_top \/ sensor_loop_aht10 \/ sensor_loop_mq135 \/ sensor_loop_sw18015
  \/ sensor_loop_crash

-----------------------------------------------------------------------------

HubTypeOK ==
  /\ kind \in [Sensors -> {"none", "real", "fake", "freed"}]
  /\ aht \in [{"temp", "humi"} -> Ages] /\ reg \in {"old", "last", "fresh"}
  /\ local \in [Values -> Ages]
  /\ warned \subseteq Sensors /\ before \subseteq {"aht10"}
  /\ spc \in {"off", "top", "aht10", "mq135", "sw18015", "sleep", "ended"}

\* What the round has published of a real aht10 is never of this round, for all that
\* it has just been told to measure: it is what the chip measured in the round before,
\* no older, unless one of the two rounds has logged a warning.  The count of a real
\* sw18015 is of this round, or this round has logged a warning.
StaleWarned ==
  spc = "sleep" =>
    /\ kind["aht10"] = "real" =>
         /\ local["temp"] # "fresh"
         /\ "aht10" \notin warned \cup before => local["temp"] = "last"
    /\ kind["sw18015"] = "real" /\ "sw18015" \notin warned => local["shake"] = "fresh"

\* Temperature and humidity of a real aht10 are always of one measurement, or both as
\* calloc or the chip's reset left them: a failed I2C read, which iic_read reports as a
\* success, never leaves anything else in them.
AhtNeverGarbage ==
  spc = "sleep" /\ kind["aht10"] = "real" =>
    local["temp"] = local["humi"] /\ local["temp"] # "uninit"

=============================================================================

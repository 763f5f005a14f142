# Smart stroller: TLA+ models, model checking and proofs

The stroller is a small Linux board that drives two motors and a steering
servo, reads a handful of sensors and talks to one remote client over TCP. The
application is in `src/app`, the kernel drivers of its devices in
`src/drivers`. The modules here model the parts in which threads, interrupts,
connections and failing devices meet. TLC checks them on small instances; TLAPS
proves the safety results for every value of the constants.

## 1. Inventory

| Part | State | Operations | What makes it hard |
|---|---|---|---|
| Chassis (`actuator/chassis.c`, `motor.c`, `servo.c`) | cached speed and turn, duty of each motor, four H-bridge levels, servo pulse | `set_chassis_speed`, `set_chassis_turn`, `chassis_register` | two motors and four lines set one by one, any of which may fail and between any two of which the process may die; three layers of range checks |
| Remote control (`stroller.c`) | mode, one-command mailbox, `follow_mutex`, `follow_cond` | `comm_receive_callback`, `stlr_follow_loop`, `move_of_remote` | lost and spurious wakeups, a mailbox that outlives a session, frames that TCP joins or cuts |
| TCP side (`comm/tcpserver.c`, `stroller.c`) | `connfd`, `connected`, `sbuf`, `send_lock`, descriptors | `comm_loop`, `tcp_wait_for_client`, `tcp_read_timeout`, `tcp_write`, `stlr_comm_send`, `sensor_loop` | a client may close, abort or stall at any point; two writers of one buffer; errors taken for timeouts; descriptors never closed |
| Software PWM (`drivers/src/motor-spwm.c`, `servo.c`) | state, duty, line, timer | timer handler, `ioctl`, probe, remove | interrupt and process share the state with no lock; unsigned subtraction |
| Shake sensor (`drivers/src/sw18015.c`, `sensor_sw18015_op.c`) | `event_flag`, timer, wait queue | interrupt, timer, `poll`, `ioctl`, `sw18015_read`, probe, remove | count and clear are two calls; increments race with clears; the order of the steps of probe and remove |
| Range sensors (`sensor_vl6180_op.c`, `hal_iic.c`) | address of each chip and the driver's idea of it | init, enable, disable, read | two chips with one power-up address; bus errors not reported |
| Radar (`sensor_hlk2411s_op.c`) | last motion and distance | serial loop, read, deinit | framing of a stream cut anywhere, a pair read in two critical sections, a thread cancelled and not joined |
| Sensor platform, AHT10, MQ135, fake | operation tables, last values, what the AHT10 measured last | creation with fallback, `sensor_loop`, destruction | how old a published value is: calls fail, and the AHT10 is read while it measures |
| GPIO HAL (`hal_gpio.c`) | a lock per line | direction, value | error paths that keep the lock |
| Lifecycle (`main.c`, `stlr_create`, `stlr_destroy`) | `contine`, `is_stop`, threads, the log's lock, the drivers' state across runs | start, SIGINT, stop, destroy, death, restart | lost signal, a handler that takes a lock, threads running after `free` |
| Not part of the running program | | | `drivers/src/motor.c` (alternative driver), UART comm stubs, `hello.c`, hand-run test programs |

How they interact: the comm thread reads a chunk and calls
`comm_receive_callback` in its own context, which writes the mailbox under
`follow_mutex` and signals the follow thread; the follow thread is the only one
to call the chassis once the threads run; the chassis reaches the PWM drivers by
`ioctl` and the H-bridge by sysfs. The sensor thread and the callback both put
messages into `sbuf`, which the comm thread flushes. All hazards are listed,
each at its line, in `PROJECT.json`.

## 2. Modules

| Module | Models | Notes |
|---|---|---|
| `Chassis` | the actuators | one step per access to a device, one call at a time; `Faulty` is the set of device calls that may fail |
| `Follow` | callback, mailbox, follow thread, frames | EXTENDS `Chassis`; one step per access under or outside `follow_mutex`, and one per device of a chassis call |
| `RemoteControl` | what the remote control promises | abstract: the newest command is in force, a mode switch puts a stop in force, in remote mode it is applied in the end |
| `Comm` | TCP server, comm thread, sensor thread's sending side | Linux socket semantics are external, see below |
| `SoftPwm` | one channel of the two PWM drivers | handler and ioctl cut at every shared access; delays modulo `Word` |
| `Shake` | driver and reader of the shake sensor | `event_flag++` is a load and a store |
| `Vl6180` | the two range sensors on their bus | any transaction may fail |
| `Hlk2411s` | the radar's thread, the bytes on its line, the follow thread's two reads | every byte is one of the stream; a read takes what has arrived |
| `SensorHub` | creation, one round and destruction of the sensors | no specification of its own; of a value only its age is kept |
| `Lifecycle` | main, SIGINT, the threads and the log's lock, over several runs | EXTENDS `SensorHub` |
| `MC...` | instances for TLC | |
| `ChassisProofs`, `FollowProofs`, `CommProofs`, `SoftPwmProofs`, `ShakeProofs`, `Vl6180Proofs`, `Hlk2411sProofs`, `LifecycleProofs` | proofs | each EXTENDS its component; the inductive invariants are at the end of the component's module |

How state and actions correspond to the code:

* **Chassis.** `pin`, `duty`, `servoDuty` and `servoOn` are the devices, `speed`
  and `turn` the cache (`USR_OPEN_LOOP`: the get functions return it). A call goes
  from device to device in the order of the table `After`, one step each: `call`
  and `arg` are the call and its argument, `at` the device it is about to access,
  `ret` the C variable. Each access to a device in `Faulty` may fail; a failing
  GPIO write leaves the line alone and is not reported. Between any two accesses the
  process may be killed and started anew (`chassis_register`), with the devices as
  they were; `inherited` remembers the motors that have not accepted a speed since.
  Integers stand for the floats, whose inputs come from `strtol`.
* **Follow.** A frame is a record; `comm_read` takes any chunk of the stream
  that fits `rbuf`, ending after or inside a frame, and rejects it or takes its
  first frame just as the callback does. A chunk that fills `rbuf` has no
  terminator, so the outcome of the test for the final `c` depends on what
  follows in memory (`sbuf`). `pthread_cond_signal` is lost unless the follow
  thread waits; `pthread_cond_wait` releases the mutex and sleeps in one step
  and may wake with no signal. `settled` and `heard` are history variables.
  `create_speed`, `create_turn` and `follow_remote` begin a call of `Chassis`,
  `call_step` takes it on, device by device, while the comm thread runs.
  The boot steps run in the main thread; `start_comm` comes before
  `start_follow`, so commands may arrive before there is a follow thread.
* **Comm.** A connection is used once and is `open`, closed by the peer (`fin`,
  `finrst` after our write was answered by a reset) or reset (`rsterr` until the
  error is reported once, then `rst`). Data received before is still read first.
  A write on `finrst` or `rst` raises SIGPIPE, which the program does not handle.
  `connfd` starts as 0, which is stdin, and becomes `NoFd` when `accept` fails.
  `held` counts descriptors, which are closed only by `tcp_stop_server`.
  `hasty` remembers clients that closed before everything they sent was read.
* **SoftPwm.** `start_pwm_hrtimer` is two steps, the store of the state and the
  start of the timer, both in the handler and in the ioctl. The driver checks no
  duty: `MaxDuty` is the application's limit (2000 us of a 2000 us period for a
  motor, `servo_set_angle` for the servo).
  `remove` cancels the timer, which waits for a handler in progress, and is only
  possible when nobody has the device open. `high`, `width` and `clean` are
  history variables that measure a pulse.
* **Shake.** An interrupt is shorter than the 100 ms it gives the timer. `Init` is
  `sw18015_probe` at the point where the interrupt is requested; the rest of
  probe, and remove, are cut where an interrupt or the timer can come between.
  A timer with no function, and a wait queue that is all zero, are fatal on the
  kernels the repository names (5.4 and 6.1). `window` remembers that something
  fell in a gap.
* **Vl6180.** The chips may be on and at any of the three addresses when the
  program starts. `recv` in `vl6180_change_addr` is uninitialised when nobody
  answers, so the comparison goes either way. Nothing but creation is done with a
  sensor before both exist.
* **Hlk2411s.** `frames` is what the radar sends, `arrived` and `taken` count
  bytes, so that a read is a window on the stream and `Filled` is the buffer
  after `memset` and `read`. The port does not block. `origin`, and the field
  `of` of what is published, are history: which frame it comes from. The line
  loses no byte and is set up by `script/board_setup.sh`; `char` is unsigned, as
  on the board, or no header would ever compare equal. After deinit the thread
  uses a destroyed lock and freed memory until it is cancelled: it may crash.
* **SensorHub.** A step per sensor and round; making the telemetry of the round is
  the end of the last one. The `aht10`'s and the `sw18015`'s calls may fail at each
  point; a failing `iic_read` returns 0 and leaves the buffer as it was. The chip of
  the `aht10` is external: `reg` is what it has measured last, and once triggered it
  measures whatever becomes of the read. The code reads it at once and takes bit 7,
  the chip's busy bit, for success, so that what it stores is `reg` as it was before
  (`aht10_measure`, event `busy`); an answer without the bit is an error
  (`not_busy`). Of values only the age is kept, in rounds: `fresh`, `last`, `old`.
  The `mq135` and the fake store nothing.
* **Lifecycle.** `mpc` walks through `main` and `stlr_create` with every error
  path. The lines of the H-bridge (`Bridge`) and the shutdown lines of the two range
  sensors (`Xshut`) are created, lowered and destroyed in the same steps as in the
  code; one whose direction cannot be set keeps its lock. Of `dev`, what a driver
  keeps, `state` is "off", "on", or "lost": on, because the timer's handler has
  written over the STOP, which `SoftPwm` shows to be possible. `chassis_destroy`
  comes in its order, lines, right motor, left motor, while the threads, which
  nobody waits for, go on. A SIGINT puts the handler on top of main; taking and
  giving back the log's lock are two steps in main and in the radar's thread, the
  two that matter. While main is in the handler any number of further SIGINTs come
  to other threads (`sigint_again`), which may be holding the log's lock. `Die`
  stands for SIGKILL, the SIGPIPE of `Comm` and a SIGINT before the handler is
  installed; nothing of the process is left after it (`Cleared`). `Restart` begins a
  new process over drivers that kept their state. Memory is never short.

## 3. What the runs check

| Run | Shows | Instance |
|---|---|---|
| `chassis` | cache and devices agree, what the H-bridge shows at every moment, servo pulses in range, cached speed only what both motors accepted | one motor, one line, the servo and its start may fail; death at any access; speeds and turns on both sides of every limit |
| `follow_safety` | `FollowInv`, no lost command, power only from this session | two frames in flight, `rbuf` of two frames, one speed, one turn |
| `follow_refines` | `Follow` implements `RemoteControl` with its liveness; a stop reaches the motors | one frame in flight, one motor failing, fairness |
| `follow_created_straight` | *violation*: the check in `stlr_create` cannot fail | the servo fails at boot |
| `comm_safety` | whole messages, answers to their client, who can kill the process, when the server is deaf | three connections, two descriptors, symmetric connections |
| `comm_liveness` | departures are noticed; the sensor thread waits for ever only behind a stalled client | two connections, fairness |
| `comm_read_error` | *violation*: `TIMEOUT_RET` equals -1 | two connections |
| `software_pwm` | no wrapped delay, no stall, stopped is low, pulses exact; when a STOP takes effect, started pulses | ticks of 500 us, four START/STOP calls, fairness |
| `shake_count` | shakes counted once unless a read overlaps, never invented; no lost wakeup; nothing left after remove | four shakes, fairness |
| `vl6180_addresses` | each driver gets its own chip; no side reads the other's distance | the two chips, any initial state |
| `radar` | only whole frames are published, and in order; a frame that finds the line read empty is published | three frames, payloads that look like a header and a trailer, one pair read, fairness |
| `lifecycle` | no power before a command, how a motor can have power after main has returned, no crash before `stlr_stop`, how old published values are, when SIGINT is heard, when boot hangs | two runs, one SIGINT each in main and any number while its handler runs, left motor, servo, I2C, GPIO and threads may fail, two sensors may be missing, fairness |

Bounds. Two frames are enough for every pair of commands to meet in one chunk, in
two, or cut in two, and for a command to arrive in every state of the follow
thread; nothing in the code counts frames. One speed and one turn are enough there,
since what a device does with a value is the subject of `chassis`, with values on both
sides of every limit. Three connections with two
descriptors reach a departed client, its successor, and a third that finds no
descriptor. Four START/STOP calls let two of each race with a handler in
progress. Four shakes allow a count, a clear undone by an increment, a second
report and another count. Three frames let the port be opened in one, a read
straddle it and the next, and a third be published; the payloads have header and
trailer bytes where several misaligned reads look for them (the proof covers all
payloads). Two runs are one that dies in any state and one that finds what it left. One
SIGINT in main finds main at every place; the proofs bound no number. All
invariants and action properties of the runs are also proved, without these
bounds.

Fairness. A thread that can run does (weak fairness per thread), and a mutex
that is free again and again is acquired (strong fairness on the lock steps; the
holders release it within a few instructions, or after one measurement in the
automatic mode). The timer fires, an interrupt handler ends. In `Hlk2411s` only the
radar's thread is fair. In `Lifecycle` main and the handler get the log's lock in
the end (strong fairness): the only other thread that holds it over more than a
step is the radar's, which waits for bytes between two warnings. Nothing is asked of
clients, of the radar, of spurious wakeups, of new ioctls or of new
interrupts. Deadlock checking is off where
threads really end: after `stlr_stop`, after SIGPIPE, after the sensors are
destroyed, after a driver is unloaded, after the last run.

Types. Each module has a type invariant, and all of them are proved; that of
`Lifecycle` is also checked with its run.

### What the properties delimit

Some properties state a promise together with the cases in which the code does
not keep it, so that the run shows there are no others. `SigintEnds`: a SIGINT is
lost between the test of `contine` and `pause`, and hangs the process when it
interrupts main inside the log. A second SIGINT may overtake the first on a thread
that is writing to the log, and then waits for itself with the log's lock. `Boots`: a GPIO line whose
direction cannot be set, of the H-bridge or a shutdown line, hangs the boot at its next
use. `BridgeConsistent`: both inputs of a side are high for one step of
`set_chassis_speed`, and if the process dies there, until the next start.
`StopTakesEffect`: a STOP is lost only when it comes between the timer handler's test of
the state and its store. `PoweredAtExitOnlyByRace`: this is the one way in which a motor
has power when main has returned, because `chassis_destroy` sets no speed 0.
`StaleWarned`: what is published of the AHT10 is the measurement of the round before, at
best. `NothingLeft`: a shake between
`devm_request_irq` and `timer_setup`, the timer before `init_waitqueue_head`, a
shake or a running handler during remove, a failing `misc_register`.
`BurstPublished`: a radar frame behind a part of another is not recognised until
the line has been read empty. `EachShakeOnce`, `NoWrongSide`,
`PoliteClientsNeverKill` and `DeafOnlyForAReason` are of the same kind.

### The two disagreements

* `follow_created_straight`: `stlr_create` ignores the results of
  `set_chassis_speed` and `set_chassis_turn` and then compares the cache with 0,
  which `calloc` made it. With a servo that fails the message "Failed to set
  chassis speed and turn" is never printed and the threads start.
* `comm_read_error`: `tcp_read_timeout` documents a value for a timeout and
  another for errors, but `TIMEOUT_RET` (0xffffffff) equals the -1 of an error.
  The branch of `comm_loop` for errors is dead; the loop writes on a connection
  whose read failed.

## 4. What is proved

All proofs hold for every value of the constants under the named assumptions.

* `ChassisProofs` (`FaultyAssumption`: failing calls are device calls;
  `InputAssumption`: integer inputs). `ChassisCorrect`: `ChassisInv` is
  invariant. Its parts say how far the call in progress has got: `BridgeInv`, the
  lines it has written have its direction and the others still agree, so that a side
  has both inputs high only where its negative input is the next line to be written
  (or where a process has died); `MotorInv`, the motors it has set have its argument or have made `ret`
  negative; `ServoInv`, the servo has the pulse of the cached turn except between
  its two accesses. From it follow `ChassisTypes`, `CacheTrue`, `BridgeSafe` and
  `PulseSafe`. `CacheFollows`: the action property.
* `FollowProofs` (also `BufAssumption`). `FollowInv` strengthens `NoLostCommand`
  by who holds the mutex at which program point (`MutexInv`) and by
  `MailboxInv`: what is marked executed is visible on the devices, a follow
  thread that waits has executed the mailbox unless a signal is coming, and a
  SPEED in the mailbox belongs to this session. `MovingInv` ties a call in progress to
  the mailbox: in remote mode it is the call that the mailbox asks for, and when it
  returns the devices show it. `NoLostCommand` alone is not
  inductive: it says nothing of a thread that is about to wait. From
  `FollowInvariant` follow `TypeCorrect`, `NothingLost`, `PowerFromSession` and
  `ImplementsRemoteControl` (initial states map to initial states, every step to
  a step or a stutter).
* `SoftPwmProofs` (`PwmAssumption`). `PwmInv` adds to the properties that a
  high line has somebody coming to lower it, which `RestsLow` needs, and that in an
  undisturbed pulse the time passed and the time left add up to its width, from
  which the action property `PulsesExact` follows.
* `ShakeProofs` (`ShakeAssumption`). `ShakeInv` adds what the interrupt's
  register and the reader's value hold while an access is in progress, and for
  `LeavesNothing` what is queued between the halves of remove.
* `Hlk2411sProofs` (`RadarAssumption`: payloads are bytes). The lemma
  `AcceptedAligned` is the heart: of seven consecutive bytes of the stream, or of
  fewer followed by zeros, only a whole frame passes the four comparisons,
  whatever the payloads, because at each of the six other offsets one of the four
  compared bytes is a header where a trailer must be, or the other way round. `RadarInv` adds to `PublishedWhole` and `PairInOrder` that what
  is in the buffer between the comparisons and the stores is such a frame, later
  than the published one, and that what the follow thread holds is not newer than
  what is published.

* `CommProofs` (`FdAssumption`: at least one descriptor; `ConnAssumption`: stdin
  and -1 are not connections). `CommInv` adds to the four properties: `LockInv`,
  a thread has `send_lock` exactly where it should (the mutual exclusion that
  `WholeWhenWritten` rests on, and no early return that keeps the lock); `BufInv`,
  `sbuf` is torn only between the two halves of a copy; `AckInv`, an "ok" is in
  `sbuf` only from the copy to the end of that iteration's flush, so that `connfd`
  cannot have changed; `HastyInv`, what a departed client left unread it left in
  haste, and the comm thread comes to a second write on its connection only then
  (otherwise the read before it returns 0 and leads back to the listening);
  `FdInv`, the descriptor closed at the end was counted. `PoliteClientsNeverKill`
  needs `HastyInv`: it says nothing of the write that is about to happen.
* `LifecycleProofs` (`LifeAssumption`, `SensorsAssumption`: what may fail is one of
  the things that can; any number of runs and signals). `LifeInv` has `MainInv`:
  where main is (or goes on after a line in the log) decides what exists, no
  thread and no sensor while booting, usable sensors until `destroy`, which lines,
  `is_stop` set from there on, and no motor freed before its place in
  `chassis_destroy` or on an error path;
  `StoppedInv`: a motor that has been destroyed is off or has lost its STOP, and
  when main returns every opened motor has been destroyed; `LogInv`: the log's
  lock, which is lost only after `stlr_stop` or under a handler that does not
  return; `RoundInv`: what is in the chip and what has been taken from it are of the
  rounds that the warnings allow, and the two values of the `aht10` are of one
  measurement. `PowerAtExit` takes from `StoppedInv` that such a motor has lost its
  STOP and from `StillUntilTold` that this run has driven it.
  `NoCrashWhileRunning` follows from `MainInv` alone: what a thread trips over is
  freed where `is_stop` is set.
  `StillUntilTold` is inductive as it stands, because `motor_create` sets no power
  before START, whatever the driver was left with.
* `Vl6180Proofs`. There is no parameter, and TLC's run is exhaustive; the proof
  gives the argument. `RangeInv` says who is where: a sensor that exists is
  settled (its chip at its own address, or back at the power-up address after a
  disable) or is being moved by `vl6180_init`, and then no other sensor of ours is
  at the power-up address, because sensors are created one after the other and
  none can be disabled before both exist.

Only model-checked: everything temporal under fairness (`KeepsPromise` with its
liveness, `StopReachesMotors`, `DepartureNoticed`, `SensorBlockedOnlyByStall`,
`StopTakesEffect`, `StartedPulses`, `SleeperWoken`, `BurstPublished`, `SigintEnds`,
`Boots`), because the prover has no support for `ENABLED` and fairness. The safety
half of some is proved: that `Follow` implements the safety part of
`RemoteControl`, that a sleeper in `poll` has its timer, that a running PWM channel
has one, and that `send_lock` and the log's lock are held only by who is inside.
The two runs that expect a violation stay with TLC, which gives the trace.

## 5. Not modelled

* The values of the sensors and the text of telemetry, and what is written to the
  log (its lock is modelled). So two facts of the code are not stated: the range
  sensors are read 10 us after a measurement is started; and `co2`, and the values
  of a sensor replaced by a fake, are never stored, so that `sensor_loop` publishes
  what its stack held.
* In `Lifecycle` the order of the devices inside `set_chassis_speed` (`main_still`,
  `follow_drive`), which `Chassis` has.
* A failure of the first `motor_set_speed` and of `motor_start` in `Lifecycle`:
  `motor_create` ignores it, and `motor_ioctl` returns no error for these commands.
  (`Chassis` lets the speed fail, and remembers such a motor in `inherited`.)
* `drivers/src/motor.c`, an alternative to `motor-spwm.c` on the kernel's PWM
  framework that `script/board_setup.sh` never loads; the UART stubs in `comm/`,
  whose only use is commented out; `hello.c`; the hand-run programs in
  `unity_test`.
* Functions nobody calls: the 8-bit register functions of `hal_iic.c`, `tcp_read`,
  `gpio_get_value`, `sensor_export`, and the wait for a measurement in
  `vl6180_read`.
* The error paths of the PWM drivers' probe functions, and the moment in
  `motor_probe` between the creation of the device and `hrtimer_init`, in which no
  program has it open yet.
* A serial line that loses or translates bytes (there is no checksum, so that
  nothing could be said of what is published), and memory that runs out.
* `Follow` and `Comm` in one state space. They share the comm thread only: the
  callback runs in it, between a read and a flush, takes `follow_mutex` and
  `send_lock` one after the other and never both, and nothing else of one part is
  read by the other, so that each part sees the other as an arbitrary but
  terminating step. What only the whole could show, that the motors run on when a
  client leaves or stalls, no line of the repository denies (see the hazards).

## 6. Plan

Order: what carries the stroller's safety first (`Chassis`, `Follow` with
`RemoteControl`, `Comm`, `SoftPwm`), then the sensors (`Shake`, `Vl6180`,
`Hlk2411s`, `SensorHub`), then the process around them (`Lifecycle`). All of these
are written and checked, and every safety property that a run checks is a theorem.
Left: action properties of `Comm` and `Lifecycle` that the lock invariants suggest
(what a flush may change, what a step of another thread may do to a motor), and
`Follow` composed with `Comm` should the repository come to say what happens to
the motors when a client leaves.

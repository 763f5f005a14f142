------------------------------- MODULE Shake -------------------------------
(***************************************************************************)
(* The shake sensor: the interrupt, the debounce timer, poll and the two   *)
(* ioctls of drivers/src/sw18015.c, and sw18015_read of                    *)
(* app/src/sensor/sensor_sw18015_op.c, which the sensor thread calls.      *)
(* event_flag is shared with no lock, by an interrupt on one CPU and       *)
(* processes on others, so every access to it is a step.                   *)
(***************************************************************************)
EXTENDS Integers

CONSTANT MaxShakes   \* bound: how many interrupts arrive

ASSUME ShakeAssumption == MaxShakes \in Nat

VARIABLES
  flag,      \* data->event_flag
  timer,     \* the debounce timer is queued
  irq,       \* gpio_irq_handler: "idle", "load", "store"
  reg,       \* what the increment of event_flag has loaded
  reader,    \* sw18015_read: "idle", or "clean" between its two ioctls
  value,     \* the application's data->value
  poller,    \* a process in poll: "out", "test", "clear", "sleep"
  tpc,       \* sw18015_timer_handler: "idle", or "wake" once it has begun
  bound,     \* the driver: "probing" (interrupt requested, timer not set up),
             \*   "queued" (timer queued, wait queue not initialised), "bound",
             \*   "removing" (only the interrupt left to free), "freed"
  kernel,    \* "fine", or "oops"
  shakes,    \* history: the interrupts counted
  reported,  \* history: the sum of what sw18015_read has returned
  disturbed, \* history: a count and a clear have overlapped, or a poll or probe cleared
  window     \* history: "clear", or "hit" once something has run in a gap of
             \*   probe or remove, or misc_register has failed

driver == <<bound, kernel, window>>
vars == <<flag, timer, irq, reg, reader, value, poller, tpc, driver,
          shakes, reported, disturbed>>

\* sw18015_probe up to devm_request_irq: from here on interrupts arrive.
Init ==
  /\ flag = 0 /\ timer = FALSE /\ tpc = "idle"
  /\ bound = "probing" /\ kernel = "fine" /\ window = "clear"
  /\ irq = "idle" /\ reg = 0
  /\ reader = "idle" /\ value = 0
  /\ poller = "out"
  /\ shakes = 0 /\ reported = 0 /\ disturbed = FALSE

\* The timer is set up and queued, with no expiry time, so that it fires at once.
probe_timer ==
  /\ bound = "probing" /\ kernel = "fine" /\ bound' = "queued"
  /\ timer' = TRUE
  /\ UNCHANGED <<flag, irq, reg, reader, value, poller, tpc, kernel, window,
                 shakes, reported, disturbed>>

\* The wait queue is initialised, the count cleared (with the shakes that have
\* already come) and the device registered.
probe_register ==
  /\ bound = "queued" /\ kernel = "fine" /\ bound' = "bound"
  /\ flag' = 0
  /\ disturbed' = (disturbed \/ flag # 0 \/ irq = "store")
  /\ UNCHANGED <<timer, irq, reg, reader, value, poller, tpc, kernel, window,
                 shakes, reported>>

\* The count cleared, misc_register fails: probe returns and the managed resources
\* are given back, but the timer stays as it is.
probe_fails ==
  /\ bound = "queued" /\ kernel = "fine" /\ bound' = "removing"
  /\ flag' = 0
  /\ disturbed' = (disturbed \/ flag # 0 \/ irq = "store")
  /\ window' = "hit"
  /\ UNCHANGED <<timer, irq, reg, reader, value, poller, tpc, kernel, shakes, reported>>

\* The device can be used between misc_register and its last close.
Open == bound = "bound"

-----------------------------------------------------------------------------
(* gpio_irq_handler and the timer.                                         *)

\* Mutant: the timer is not queued.
Mutant_irq_timer ==
  /\ irq = "idle" /\ bound \in {"queued", "bound", "removing"} /\ shakes < MaxShakes
  /\ irq' = "load"
  /\ UNCHANGED <<flag, timer, reg, reader, value, poller, tpc, driver,
                 shakes, reported, disturbed>>

\* mod_timer: 100 ms from now, whether it is queued already or not.  After
\* del_timer this queues it again.
irq_timer ==
  /\ irq = "idle" /\ bound \in {"queued", "bound", "removing"} /\ shakes < MaxShakes
  /\ timer' = TRUE
  /\ irq' = "load"
  /\ window' = IF bound = "removing" THEN "hit" ELSE window
  /\ UNCHANGED <<flag, reg, reader, value, poller, tpc, bound, kernel,
                 shakes, reported, disturbed>>

\* Before timer_setup the timer has no function, which mod_timer takes for a bug.
irq_early ==
  /\ bound = "probing" /\ kernel = "fine" /\ shakes < MaxShakes
  /\ kernel' = "oops" /\ window' = "hit"
  /\ UNCHANGED <<flag, timer, irq, reg, reader, value, poller, tpc, bound,
                 shakes, reported, disturbed>>

\* event_flag++, in two steps.
irq_load ==
  /\ irq = "load"
  /\ reg' = flag
  /\ irq' = "store"
  /\ disturbed' = (disturbed \/ reader = "clean")
  /\ UNCHANGED <<flag, timer, reader, value, poller, tpc, driver, shakes, reported>>

\* Mutant: both edges of the line are counted.
Mutant_irq_store ==
  /\ irq = "store"
  /\ flag' = reg + 2
  /\ irq' = "idle"
  /\ shakes' = shakes + 1
  /\ UNCHANGED <<timer, reg, reader, value, poller, tpc, driver,
                 reported, disturbed>>

irq_store ==
  /\ irq = "store"
  /\ flag' = reg + 1
  /\ irq' = "idle"
  /\ shakes' = shakes + 1
  /\ UNCHANGED <<timer, reg, reader, value, poller, tpc, driver,
                 reported, disturbed>>

\* The timer expires.  An interrupt takes less than the 100 ms that it has just
\* given the timer.
timer_expires ==
  /\ timer /\ irq = "idle" /\ tpc = "idle"
  /\ timer' = FALSE /\ tpc' = "wake"
  /\ UNCHANGED <<flag, irq, reg, reader, value, poller, driver,
                 shakes, reported, disturbed>>

\* sw18015_timer_handler wakes the poller.  A wait queue that is still all zero is
\* fatal, and one that has been freed may be.
timer_handler ==
  /\ tpc = "wake" /\ tpc' = "idle"
  /\ poller' = IF poller = "sleep" THEN "test" ELSE poller
  /\ kernel' \in CASE bound = "queued" -> {"oops"}
                    [] bound = "freed" -> {"fine", "oops"}
                    [] OTHER -> {kernel}
  /\ window' = IF bound = "queued" THEN "hit" ELSE window
  /\ UNCHANGED <<flag, timer, irq, reg, reader, value, bound,
                 shakes, reported, disturbed>>

-----------------------------------------------------------------------------
(* sw18015_remove, which rmmod calls when nobody has the device open.      *)

\* Mutant: the timer is left alone.
Mutant_remove ==
  /\ bound = "bound" /\ reader = "idle" /\ poller = "out"
  /\ bound' = "removing"
  /\ window' = IF tpc = "wake" THEN "hit" ELSE window
  /\ UNCHANGED <<flag, timer, irq, reg, reader, value, poller, tpc, kernel,
                 shakes, reported, disturbed>>

\* del_timer does not wait for a handler that has begun, and the interrupt is still
\* there.
sw18015_remove ==
  /\ bound = "bound" /\ reader = "idle" /\ poller = "out"
  /\ bound' = "removing" /\ timer' = FALSE
  /\ window' = IF tpc = "wake" THEN "hit" ELSE window
  /\ UNCHANGED <<flag, irq, reg, reader, value, poller, tpc, kernel,
                 shakes, reported, disturbed>>

\* The managed resources are given back, last one first: the interrupt, for whose
\* handler this waits, then the structure.
devm_release ==
  /\ bound = "removing" /\ irq = "idle"
  /\ bound' = "freed"
  /\ UNCHANGED <<flag, timer, irq, reg, reader, value, poller, tpc, kernel, window,
                 shakes, reported, disturbed>>

-----------------------------------------------------------------------------
(* sw18015_read: SW18015_SHAKE_COUNT, then SW18015_CLEAN.                  *)

read_count ==
  /\ Open /\ reader = "idle"
  /\ value' = flag
  /\ reader' = "clean"
  /\ disturbed' = (disturbed \/ irq = "store")
  /\ UNCHANGED <<flag, timer, irq, reg, poller, tpc, driver, shakes, reported>>

\* Mutant: the count is not cleared.
Mutant_read_clean ==
  /\ reader = "clean"
  /\ reported' = reported + value
  /\ reader' = "idle"
  /\ UNCHANGED <<flag, timer, irq, reg, value, poller, tpc, driver,
                 shakes, disturbed>>

read_clean ==
  /\ reader = "clean"
  /\ flag' = 0
  /\ reported' = reported + value
  /\ reader' = "idle"
  /\ UNCHANGED <<timer, irq, reg, value, poller, tpc, driver, shakes, disturbed>>

-----------------------------------------------------------------------------
(* sw18015_poll.  poll_wait registers the process before event_flag is     *)
(* tested, so a wakeup in between makes poll test again: test and sleep    *)
(* are one step.                                                           *)

poll_enter ==
  /\ Open /\ poller = "out"
  /\ poller' = "test"
  /\ UNCHANGED <<flag, timer, irq, reg, reader, value, tpc, driver,
                 shakes, reported, disturbed>>

poll_test ==
  /\ poller = "test"
  /\ poller' = IF flag # 0 THEN "clear" ELSE "sleep"
  /\ UNCHANGED <<flag, timer, irq, reg, reader, value, tpc, driver,
                 shakes, reported, disturbed>>

poll_clear ==
  /\ poller = "clear"
  /\ flag' = 0
  /\ disturbed' = TRUE
  /\ poller' = "out"
  /\ UNCHANGED <<timer, irq, reg, reader, value, tpc, driver, shakes, reported>>

-----------------------------------------------------------------------------

Irq == irq_timer \/ irq_early \/ irq_load \/ irq_store

Reader == read_count \/ read_clean

Poller == poll_enter \/ poll_test \/ poll_clear

Driver ==
  \/ probe_timer \/ probe_register \/ probe_fails
  \/ sw18015_remove \/ devm_release

Next == Irq \/ timer_expires \/ timer_handler \/ Reader \/ Poller \/ Driver

\* An interrupt that has begun ends, and the timer expires, the shaking ending at
\* some time; a process that called poll runs.
Fairness ==
  /\ WF_vars(irq_load \/ irq_store)
  /\ WF_vars(timer_expires \/ timer_handler)
  /\ WF_vars(poll_test \/ poll_clear)

Spec == Init /\ [][Next]_vars

FairSpec == Spec /\ Fairness

-----------------------------------------------------------------------------

TypeOK ==
  /\ flag \in Nat /\ reg \in Nat /\ value \in Nat
  /\ shakes \in 0..MaxShakes /\ reported \in Nat
  /\ timer \in BOOLEAN /\ disturbed \in BOOLEAN
  /\ irq \in {"idle", "load", "store"}
  /\ reader \in {"idle", "clean"}
  /\ poller \in {"out", "test", "clear", "sleep"}
  /\ tpc \in {"idle", "wake"}
  /\ bound \in {"probing", "queued", "bound", "removing", "freed"}
  /\ kernel \in {"fine", "oops"} /\ window \in {"clear", "hit"}

\* Every shake is reported exactly once, or still to be reported, as long as no
\* interrupt's increment overlaps a read's count and clear, and nobody polls the
\* device, which clears the count as well.
EachShakeOnce == ~disturbed => shakes = reported + flag

\* Whatever overlaps: although a clear may be undone by an increment in progress,
\* and the same shakes be reported again, no read returns more than have happened.
NeverMoreThanHappened == flag <= shakes /\ value <= shakes

\* No wakeup is lost: a process that sleeps in poll while there are shakes has the
\* debounce timer coming, so registering before testing and queuing the timer
\* before counting are in the right order.
SleeperHasTimer == poller = "sleep" /\ flag # 0 => timer \/ tpc = "wake" \/ irq # "idle"

\* probe requests the interrupt before it sets up the timer, and queues the timer
\* before its handler can do with it; remove deletes the timer before the interrupt is
\* freed, and without waiting for its handler.  Unless a
\* shake, or the handler, falls in one of these gaps, or misc_register fails, the
\* kernel survives, and nothing is left that would touch the freed structure.
NothingLeft ==
  window = "clear" =>
    /\ kernel = "fine"
    /\ bound = "freed" => ~timer /\ tpc = "idle" /\ irq = "idle"

\* The inductive invariant: what the interrupt has loaded and what the reader has
\* fetched are event_flag itself unless they overlapped.
ShakeInv ==
  /\ TypeOK /\ EachShakeOnce /\ NeverMoreThanHappened /\ SleeperHasTimer /\ NothingLeft
  /\ irq # "idle" => shakes < MaxShakes /\ (bound \in {"queued", "bound"} => timer)
  /\ bound = "probing" => irq = "idle" /\ flag = 0 /\ shakes = reported
  /\ bound # "bound" => reader = "idle" /\ poller = "out"
  /\ bound = "removing" /\ window = "clear" => ~timer /\ tpc = "idle"
  /\ irq = "store" => reg <= shakes
  /\ irq = "store" /\ ~disturbed => reg = flag /\ reader = "idle"
  /\ reader = "clean" /\ ~disturbed => value = flag

\* A process that sleeps in poll is woken for a shake, unless the count is cleared
\* by a read first.
SleeperWoken == poller = "sleep" /\ flag # 0 ~> poller # "sleep" \/ flag = 0

=============================================================================

---------------------------- MODULE ShakeProofs ----------------------------
(***************************************************************************)
(* Proofs about Shake, for any number of shakes.                           *)
(***************************************************************************)
EXTENDS Shake, TLAPS

\* The invariant of the counter holds at probe.
LEMMA ShakeInit == Init => ShakeInv
<1> SUFFICES ASSUME Init
             PROVE  ShakeInv
    OBVIOUS
<1> USE DEF Init
<1>1. timer \in BOOLEAN /\ disturbed \in BOOLEAN
      BY Zenon
<1>2. TypeOK
      BY <1>1, ShakeAssumption DEF TypeOK
<1>3. EachShakeOnce /\ NeverMoreThanHappened /\ SleeperHasTimer
      BY DEF EachShakeOnce, NeverMoreThanHappened, SleeperHasTimer
<1>4. NothingLeft
      BY DEF NothingLeft
<1> QED
    BY <1>2, <1>3, <1>4 DEF ShakeInv

\* Every access of the interrupt, the timer, the reader and the poller keeps it, and
\* so do loading and unloading the driver.
LEMMA ShakeStep == ShakeInv /\ [Next]_vars => ShakeInv'
<1> SUFFICES ASSUME ShakeInv, [Next]_vars
             PROVE  ShakeInv'
    OBVIOUS
<1> USE ShakeAssumption
        DEF ShakeInv, TypeOK, EachShakeOnce, NeverMoreThanHappened, SleeperHasTimer,
            NothingLeft, driver
<1>1. CASE irq_timer
      BY <1>1 DEF irq_timer
<1>2. CASE irq_load
      BY <1>2 DEF irq_load
<1>3. CASE irq_store
      BY <1>3 DEF irq_store
<1>4. CASE timer_handler
      BY <1>4 DEF timer_handler
<1>5. CASE read_count
      BY <1>5 DEF read_count, Open
<1>6. CASE read_clean
      BY <1>6 DEF read_clean
<1>7. CASE poll_enter
      BY <1>7 DEF poll_enter, Open
<1>8. CASE poll_test
      BY <1>8 DEF poll_test
<1>9. CASE poll_clear
      BY <1>9 DEF poll_clear
<1>10. CASE UNCHANGED vars
       BY <1>10 DEF vars
<1>11. CASE timer_expires
       BY <1>11 DEF timer_expires
<1>12. CASE irq_early
       BY <1>12 DEF irq_early
<1>13. CASE probe_timer
       BY <1>13 DEF probe_timer
<1>14. CASE sw18015_remove
       BY <1>14 DEF sw18015_remove
<1>15. CASE devm_release
       BY <1>15 DEF devm_release
<1>16. CASE probe_fails
  <2>1. disturbed' \in BOOLEAN /\ timer' \in BOOLEAN
        BY <1>16, Zenon DEF probe_fails
  <2>2. flag' = 0 /\ (~disturbed' => ~disturbed /\ flag = 0 /\ irq # "store")
        BY <1>16, Zenon DEF probe_fails
  <2> QED
      BY <1>16, <2>1, <2>2 DEF probe_fails
<1>17. CASE probe_register
  <2>1. disturbed' \in BOOLEAN /\ timer' \in BOOLEAN
        BY <1>17, Zenon DEF probe_register
  <2>2. flag' = 0 /\ (~disturbed' => ~disturbed /\ flag = 0 /\ irq # "store")
        BY <1>17, Zenon DEF probe_register
  <2> QED
      BY <1>17, <2>1, <2>2 DEF probe_register
<1> QED
    BY <1>1, <1>2, <1>3, <1>4, <1>5, <1>6, <1>7, <1>8, <1>9, <1>10, <1>11, <1>12,
       <1>13, <1>14, <1>15, <1>16, <1>17
       DEF Next, Irq, Reader, Poller, Driver

\* event_flag, the increment in progress, the value fetched and the timer are in
\* step in every reachable state of the driver and its reader.
THEOREM ShakeInvariant == Spec => []ShakeInv
  BY ShakeInit, ShakeStep, PTL DEF Spec

\* Every shake is counted once by sw18015_read, unless reads and interrupts overlap.
THEOREM CountedOnce == Spec => []EachShakeOnce
<1>1. ShakeInv => EachShakeOnce
      BY DEF ShakeInv
<1> QED
    BY <1>1, ShakeInvariant, PTL

\* No read returns more than the shakes that have happened, whatever overlaps.
THEOREM NothingInvented == Spec => []NeverMoreThanHappened
<1>1. ShakeInv => NeverMoreThanHappened
      BY DEF ShakeInv
<1> QED
    BY <1>1, ShakeInvariant, PTL

\* sw18015_poll never leaves a process asleep with a count and no timer queued.
THEOREM NoLostWakeup == Spec => []SleeperHasTimer
<1>1. ShakeInv => SleeperHasTimer
      BY DEF ShakeInv
<1> QED
    BY <1>1, ShakeInvariant, PTL

\* Loading and unloading sw18015.c leaves nothing behind and does the kernel no harm,
\* unless a shake or the handler falls in one of the gaps or misc_register fails.
THEOREM LeavesNothing == Spec => []NothingLeft
<1>1. ShakeInv => NothingLeft
      BY DEF ShakeInv
<1> QED
    BY <1>1, ShakeInvariant, PTL

=============================================================================

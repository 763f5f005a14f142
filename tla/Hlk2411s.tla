------------------------------ MODULE Hlk2411s ------------------------------
(***************************************************************************)
(* The radar: a thread that polls a serial port for frames of seven bytes  *)
(* and publishes what they say, and the follow thread that reads it.       *)
(* Translated from app/src/sensor/sensor_hlk2411s_op.c and the two reads   *)
(* of the automatic branch of stlr_follow_loop in app/src/stroller.c.      *)
(*                                                                         *)
(* The bytes on the line are the radar's frames one after the other, none  *)
(* lost: byte p (from 0) belongs to frame p \div 7.  They arrive in chunks *)
(* of any size, and the port may be opened in the middle of a frame.       *)
(***************************************************************************)
EXTENDS Integers, Sequences

CONSTANTS
  Payloads,   \* what the three bytes between header and trailer may be
  MaxFrames,  \* bound: how many frames the radar sends
  MaxReads    \* bound: how many pairs the follow thread reads

Byte == 0..255
HEAD == 170   \* 0xAA
TAIL == 85    \* 0x55

ASSUME RadarAssumption ==
  /\ Payloads \subseteq [motion : Byte, low : Byte, high : Byte]
  /\ MaxFrames \in Nat /\ MaxReads \in Nat

VARIABLES
  frames,    \* the payloads of the frames sent so far
  arrived,   \* how many of their bytes have reached the port
  taken,     \* how many of those have been read
  buffer,    \* the first seven bytes of the thread's buffer
  origin,    \* history: the frame whose first byte opened the buffer, else 0
  pc,        \* the thread: "read", "lock", "motion", "distance", "sleep", "ended", "crashed"
  motion,    \* data->motion and data->distance, each with the number of the
  distance,  \*   frame it comes from (history; 0: still as calloc left it)
  fpc,       \* the follow thread: "motion" or "distance", the next to read
  seen,      \* the motion it read last
  paired,    \* the distance it read last
  reads,     \* how many pairs it has read
  port       \* "open" from hlk2411s_init to hlk2411s_deinit, then "closed"

line == <<frames, arrived, taken>>
data == <<motion, distance>>
follow == <<fpc, seen, paired, reads>>
vars == <<line, buffer, origin, pc, data, follow, port>>

\* One frame as the radar sends it.
Encoded(p) == <<HEAD, HEAD, p.motion, p.low, p.high, TAIL, TAIL>>

\* Byte p of everything sent, counted from 0.
ByteAt(p) == Encoded(frames[p \div 7 + 1])[(p % 7) + 1]

\* What the four comparisons of hlk2411_loop accept.
Valid(b) == b[1] = HEAD /\ b[2] = HEAD /\ b[6] = TAIL /\ b[7] = TAIL

Distance(low, high) == high * 256 + low

\* How much a read returns when n bytes are waiting.
Min7(n) == IF n < 7 THEN n ELSE 7

-----------------------------------------------------------------------------

\* The structure is cleared, the port opened (perhaps in the middle of the
\* first frame) and the thread started.
hlk2411s_init ==
  /\ \E p \in Payloads, n \in 0..6 : frames = <<p>> /\ arrived = n /\ taken = n
  /\ buffer = [i \in 1..7 |-> 0] /\ origin = 0
  /\ pc = "read"
  /\ motion = [value |-> 0, of |-> 0]
  /\ distance = [value |-> 0, of |-> 0]
  /\ fpc = "motion" /\ reads = 0
  /\ seen = motion /\ paired = distance
  /\ port = "open"

\* The radar starts on another frame.
radar_sends ==
  /\ port = "open" /\ Len(frames) < MaxFrames
  /\ \E p \in Payloads : frames' = Append(frames, p)
  /\ UNCHANGED <<arrived, taken, buffer, origin, pc, data, follow, port>>

\* The port's interrupt hands over some of the bytes sent.
bytes_arrive ==
  /\ port = "open"
  /\ \E n \in 1..7 * Len(frames) : n > arrived /\ arrived' = n
  /\ UNCHANGED <<frames, taken, buffer, origin, pc, data, follow, port>>

-----------------------------------------------------------------------------
(* hlk2411_loop.                                                           *)

\* Mutant: the buffer is not cleared before the read.
Mutant_filled(n) ==
  [i \in 1..7 |-> IF i <= n THEN ByteAt(taken + i - 1) ELSE buffer[i]]

\* The buffer after memset and a read of n bytes.
Filled(n) == [i \in 1..7 |-> IF i <= n THEN ByteAt(taken + i - 1) ELSE 0]

\* Mutant: a frame that cannot be decoded ends the thread.
Mutant_loop_read ==
  /\ pc = "read" /\ port = "open"
  /\ LET n == Min7(arrived - taken) IN
       IF n = 0
       THEN pc' = "sleep" /\ UNCHANGED <<taken, buffer, origin>>
       ELSE /\ taken' = taken + n
            /\ buffer' = Filled(n)
            /\ origin' = IF taken % 7 = 0 THEN taken \div 7 + 1 ELSE 0
            /\ pc' = IF Valid(Filled(n)) THEN "lock" ELSE "ended"
  /\ UNCHANGED <<frames, arrived, data, follow, port>>

\* The port does not block: a read takes what is there, seven bytes at most, and
\* returns at once if there is nothing.  What cannot be decoded is dropped and the
\* next read follows without a pause.
loop_read ==
  /\ pc = "read" /\ port = "open"
  /\ LET n == Min7(arrived - taken) IN
       IF n = 0
       THEN pc' = "sleep" /\ UNCHANGED <<taken, buffer, origin>>
       ELSE /\ taken' = taken + n
            /\ buffer' = Filled(n)
            /\ origin' = IF taken % 7 = 0 THEN taken \div 7 + 1 ELSE 0
            /\ pc' = IF Valid(Filled(n)) THEN "lock" ELSE "read"
  /\ UNCHANGED <<frames, arrived, data, follow, port>>

\* The lock is held from here until the distance is stored.
loop_lock ==
  /\ pc = "lock" /\ pc' = "motion"
  /\ UNCHANGED <<line, buffer, origin, data, follow, port>>

Locked == pc \in {"motion", "distance"}

loop_motion ==
  /\ pc = "motion" /\ pc' = "distance"
  /\ motion' = [value |-> buffer[3], of |-> origin]
  /\ UNCHANGED <<line, buffer, origin, distance, follow, port>>

loop_distance ==
  /\ pc = "distance" /\ pc' = "sleep"
  /\ distance' = [value |-> Distance(buffer[4], buffer[5]), of |-> origin]
  /\ UNCHANGED <<line, buffer, origin, motion, follow, port>>

loop_sleep ==
  /\ pc = "sleep" /\ port = "open" /\ pc' = "read"
  /\ UNCHANGED <<line, buffer, origin, data, follow, port>>

\* read and usleep are where a cancelled thread ends.
loop_cancelled ==
  /\ pc \in {"read", "sleep"} /\ port = "closed" /\ pc' = "ended"
  /\ UNCHANGED <<line, buffer, origin, data, follow, port>>

\* The destroyed lock and the freed structure: the thread may get away with
\* using them (the actions above), or not.
loop_crash ==
  /\ pc \in {"lock", "motion", "distance"} /\ port = "closed" /\ pc' = "crashed"
  /\ UNCHANGED <<line, buffer, origin, data, follow, port>>

Loop ==
  \/ loop_read \/ loop_lock \/ loop_motion \/ loop_distance \/ loop_sleep
  \/ loop_cancelled \/ loop_crash

-----------------------------------------------------------------------------
(* The rest of the sensor's operations.                                    *)

\* Mutant: the sensor is read without its lock.
Mutant_hlk2411s_read(channel) ==
  /\ port = "open" /\ fpc = channel
  /\ \/ /\ channel = "motion"
        /\ seen' = motion /\ fpc' = "distance" /\ UNCHANGED <<paired, reads>>
     \/ /\ channel = "distance"
        /\ paired' = distance /\ fpc' = "motion"
        /\ reads' = reads + 1 /\ UNCHANGED seen
  /\ UNCHANGED <<line, buffer, origin, pc, data, port>>

\* The follow thread reads the channels motion and distance, in this order, and
\* takes the lock for each.
hlk2411s_read(channel) ==
  /\ port = "open" /\ fpc = channel
  /\ ~Locked
  /\ \/ /\ channel = "motion"
        /\ seen' = motion /\ fpc' = "distance" /\ UNCHANGED <<paired, reads>>
     \/ /\ channel = "distance"
        /\ paired' = distance /\ fpc' = "motion"
        /\ reads' = reads + 1 /\ UNCHANGED seen
  /\ UNCHANGED <<line, buffer, origin, pc, data, port>>

\* The thread is cancelled, not joined: it may still be on its way through the
\* structure, which is freed here.
hlk2411s_deinit ==
  /\ port = "open" /\ port' = "closed"
  /\ UNCHANGED <<line, buffer, origin, pc, data, follow>>

Init == hlk2411s_init

Next ==
  \/ radar_sends \/ bytes_arrive
  \/ Loop
  \/ reads < MaxReads /\ \E c \in {"motion", "distance"} : hlk2411s_read(c)
  \/ hlk2411s_deinit

\* The thread runs on; the radar, the follow thread and the end need not.
Spec == Init /\ [][Next]_vars /\ WF_vars(Loop)

-----------------------------------------------------------------------------

LineOK ==
  /\ frames \in Seq(Payloads) /\ Len(frames) >= 1
  /\ taken \in Nat /\ arrived \in Nat
  /\ taken <= arrived /\ arrived <= 7 * Len(frames)

Stamped == [value : Nat, of : Nat]

TypeOK ==
  /\ LineOK
  /\ buffer \in [1..7 -> Byte]
  /\ origin \in Nat
  /\ pc \in {"read", "lock", "motion", "distance", "sleep", "ended", "crashed"}
  /\ motion \in Stamped /\ distance \in Stamped
  /\ seen \in Stamped /\ paired \in Stamped
  /\ fpc \in {"motion", "distance"}
  /\ reads \in Nat
  /\ port \in {"open", "closed"}

\* However the bytes are cut into reads, and wherever in a frame the port was
\* opened, what hlk2411_loop publishes is the motion and the distance of one whole
\* frame, each from its own position: never a payload that looks like a header,
\* never a mixture of two frames.
PublishedWhole ==
  /\ motion.value = IF motion.of = 0 THEN 0 ELSE frames[motion.of].motion
  /\ distance.value = IF distance.of = 0 THEN 0
                      ELSE Distance(frames[distance.of].low, frames[distance.of].high)
  /\ pc \in {"read", "lock", "motion", "sleep"} => motion.of = distance.of

\* The follow thread reads motion and distance in two critical sections.  They may
\* be from different frames, but the distance is never older than the motion.
PairInOrder == fpc = "motion" => seen.of <= paired.of

\* A frame that has arrived whole when everything before it has been read is
\* published, or a later one is: hlk2411_loop recovers from whatever it dropped.
\* (A frame of which a part was read, or that stands behind such a part, is not.)
BurstPublished ==
  \A f \in 1..MaxFrames :
    (taken = 7 * (f - 1) /\ arrived >= 7 * f)
      ~> ((motion.of >= f /\ distance.of >= f) \/ port = "closed")

-----------------------------------------------------------------------------
(* What makes PublishedWhole and PairInOrder inductive.                    *)

Publishing == pc \in {"lock", "motion", "distance"}

\* What passed the checks is a frame, later than the published ones.
BufferIsFrame ==
  Publishing =>
    /\ origin # 0 /\ 7 * origin <= taken
    /\ buffer = Encoded(frames[origin])
    /\ distance.of <= origin

PublishedTaken == 7 * motion.of <= taken /\ 7 * distance.of <= taken

\* Between the two stores the motion is already the new one.
Halfway == pc = "distance" => motion.of = origin

\* What the follow thread holds is not newer than what is published.
SeenPublished == seen.of <= distance.of

RunsWhileOpen == port = "open" => pc \notin {"ended", "crashed"}

RadarInv ==
  /\ TypeOK /\ PublishedWhole /\ PairInOrder
  /\ BufferIsFrame /\ PublishedTaken /\ Halfway /\ SeenPublished /\ RunsWhileOpen

=============================================================================

--------------------------- MODULE Hlk2411sProofs ---------------------------
(***************************************************************************)
(* The radar publishes whole frames only, and in order, whatever the       *)
(* payloads and the number of frames.  The heart of it is AcceptedAligned: *)
(* of the seven ways a read can lie across two frames, the four bytes that *)
(* hlk2411_loop compares refute six.                                       *)
(***************************************************************************)
EXTENDS Hlk2411s, TLAPS

\* Division with remainder by the length of a frame.
LEMMA DivMod ==
  ASSUME NEW q \in Nat, NEW r \in 0..6
  PROVE  (7 * q + r) \div 7 = q /\ (7 * q + r) % 7 = r
  OBVIOUS

\* The bytes of a frame.
LEMMA FrameBytes ==
  ASSUME NEW p \in Payloads
  PROVE  /\ Encoded(p) \in [1..7 -> Byte]
         /\ Encoded(p)[1] = HEAD /\ Encoded(p)[2] = HEAD
         /\ Encoded(p)[3] = p.motion /\ Encoded(p)[4] = p.low /\ Encoded(p)[5] = p.high
         /\ Encoded(p)[6] = TAIL /\ Encoded(p)[7] = TAIL
  BY RadarAssumption DEF Encoded, Byte, HEAD, TAIL

\* Where byte r of frame q is on the line.
LEMMA ByteOfFrame ==
  ASSUME NEW q \in Nat, NEW r \in 0..6
  PROVE  ByteAt(7 * q + r) = Encoded(frames[q + 1])[r + 1]
  <1>1. (7 * q + r) \div 7 = q /\ (7 * q + r) % 7 = r
    BY DivMod
  <1> QED BY <1>1 DEF ByteAt

\* A read that hlk2411_loop accepts is a whole frame.
LEMMA AcceptedAligned ==
  ASSUME LineOK, NEW n \in 1..7, taken + n <= arrived, Valid(Filled(n))
  PROVE  /\ n = 7 /\ taken % 7 = 0
         /\ taken \div 7 + 1 \in 1..Len(frames)
         /\ Filled(n) = Encoded(frames[taken \div 7 + 1])
  <1> DEFINE q == taken \div 7
             r == taken % 7
  <1>1. q \in Nat /\ r \in 0..6 /\ taken = 7 * q + r
    <2>1. taken \in Nat
      BY DEF LineOK
    <2> QED BY <2>1
  <1>2. frames \in Seq(Payloads) /\ taken + n <= 7 * Len(frames) /\ Len(frames) \in Nat
    BY DEF LineOK
  <1>3. n = 7
    BY DEF Valid, Filled, TAIL
  <1>4. q + 1 \in 1..Len(frames) /\ frames[q + 1] \in Payloads
    BY <1>1, <1>2, <1>3
  <1>5. ASSUME r # 0
        PROVE  q + 2 \in 1..Len(frames) /\ frames[q + 2] \in Payloads
    BY <1>1, <1>2, <1>3, <1>5
  <1>6. \A i \in 1..7 : Filled(7)[i] = ByteAt(taken + i - 1)
    BY DEF Filled
  <1> HIDE DEF q, r
  <1>7. ASSUME NEW i \in 1..7, r + i <= 7
        PROVE  Filled(7)[i] = Encoded(frames[q + 1])[r + i]
    <2>1. r + i - 1 \in 0..6 /\ taken + i - 1 = 7 * q + (r + i - 1)
      BY <1>1, <1>7
    <2>2. ByteAt(7 * q + (r + i - 1)) = Encoded(frames[q + 1])[(r + i - 1) + 1]
      BY <1>1, <2>1, ByteOfFrame
    <2>3. (r + i - 1) + 1 = r + i
      BY <1>1
    <2> QED BY <1>6, <2>1, <2>2, <2>3
  <1>8. ASSUME NEW i \in 1..7, r + i > 7
        PROVE  Filled(7)[i] = Encoded(frames[q + 2])[r + i - 7]
    <2>1. r + i - 8 \in 0..6 /\ taken + i - 1 = 7 * (q + 1) + (r + i - 8) /\ q + 1 \in Nat
      BY <1>1, <1>8
    <2>2. ByteAt(7 * (q + 1) + (r + i - 8)) = Encoded(frames[(q + 1) + 1])[(r + i - 8) + 1]
      BY <2>1, ByteOfFrame
    <2>3. (r + i - 8) + 1 = r + i - 7 /\ (q + 1) + 1 = q + 2
      BY <1>1
    <2> QED BY <1>6, <2>1, <2>2, <2>3
  <1>9. /\ Filled(7)[1] = HEAD /\ Filled(7)[2] = HEAD
        /\ Filled(7)[6] = TAIL /\ Filled(7)[7] = TAIL
    BY <1>3 DEF Valid
  <1>10. r = 0
    <2> SUFFICES ASSUME r # 0 PROVE FALSE
      OBVIOUS
    <2>1. CASE r = 1 BY <1>5, <1>8, <1>9, <2>1, FrameBytes DEF HEAD, TAIL
    <2>2. CASE r = 2 BY <1>5, <1>8, <1>9, <2>2, FrameBytes DEF HEAD, TAIL
    <2>3. CASE r = 3 BY <1>5, <1>8, <1>9, <2>3, FrameBytes DEF HEAD, TAIL
    <2>4. CASE r = 4 BY <1>4, <1>7, <1>9, <2>4, FrameBytes DEF HEAD, TAIL
    <2>5. CASE r = 5 BY <1>4, <1>7, <1>9, <2>5, FrameBytes DEF HEAD, TAIL
    <2>6. CASE r = 6 BY <1>4, <1>7, <1>9, <2>6, FrameBytes DEF HEAD, TAIL
    <2> QED BY <1>1, <2>1, <2>2, <2>3, <2>4, <2>5, <2>6
  <1>11. Filled(7) = Encoded(frames[q + 1])
    <2>1. \A i \in 1..7 : Filled(7)[i] = Encoded(frames[q + 1])[i]
      BY <1>7, <1>10
    <2>2. Encoded(frames[q + 1]) \in [1..7 -> Byte]
      BY <1>4, FrameBytes
    <2>3. Filled(7) = [i \in 1..7 |-> Filled(7)[i]]
      BY DEF Filled
    <2> QED BY <2>1, <2>2, <2>3
  <1> QED BY <1>3, <1>4, <1>10, <1>11 DEF q, r

\* Whatever is read, the buffer holds bytes.
LEMMA FilledBytes ==
  ASSUME LineOK, NEW n \in 1..7, taken + n <= arrived
  PROVE  Filled(n) \in [1..7 -> Byte]
  <1>1. ASSUME NEW i \in 1..7, i <= n PROVE ByteAt(taken + i - 1) \in Byte
    <2> DEFINE b == taken + i - 1
    <2>1. b \in Nat /\ b < 7 * Len(frames) /\ Len(frames) \in Nat /\ frames \in Seq(Payloads)
      BY <1>1 DEF LineOK
    <2>2. b \div 7 + 1 \in 1..Len(frames) /\ (b % 7) + 1 \in 1..7
      BY <2>1
    <2>3. Encoded(frames[b \div 7 + 1]) \in [1..7 -> Byte]
      BY <2>1, <2>2, FrameBytes
    <2> QED BY <2>2, <2>3 DEF ByteAt
  <1> QED BY <1>1 DEF Filled, Byte

-----------------------------------------------------------------------------

LEMMA DistanceType ==
  ASSUME NEW low \in Byte, NEW high \in Byte
  PROVE  Distance(low, high) \in Nat
  BY DEF Byte, Distance

LEMMA StampMade ==
  ASSUME NEW v \in Nat, NEW f \in Nat
  PROVE  [value |-> v, of |-> f] \in Stamped
  BY DEF Stamped

LEMMA StampTypes ==
  ASSUME TypeOK
  PROVE  /\ motion.of \in Nat /\ distance.of \in Nat /\ origin \in Nat
         /\ seen.of \in Nat /\ paired.of \in Nat
  <1>1. /\ motion \in Stamped /\ distance \in Stamped
        /\ seen \in Stamped /\ paired \in Stamped /\ origin \in Nat
    BY DEF TypeOK
  <1>2. \A r \in Stamped : r.of \in Nat
    BY DEF Stamped
  <1> QED BY <1>1, <1>2

\* The frames that the stamps and the buffer refer to have been sent.
LEMMA StampsInRange ==
  ASSUME RadarInv
  PROVE  /\ motion.of \in 0..Len(frames) /\ distance.of \in 0..Len(frames)
         /\ Publishing => origin \in 1..Len(frames)
  <1>1. motion.of \in Nat /\ distance.of \in Nat /\ origin \in Nat
    BY StampTypes DEF RadarInv
  <1>2. /\ Len(frames) \in Nat /\ taken \in Nat /\ arrived \in Nat
        /\ taken <= arrived /\ arrived <= 7 * Len(frames)
    BY DEF RadarInv, TypeOK, LineOK
  <1>3. /\ 7 * motion.of <= taken /\ 7 * distance.of <= taken
        /\ Publishing => origin # 0 /\ 7 * origin <= taken
    BY DEF RadarInv, PublishedTaken, BufferIsFrame
  <1> QED BY <1>1, <1>2, <1>3

LEMMA InitRadarInv == Init => RadarInv
  <1> SUFFICES ASSUME Init PROVE RadarInv
    OBVIOUS
  <1>1. PICK p \in Payloads, n \in 0..6 : frames = <<p>> /\ arrived = n /\ taken = n
    BY DEF Init, hlk2411s_init
  <1>2. frames \in Seq(Payloads) /\ Len(frames) = 1
    BY <1>1
  <1>3. LineOK
    BY <1>1, <1>2 DEF LineOK
  <1>4. motion \in Stamped /\ motion.of = 0 /\ motion.value = 0
    BY <1>2 DEF Init, hlk2411s_init, Stamped
  <1>5. distance = motion /\ seen = motion /\ paired = motion
    BY DEF Init, hlk2411s_init
  <1>6. TypeOK
    BY <1>2, <1>3, <1>4, <1>5 DEF Init, hlk2411s_init, TypeOK, Byte
  <1>7. PublishedWhole /\ PairInOrder /\ PublishedTaken /\ SeenPublished
    BY <1>1, <1>4, <1>5 DEF PublishedWhole, PairInOrder, PublishedTaken, SeenPublished
  <1>8. BufferIsFrame /\ Halfway /\ RunsWhileOpen
    BY DEF Init, hlk2411s_init, BufferIsFrame, Publishing, Halfway, RunsWhileOpen
  <1> QED BY <1>6, <1>7, <1>8 DEF RadarInv

\* Another frame: what was sent before stays where it was.
LEMMA SendStep == RadarInv /\ radar_sends => RadarInv'
  <1> SUFFICES ASSUME RadarInv, radar_sends PROVE RadarInv'
    OBVIOUS
  <1> USE DEF RadarInv
  <1>1. PICK p \in Payloads : frames' = Append(frames, p)
    BY DEF radar_sends
  <1>2. frames \in Seq(Payloads) /\ Len(frames) \in Nat
    BY DEF TypeOK, LineOK
  <1>3. /\ frames' \in Seq(Payloads) /\ Len(frames') = Len(frames) + 1
        /\ \A f \in 1..Len(frames) : frames'[f] = frames[f]
    BY <1>1, <1>2
  <1>4. LineOK'
    BY <1>2, <1>3 DEF radar_sends, TypeOK, LineOK
  <1>6. TypeOK'
    BY <1>4 DEF radar_sends, TypeOK, data, follow
  <1>7. PublishedWhole'
    <2>1. motion.of \in 0..Len(frames) /\ distance.of \in 0..Len(frames)
      BY <1>2, StampsInRange
    <2> QED BY <1>2, <1>3, <2>1 DEF radar_sends, data, PublishedWhole
  <1>8. BufferIsFrame'
    <2>1. Publishing => origin \in 1..Len(frames)
      BY <1>2, StampsInRange
    <2> QED BY <1>2, <1>3, <2>1 DEF radar_sends, data, BufferIsFrame, Publishing
  <1>9. PairInOrder' /\ PublishedTaken' /\ Halfway' /\ SeenPublished' /\ RunsWhileOpen'
    BY DEF radar_sends, data, follow, PairInOrder, PublishedTaken, Halfway,
           SeenPublished, RunsWhileOpen
  <1> QED BY <1>6, <1>7, <1>8, <1>9

LEMMA ArriveStep == RadarInv /\ bytes_arrive => RadarInv'
  <1> SUFFICES ASSUME RadarInv, bytes_arrive PROVE RadarInv'
    OBVIOUS
  <1> USE DEF RadarInv
  <1>1. LineOK'
    BY DEF bytes_arrive, TypeOK, LineOK
  <1>2. TypeOK'
    BY <1>1 DEF bytes_arrive, TypeOK, data, follow
  <1>3. PublishedWhole' /\ BufferIsFrame'
    BY DEF bytes_arrive, data, PublishedWhole, BufferIsFrame, Publishing
  <1>4. PairInOrder' /\ PublishedTaken' /\ Halfway' /\ SeenPublished' /\ RunsWhileOpen'
    BY DEF bytes_arrive, data, follow, PairInOrder, PublishedTaken, Halfway,
           SeenPublished, RunsWhileOpen
  <1> QED BY <1>2, <1>3, <1>4

\* The read, and what its checks let through.
LEMMA ReadStep == RadarInv /\ loop_read => RadarInv'
  <1> SUFFICES ASSUME RadarInv, loop_read PROVE RadarInv'
    OBVIOUS
  <1> USE DEF RadarInv
  <1> DEFINE n == Min7(arrived - taken)
  <1>1. /\ LineOK /\ Len(frames) \in Nat
        /\ taken \in Nat /\ arrived \in Nat /\ taken <= arrived
        /\ arrived <= 7 * Len(frames)
    BY DEF TypeOK, LineOK
  <1>2. /\ UNCHANGED <<frames, arrived, motion, distance, fpc, seen, paired, reads, port>>
        /\ pc = "read" /\ port = "open"
    BY DEF loop_read, data, follow
  <1>3. /\ motion.of \in Nat /\ distance.of \in Nat
        /\ 7 * motion.of <= taken /\ 7 * distance.of <= taken
    BY StampTypes DEF PublishedTaken
  <1>4. PublishedWhole'
    BY <1>2 DEF PublishedWhole, loop_read
  <1>5. PairInOrder' /\ SeenPublished'
    BY <1>2 DEF PairInOrder, SeenPublished
  <1>7. CASE n = 0
    <2>1. pc' = "sleep" /\ UNCHANGED <<taken, buffer, origin>>
      BY <1>7 DEF loop_read
    <2>2. TypeOK' /\ PublishedTaken'
      BY <1>2, <2>1 DEF TypeOK, LineOK, PublishedTaken
    <2>3. BufferIsFrame' /\ Halfway' /\ RunsWhileOpen'
      BY <2>1 DEF BufferIsFrame, Publishing, Halfway, RunsWhileOpen
    <2> QED BY <1>4, <1>5, <2>2, <2>3
  <1>8. CASE n # 0
    <2>1. n \in 1..7 /\ taken + n <= arrived
      BY <1>1, <1>8 DEF Min7
    <2>2. /\ taken' = taken + n /\ buffer' = Filled(n)
          /\ origin' = IF taken % 7 = 0 THEN taken \div 7 + 1 ELSE 0
          /\ pc' = IF Valid(Filled(n)) THEN "lock" ELSE "read"
      BY <1>8 DEF loop_read
    <2> HIDE DEF n
    <2>3. buffer' \in [1..7 -> Byte]
      BY <1>1, <2>1, <2>2, FilledBytes
    <2>4. origin' \in Nat
      BY <1>1, <2>1, <2>2
    <2>5. LineOK' /\ PublishedTaken'
      BY <1>1, <1>2, <1>3, <2>1, <2>2 DEF LineOK, PublishedTaken
    <2>6. TypeOK'
      BY <1>2, <2>2, <2>3, <2>4, <2>5 DEF TypeOK
    <2>7. BufferIsFrame'
      <3>1. CASE Valid(Filled(n))
        <4>1. /\ n = 7 /\ taken % 7 = 0
              /\ Filled(n) = Encoded(frames[taken \div 7 + 1])
          BY <1>1, <2>1, <3>1, AcceptedAligned
        <4>2. origin' = taken \div 7 + 1
          BY <2>2, <4>1
        <4>3. origin' # 0 /\ 7 * origin' <= taken' /\ distance'.of <= origin'
          BY <1>1, <1>2, <1>3, <2>2, <4>1, <4>2
        <4>4. buffer' = Encoded(frames'[origin'])
          BY <1>2, <2>2, <4>1, <4>2
        <4> QED BY <4>3, <4>4 DEF BufferIsFrame, Encoded
      <3>2. CASE ~Valid(Filled(n))
        BY <2>2, <3>2 DEF BufferIsFrame, Publishing
      <3> QED BY <3>1, <3>2
    <2>8. Halfway' /\ RunsWhileOpen'
      BY <2>2 DEF Halfway, RunsWhileOpen
    <2> QED BY <1>4, <1>5, <2>5, <2>6, <2>7, <2>8
  <1> QED BY <1>7, <1>8

\* The two stores of hlk2411_loop, under the lock.
LEMMA StoreStep == RadarInv /\ (loop_motion \/ loop_distance) => RadarInv'
  <1> SUFFICES ASSUME RadarInv, loop_motion \/ loop_distance PROVE RadarInv'
    OBVIOUS
  <1> USE DEF RadarInv
  <1>1. Publishing
    BY DEF loop_motion, loop_distance, Publishing
  <1>2. /\ origin \in 1..Len(frames) /\ origin \in Nat /\ 7 * origin <= taken
        /\ buffer = Encoded(frames[origin])
        /\ distance.of <= origin
    BY <1>1, StampsInRange, StampTypes DEF BufferIsFrame
  <1>3. frames[origin] \in Payloads
    BY <1>2 DEF TypeOK, LineOK
  <1>4. /\ buffer[3] = frames[origin].motion
        /\ buffer[4] = frames[origin].low /\ buffer[5] = frames[origin].high
        /\ buffer[3] \in Byte /\ buffer[4] \in Byte /\ buffer[5] \in Byte
    BY <1>2, <1>3, FrameBytes
  <1>5. /\ distance.of \in Nat /\ seen.of \in Nat /\ paired.of \in Nat
        /\ 7 * motion.of <= taken /\ 7 * distance.of <= taken
    BY StampTypes DEF PublishedTaken
  <1>6. CASE loop_motion
    <2>1. /\ pc = "motion" /\ pc' = "distance"
          /\ motion' = [value |-> buffer[3], of |-> origin]
          /\ UNCHANGED <<frames, arrived, taken, buffer, origin, distance,
                         fpc, seen, paired, reads, port>>
      BY <1>6 DEF loop_motion, line, follow
    <2>2. motion' \in Stamped
      <3>1. buffer[3] \in Nat
        BY <1>4 DEF Byte
      <3> QED BY <1>2, <2>1, <3>1, StampMade
    <2>3. TypeOK'
      BY <2>1, <2>2 DEF TypeOK, LineOK
    <2>4. PublishedWhole'
      BY <1>2, <1>4, <2>1 DEF PublishedWhole
    <2>5. BufferIsFrame'
      BY <1>2, <2>1 DEF BufferIsFrame, Publishing
    <2>6. PublishedTaken' /\ Halfway' /\ RunsWhileOpen'
      BY <1>2, <1>5, <2>1 DEF PublishedTaken, Halfway, RunsWhileOpen
    <2>7. PairInOrder' /\ SeenPublished'
      BY <2>1 DEF PairInOrder, SeenPublished
    <2> QED BY <2>3, <2>4, <2>5, <2>6, <2>7
  <1>7. CASE loop_distance
    <2>1. /\ pc = "distance" /\ pc' = "sleep"
          /\ distance' = [value |-> Distance(buffer[4], buffer[5]), of |-> origin]
          /\ UNCHANGED <<frames, arrived, taken, buffer, origin, motion,
                         fpc, seen, paired, reads, port>>
      BY <1>7 DEF loop_distance, line, follow
    <2>2. distance' \in Stamped
      <3>1. Distance(buffer[4], buffer[5]) \in Nat
        BY <1>4, DistanceType
      <3> QED BY <1>2, <2>1, <3>1, StampMade
    <2>3. TypeOK'
      BY <2>1, <2>2 DEF TypeOK, LineOK
    <2>4. motion.of = origin
      BY <2>1 DEF Halfway
    <2>5. PublishedWhole'
      BY <1>2, <1>4, <2>1, <2>4 DEF PublishedWhole
    <2>6. BufferIsFrame' /\ Halfway' /\ RunsWhileOpen'
      BY <2>1 DEF BufferIsFrame, Publishing, Halfway, RunsWhileOpen
    <2>7. PublishedTaken'
      BY <1>2, <1>5, <2>1 DEF PublishedTaken
    <2>8. PairInOrder' /\ SeenPublished'
      BY <1>2, <1>5, <2>1 DEF PairInOrder, SeenPublished
    <2> QED BY <2>3, <2>5, <2>6, <2>7, <2>8
  <1> QED BY <1>6, <1>7

\* The steps of the thread that only move it on.
LEMMA MoveStep ==
  RadarInv /\ (loop_lock \/ loop_sleep \/ loop_cancelled \/ loop_crash) => RadarInv'
  <1> SUFFICES ASSUME RadarInv, loop_lock \/ loop_sleep \/ loop_cancelled \/ loop_crash
               PROVE  RadarInv'
    OBVIOUS
  <1> USE DEF RadarInv
  <1>1. UNCHANGED <<frames, arrived, taken, buffer, origin, motion, distance,
                    fpc, seen, paired, reads, port>>
    BY DEF loop_lock, loop_sleep, loop_cancelled, loop_crash, line, data, follow
  <1>2. \/ pc = "lock" /\ pc' = "motion"
        \/ pc = "sleep" /\ pc' = "read"
        \/ pc' \in {"ended", "crashed"} /\ port = "closed"
    BY DEF loop_lock, loop_sleep, loop_cancelled, loop_crash
  <1>3. TypeOK'
    BY <1>1, <1>2 DEF TypeOK, LineOK
  <1>4. PublishedWhole'
    BY <1>1, <1>2 DEF PublishedWhole
  <1>5. BufferIsFrame' /\ Halfway' /\ RunsWhileOpen'
    BY <1>1, <1>2 DEF BufferIsFrame, Publishing, Halfway, RunsWhileOpen
  <1>6. PublishedTaken' /\ PairInOrder' /\ SeenPublished'
    BY <1>1 DEF PublishedTaken, PairInOrder, SeenPublished
  <1> QED BY <1>3, <1>4, <1>5, <1>6

\* The follow thread's reads, each under the lock.
LEMMA FollowStep ==
  ASSUME RadarInv, NEW c \in {"motion", "distance"}, hlk2411s_read(c)
  PROVE  RadarInv'
  <1> USE DEF RadarInv
  <1>1. /\ UNCHANGED <<frames, arrived, taken, buffer, origin, pc, motion, distance, port>>
        /\ port = "open" /\ fpc = c /\ pc \notin {"motion", "distance"}
    BY DEF hlk2411s_read, line, data, Locked
  <1>2. motion.of = distance.of
    BY <1>1 DEF TypeOK, PublishedWhole, RunsWhileOpen
  <1>3. /\ PublishedWhole' /\ BufferIsFrame' /\ PublishedTaken'
        /\ Halfway' /\ RunsWhileOpen'
    BY <1>1 DEF PublishedWhole, BufferIsFrame, Publishing, PublishedTaken,
                Halfway, RunsWhileOpen
  <1>4. motion.of \in Nat /\ distance.of \in Nat
    BY StampTypes
  <1>5. CASE c = "motion"
    <2>1. seen' = motion /\ fpc' = "distance" /\ UNCHANGED <<paired, reads>>
      BY <1>5 DEF hlk2411s_read
    <2>2. TypeOK'
      BY <1>1, <2>1 DEF TypeOK, LineOK
    <2>3. PairInOrder' /\ SeenPublished'
      BY <1>1, <1>2, <1>4, <2>1 DEF PairInOrder, SeenPublished
    <2> QED BY <1>3, <2>2, <2>3
  <1>6. CASE c = "distance"
    <2>1. paired' = distance /\ fpc' = "motion" /\ reads' = reads + 1 /\ seen' = seen
      BY <1>6 DEF hlk2411s_read
    <2>2. TypeOK'
      BY <1>1, <2>1 DEF TypeOK, LineOK
    <2>3. PairInOrder' /\ SeenPublished'
      BY <1>1, <2>1 DEF PairInOrder, SeenPublished
    <2> QED BY <1>3, <2>2, <2>3
  <1> QED BY <1>5, <1>6

LEMMA NextRadarInv == RadarInv /\ [Next]_vars => RadarInv'
  <1> SUFFICES ASSUME RadarInv, [Next]_vars PROVE RadarInv'
    OBVIOUS
  <1>1. CASE radar_sends BY <1>1, SendStep
  <1>2. CASE bytes_arrive BY <1>2, ArriveStep
  <1>3. CASE Loop BY <1>3, ReadStep, StoreStep, MoveStep DEF Loop
  <1>4. ASSUME NEW c \in {"motion", "distance"}, hlk2411s_read(c) PROVE RadarInv'
    BY <1>4, FollowStep
  <1>5. CASE hlk2411s_deinit
    <2>1. /\ UNCHANGED <<frames, arrived, taken, buffer, origin, pc, motion, distance,
                         fpc, seen, paired, reads>>
          /\ port' = "closed"
      BY <1>5 DEF hlk2411s_deinit, line, data, follow
    <2>2. TypeOK'
      BY <2>1 DEF RadarInv, TypeOK, LineOK
    <2>3. /\ PublishedWhole' /\ PairInOrder' /\ BufferIsFrame' /\ PublishedTaken'
          /\ Halfway' /\ SeenPublished' /\ RunsWhileOpen'
      BY <2>1 DEF RadarInv, PublishedWhole, PairInOrder, BufferIsFrame, Publishing,
                  PublishedTaken, Halfway, SeenPublished, RunsWhileOpen
    <2> QED BY <2>2, <2>3 DEF RadarInv
  <1>6. CASE UNCHANGED vars
    <2>1. UNCHANGED <<frames, arrived, taken, buffer, origin, pc, motion, distance,
                      fpc, seen, paired, reads, port>>
      BY <1>6 DEF vars, line, data, follow
    <2>2. TypeOK'
      BY <2>1 DEF RadarInv, TypeOK, LineOK
    <2>3. /\ PublishedWhole' /\ PairInOrder' /\ BufferIsFrame' /\ PublishedTaken'
          /\ Halfway' /\ SeenPublished' /\ RunsWhileOpen'
      BY <2>1 DEF RadarInv, PublishedWhole, PairInOrder, BufferIsFrame, Publishing,
                  PublishedTaken, Halfway, SeenPublished, RunsWhileOpen
    <2> QED BY <2>2, <2>3 DEF RadarInv
  <1> QED BY <1>1, <1>2, <1>3, <1>4, <1>5, <1>6 DEF Next

LEMMA RadarInvariant == Spec => []RadarInv
  BY InitRadarInv, NextRadarInv, PTL DEF Spec

\* The variables of the radar thread, the line and the follow thread keep their types.
THEOREM RadarTypes == Spec => []TypeOK
  <1>1. RadarInv => TypeOK
    BY DEF RadarInv
  <1> QED BY <1>1, RadarInvariant, PTL

\* hlk2411_loop only ever publishes whole frames, for every payload, number of
\* frames, cut of the bytes into reads and point at which the port was opened.
THEOREM WholeFramesOnly == Spec => []PublishedWhole
  <1>1. RadarInv => PublishedWhole
    BY DEF RadarInv
  <1> QED BY <1>1, RadarInvariant, PTL

\* The distance the follow thread pairs with a motion is never an older one.
THEOREM PairsInOrder == Spec => []PairInOrder
  <1>1. RadarInv => PairInOrder
    BY DEF RadarInv
  <1> QED BY <1>1, RadarInvariant, PTL

=============================================================================

----------------------------- MODULE CommProofs -----------------------------
(***************************************************************************)
(* The four safety properties of the TCP side, for any set of connections  *)
(* and any number of descriptors.                                          *)
(***************************************************************************)
EXTENDS Comm, TLAPS

\* The actions, one by one.
LEMMA NextCases ==
  ASSUME Next
  PROVE  \/ \E c \in Conns : \/ Connect(c) \/ ClientClose(c)
                             \/ ClientReset(c) \/ ClientStall(c)
                             \/ \E what \in {"mode", "other"} : ClientSend(c, what)
         \/ \E t \in Threads : send_check(t) \/ send_lock(t) \/ send_busy(t)
                                 \/ send_copy(t) \/ send_copied(t)
         \/ stlr_stop \/ sensor_top \/ sensor_slept
         \/ wait_for_client \/ accept_client \/ select_interrupted \/ comm_top
         \/ read_timeout \/ read_data \/ read_eof \/ read_error
         \/ flush_lock \/ flush_empty \/ flush_write \/ flush_clear
  BY DEF Next, Client, CommStep, SensorStep, Locking, stlr_comm_send, Threads

\* Every action keeps the types.
LEMMA TypeNext ==
  ASSUME CommInv, Next
  PROVE  TypeOK'
  <1> USE FdAssumption, ConnAssumption DEF CommInv, TypeOK, netVars, srvVars, Threads, Goto
  <1>1. ASSUME NEW c \in Conns, Connect(c) PROVE TypeOK'
    BY <1>1 DEF Connect
  <1>2. ASSUME NEW c \in Conns, ClientClose(c) PROVE TypeOK'
    BY <1>2 DEF ClientClose
  <1>3. ASSUME NEW c \in Conns, ClientReset(c) PROVE TypeOK'
    BY <1>3 DEF ClientReset
  <1>4. ASSUME NEW c \in Conns, ClientStall(c) PROVE TypeOK'
    BY <1>4 DEF ClientStall
  <1>5. ASSUME NEW c \in Conns, NEW what \in {"mode", "other"}, ClientSend(c, what)
        PROVE  TypeOK'
    BY <1>5 DEF ClientSend
  <1>6. ASSUME NEW t \in Threads, send_check(t) PROVE TypeOK'
    BY <1>6 DEF send_check, Back
  <1>7. ASSUME NEW t \in Threads, send_lock(t) PROVE TypeOK'
    BY <1>7 DEF send_lock
  <1>8. ASSUME NEW t \in Threads, send_busy(t) PROVE TypeOK'
    BY <1>8 DEF send_busy, Back
  <1>9. ASSUME NEW t \in Threads, send_copy(t) PROVE TypeOK'
    BY <1>9 DEF send_copy, Kind
  <1>10. ASSUME NEW t \in Threads, send_copied(t) PROVE TypeOK'
    BY <1>10 DEF send_copied, Kind, Back
  <1>11. CASE stlr_stop BY <1>11 DEF stlr_stop
  <1>12. CASE sensor_top BY <1>12 DEF sensor_top
  <1>13. CASE sensor_slept BY <1>13 DEF sensor_slept
  <1>14. CASE wait_for_client BY <1>14 DEF wait_for_client
  <1>15. CASE accept_client
    <2>1. listening /\ held < MaxFds => /\ held + 1 \in 0..MaxFds
                                       /\ Head(backlog) \in Conns
                                       /\ Tail(backlog) \in Seq(Conns)
      BY <1>15 DEF accept_client
    <2> QED BY <1>15, <2>1 DEF accept_client
  <1>16. CASE select_interrupted BY <1>16 DEF select_interrupted
  <1>17. CASE comm_top
    <2>1. isStop /\ connfd \in Conns => held - 1 \in 0..MaxFds
      BY <1>17 DEF comm_top, FdInv
    <2>2. held' \in 0..MaxFds /\ connfd' = connfd /\ connected' = connected
      BY <1>17, <2>1 DEF comm_top
    <2>3. listening' \in BOOLEAN
      BY <1>17, Zenon DEF comm_top
    <2> QED BY <1>17, <2>2, <2>3 DEF comm_top
  <1>18. CASE read_timeout BY <1>18 DEF read_timeout
  <1>19. CASE read_data BY <1>19 DEF read_data
  <1>20. CASE read_eof BY <1>20 DEF read_eof
  <1>21. CASE read_error BY <1>21 DEF read_error
  <1>22. CASE flush_lock BY <1>22 DEF flush_lock
  <1>23. CASE flush_empty BY <1>23 DEF flush_empty
  <1>24. CASE flush_write
    <2>1. sock' \in [Conns -> {"new", "open", "fin", "finrst", "rsterr", "rst"}]
      BY <1>24 DEF flush_write, AfterWrite
    <2>2. pc' \in [Threads -> {"listen", "select", "top", "poll", "flush", "write", "clear",
                              "send", "sendlock", "sendcopy", "sendcopied", "sleep",
                              "exit", "dead"}]
      BY <1>24 DEF flush_write
    <2>3. listening' \in BOOLEAN
      BY <1>24, Zenon DEF flush_write
    <2> QED BY <1>24, <2>1, <2>2, <2>3 DEF flush_write
  <1>25. CASE flush_clear BY <1>25 DEF flush_clear, Empty
  <1> QED
    BY NextCases, <1>1, <1>2, <1>3, <1>4, <1>5, <1>6, <1>7, <1>8, <1>9, <1>10, <1>11, <1>12,
       <1>13, <1>14, <1>15, <1>16, <1>17, <1>18, <1>19, <1>20, <1>21, <1>22, <1>23, <1>24,
       <1>25

-----------------------------------------------------------------------------
(* The other parts of CommInv, by the actors whose steps disturb them.     *)

Parts ==
  /\ LockInv /\ BufInv /\ AckInv /\ HastyInv /\ FdInv
  /\ PoliteClientsNeverKill /\ DeafOnlyForAReason

\* The clients: what one leaves unread when it closes, it left in haste; a
\* connection that is reset stays so until the comm thread uses it.
LEMMA ClientNext ==
  ASSUME CommInv, Client
  PROVE  Parts'
  <1> USE DEF CommInv, TypeOK, netVars, srvVars
  <1>1. ASSUME NEW c \in Conns, Connect(c) PROVE HastyInv' /\ PoliteClientsNeverKill'
    BY <1>1 DEF Connect, HastyInv, PoliteClientsNeverKill, killed
  <1>2. ASSUME NEW c \in Conns, ClientClose(c) PROVE HastyInv' /\ PoliteClientsNeverKill'
    BY <1>2 DEF ClientClose, HastyInv, PoliteClientsNeverKill, killed
  <1>3. ASSUME NEW c \in Conns, ClientReset(c) PROVE HastyInv' /\ PoliteClientsNeverKill'
    BY <1>3 DEF ClientReset, HastyInv, PoliteClientsNeverKill, killed
  <1>4. ASSUME NEW c \in Conns, ClientStall(c) PROVE HastyInv' /\ PoliteClientsNeverKill'
    BY <1>4 DEF ClientStall, HastyInv, PoliteClientsNeverKill, killed
  <1>5. ASSUME NEW c \in Conns, NEW what \in {"mode", "other"}, ClientSend(c, what)
        PROVE  HastyInv' /\ PoliteClientsNeverKill'
    BY <1>5 DEF ClientSend, HastyInv, PoliteClientsNeverKill, killed
  <1>6. HastyInv' /\ PoliteClientsNeverKill'
    BY <1>1, <1>2, <1>3, <1>4, <1>5 DEF Client
  <1>7. UNCHANGED <<srvVars, pc, sendLock, sbuf>>
    BY DEF Client, Connect, ClientClose, ClientReset, ClientStall, ClientSend
  <1>8. LockInv' /\ BufInv' /\ AckInv' /\ FdInv' /\ DeafOnlyForAReason'
    BY <1>7 DEF LockInv, BufInv, AckInv, FdInv, DeafOnlyForAReason, killed
  <1> QED BY <1>6, <1>8 DEF Parts

\* stlr_comm_send, in either thread: the copy is made under send_lock, into an
\* empty sbuf.
LEMMA SendNext ==
  ASSUME CommInv, NEW t \in Threads,
         send_check(t) \/ send_lock(t) \/ send_busy(t) \/ send_copy(t) \/ send_copied(t)
  PROVE  Parts'
  <1> USE DEF CommInv, TypeOK, Threads, Goto, netVars, srvVars
  <1>1. LockInv'
    <2> USE DEF LockInv, Holding, killed
    <2>1. CASE send_check(t) BY <2>1 DEF send_check, Back
    <2>2. CASE send_lock(t) BY <2>2 DEF send_lock
    <2>3. CASE send_busy(t) BY <2>3 DEF send_busy, Back
    <2>4. CASE send_copy(t) BY <2>4 DEF send_copy
    <2>5. CASE send_copied(t) BY <2>5 DEF send_copied, Back
    <2> QED BY <2>1, <2>2, <2>3, <2>4, <2>5
  <1>2. BufInv'
    <2> USE DEF LockInv, Holding, BufInv, Kind
    <2>1. CASE send_check(t) BY <2>1 DEF send_check, Back
    <2>2. CASE send_lock(t) BY <2>2 DEF send_lock
    <2>3. CASE send_busy(t) BY <2>3 DEF send_busy, Back
    <2>4. CASE send_copy(t) BY <2>4 DEF send_copy
    <2>5. CASE send_copied(t) BY <2>5 DEF send_copied, Back
    <2> QED BY <2>1, <2>2, <2>3, <2>4, <2>5
  <1>3. AckInv'
    <2> USE DEF AckInv, Kind
    <2>1. CASE send_check(t) BY <2>1 DEF send_check, Back
    <2>2. CASE send_lock(t) BY <2>2 DEF send_lock
    <2>3. CASE send_busy(t) BY <2>3 DEF send_busy, Back
    <2>4. CASE send_copy(t) BY <2>4 DEF send_copy
    <2>5. CASE send_copied(t) BY <2>5 DEF send_copied, Back
    <2> QED BY <2>1, <2>2, <2>3, <2>4, <2>5
  <1>4. /\ UNCHANGED <<netVars, srvVars>>
        /\ pc'["comm"] \in Answering => pc["comm"] \in Answering
        /\ pc'["comm"] \in {"dead", "exit"} <=> pc["comm"] \in {"dead", "exit"}
        /\ killed' <=> killed
    BY DEF send_check, send_lock, send_busy, send_copy, send_copied, Back, Answering, killed
  <1>5. HastyInv' /\ FdInv' /\ PoliteClientsNeverKill' /\ DeafOnlyForAReason'
    BY <1>4 DEF HastyInv, FdInv, PoliteClientsNeverKill, DeafOnlyForAReason, Answering, killed
  <1> QED BY <1>1, <1>2, <1>3, <1>5 DEF Parts

\* The sensor thread between two sends, and stlr_stop.
LEMMA SensorNext ==
  ASSUME CommInv, sensor_top \/ sensor_slept \/ stlr_stop
  PROVE  Parts'
  <1> USE DEF CommInv, TypeOK, Threads, Goto, netVars, srvVars
  <1>1. /\ UNCHANGED <<netVars, srvVars, sendLock, sbuf>>
        /\ pc'["comm"] = pc["comm"]
        /\ pc'["sensor"] # pc["sensor"] =>
             {pc["sensor"], pc'["sensor"]} \subseteq {"top", "sleep", "send", "exit"}
    BY DEF sensor_top, sensor_slept, stlr_stop
  <1>2. LockInv' /\ BufInv' /\ AckInv'
    BY <1>1 DEF LockInv, BufInv, AckInv, Holding, Kind, killed
  <1>3. HastyInv' /\ FdInv' /\ PoliteClientsNeverKill' /\ DeafOnlyForAReason'
    BY <1>1 DEF HastyInv, FdInv, PoliteClientsNeverKill, DeafOnlyForAReason, killed
  <1> QED BY <1>2, <1>3 DEF Parts

\* The comm thread without send_lock: sbuf is as it was, and holds no "ok" until
\* the callback has put one there.
LEMMA ServeNext ==
  ASSUME CommInv,
         \/ wait_for_client \/ accept_client \/ select_interrupted \/ comm_top
         \/ read_timeout \/ read_data \/ read_eof \/ read_error
  PROVE  Parts'
  <1> USE DEF CommInv, TypeOK, Threads, Goto, netVars, srvVars
  <1>1. /\ UNCHANGED <<sendLock, sbuf>> /\ pc'["sensor"] = pc["sensor"]
        /\ pc["comm"] \in {"listen", "select", "top", "poll"}
        /\ pc'["comm"] \in {"listen", "select", "top", "poll", "send", "flush", "exit"}
    BY DEF wait_for_client, accept_client, select_interrupted, comm_top, read_timeout,
           read_data, read_eof, read_error
  <1>2. LockInv' /\ BufInv' /\ AckInv'
    BY <1>1 DEF LockInv, BufInv, AckInv, Holding, Kind, killed
  <1>3. HastyInv'
    <2> USE ConnAssumption DEF HastyInv, Answering
    <2>1. CASE wait_for_client BY <2>1 DEF wait_for_client
    <2>2. CASE accept_client BY <2>2 DEF accept_client
    <2>3. CASE select_interrupted BY <2>3 DEF select_interrupted
    <2>4. CASE comm_top BY <2>4 DEF comm_top
    <2>5. CASE read_timeout BY <2>5 DEF read_timeout, Idle
    <2>6. CASE read_data BY <2>6 DEF read_data, HasData
    <2>7. CASE read_eof BY <2>7 DEF read_eof
    <2>8. CASE read_error BY <2>8 DEF read_error, HasData
    <2> QED BY <2>1, <2>2, <2>3, <2>4, <2>5, <2>6, <2>7, <2>8
  <1>4. FdInv'
    <2> USE FdAssumption, ConnAssumption DEF FdInv
    <2>1. CASE accept_client BY <2>1 DEF accept_client
    <2>2. CASE comm_top BY <2>2 DEF comm_top
    <2>3. CASE ~accept_client /\ ~comm_top
      BY <1>1, <2>3 DEF wait_for_client, select_interrupted, read_timeout, read_data,
                        read_eof, read_error
    <2> QED BY <2>1, <2>2, <2>3
  <1>5. PoliteClientsNeverKill'
    BY <1>1 DEF PoliteClientsNeverKill, killed
  <1>6. DeafOnlyForAReason'
    <2> USE FdAssumption, ConnAssumption DEF DeafOnlyForAReason
    <2>1. CASE wait_for_client BY <2>1 DEF wait_for_client
    <2>2. CASE accept_client BY <2>2 DEF accept_client
    <2>3. CASE comm_top BY <2>3 DEF comm_top
    <2>4. CASE ~wait_for_client /\ ~accept_client /\ ~comm_top
      BY <2>4 DEF select_interrupted, read_timeout, read_data, read_eof, read_error
    <2> QED BY <2>1, <2>2, <2>3, <2>4
  <1> QED BY <1>2, <1>3, <1>4, <1>5, <1>6 DEF Parts

\* The flush, under send_lock: a write raises SIGPIPE only on a connection that was
\* written to, or whose error was reported, after the client had gone.
LEMMA FlushNext ==
  ASSUME CommInv, flush_lock \/ flush_empty \/ flush_write \/ flush_clear
  PROVE  Parts'
  <1> USE DEF CommInv, TypeOK, Threads, Goto, netVars, srvVars
  <1>1. CASE flush_lock
    BY <1>1 DEF flush_lock, Parts, LockInv, BufInv, AckInv, HastyInv, FdInv, Holding, Kind,
                Answering, PoliteClientsNeverKill, DeafOnlyForAReason, killed
  <1>2. CASE flush_empty
    BY <1>2 DEF flush_empty, Parts, LockInv, BufInv, AckInv, HastyInv, FdInv, Holding, Kind,
                Answering, PoliteClientsNeverKill, DeafOnlyForAReason, killed
  <1>3. CASE flush_write
    <2> USE <1>3 DEF flush_write, AfterWrite
    <2>1. LockInv' BY DEF LockInv, Holding, killed
    <2>2. BufInv' BY DEF LockInv, Holding, BufInv, Kind
    <2>3. AckInv' BY DEF AckInv
    <2>4. HastyInv' BY DEF HastyInv, Answering
    <2>5. FdInv' BY DEF FdInv
    <2>6. PoliteClientsNeverKill'
      BY DEF HastyInv, Answering, PoliteClientsNeverKill, killed
    <2>7. DeafOnlyForAReason' BY DEF DeafOnlyForAReason
    <2> QED BY <2>1, <2>2, <2>3, <2>4, <2>5, <2>6, <2>7 DEF Parts
  <1>4. CASE flush_clear
    BY <1>4 DEF flush_clear, Empty, Parts, LockInv, BufInv, AckInv, HastyInv, FdInv, Holding,
                Kind, Answering, PoliteClientsNeverKill, DeafOnlyForAReason, killed
  <1> QED BY <1>1, <1>2, <1>3, <1>4

-----------------------------------------------------------------------------

\* The invariant holds at the start, and
LEMMA CommInit == Init => CommInv
  <1> SUFFICES ASSUME Init PROVE CommInv
    OBVIOUS
  <1>1. TypeOK
    <2>1. sbuf \in [head : {"none", "ok", "telemetry"}, tail : {"none", "ok", "telemetry"},
                    conn : Conns \cup {"NoFd", "stdin"}]
      BY DEF Init, Empty
    <2>2. listening \in BOOLEAN /\ connected \in BOOLEAN /\ isStop \in BOOLEAN
      BY Zenon DEF Init
    <2>3. /\ sock \in [Conns -> {"new", "open", "fin", "finrst", "rsterr", "rst"}]
          /\ unread \in [Conns -> {"none", "mode", "other"}]
          /\ backlog \in Seq(Conns)
      BY DEF Init
    <2>4. pc \in [Threads -> {"listen", "select", "top", "poll", "flush", "write", "clear",
                             "send", "sendlock", "sendcopy", "sendcopied", "sleep",
                             "exit", "dead"}]
      BY DEF Init, Threads
    <2>5. held \in 0..MaxFds
      BY FdAssumption DEF Init
    <2> QED BY <2>1, <2>2, <2>3, <2>4, <2>5 DEF Init, TypeOK
  <1>2. LockInv /\ BufInv /\ AckInv
    BY DEF Init, Empty, LockInv, BufInv, AckInv, Holding, Threads
  <1>3. HastyInv /\ FdInv /\ PoliteClientsNeverKill /\ DeafOnlyForAReason
    BY ConnAssumption DEF Init, HastyInv, FdInv, PoliteClientsNeverKill, DeafOnlyForAReason,
                          killed, Threads
  <1> QED BY <1>1, <1>2, <1>3 DEF CommInv

\* every step preserves it.
LEMMA CommInvNext == CommInv /\ [Next]_vars => CommInv'
  <1> SUFFICES ASSUME CommInv, [Next]_vars PROVE CommInv'
    OBVIOUS
  <1>1. CASE Next
    <2>1. TypeOK'
      BY <1>1, TypeNext
    <2>2. Parts'
      BY <1>1, NextCases, ClientNext, SendNext, SensorNext, ServeNext, FlushNext DEF Client
    <2> QED BY <2>1, <2>2 DEF CommInv, Parts
  <1>2. CASE UNCHANGED vars
    BY <1>2 DEF vars, netVars, srvVars, CommInv, TypeOK, LockInv, BufInv, AckInv, HastyInv,
                FdInv, PoliteClientsNeverKill, DeafOnlyForAReason, killed
  <1> QED BY <1>1, <1>2

\* The inductive invariant: who holds send_lock, what is in sbuf and for whom, and
\* what a departed client has left behind.
THEOREM CommInvariant == Spec => []CommInv
  BY CommInit, CommInvNext, PTL DEF Spec

\* Type correctness of the server, its clients, the two threads and sbuf.
THEOREM CommTypes == Spec => []TypeOK
  <1>1. CommInv => TypeOK
    BY DEF CommInv
  <1> QED BY <1>1, CommInvariant, PTL

\* Every path through stlr_comm_send and the flush gives send_lock back, and no two
\* threads are inside at once.
THEOREM SendLockDiscipline == Spec => []LockInv
  <1>1. CommInv => LockInv
    BY DEF CommInv
  <1> QED BY <1>1, CommInvariant, PTL

\* Only whole messages are written, whichever way the sensor thread and the
\* callback race for sbuf in stlr_comm_send.
THEOREM WholeMessages == Spec => []WholeWhenWritten
  <1>1. CommInv => WholeWhenWritten
    BY DEF CommInv, LockInv, BufInv, Holding, Threads, WholeWhenWritten
  <1> QED BY <1>1, CommInvariant, PTL

\* comm_loop flushes an "ok" on the connection whose command it answers.
THEOREM AckToItsClient == Spec => []AckGoesToItsClient
  <1>1. CommInv => AckGoesToItsClient
    BY DEF CommInv, AckInv, AckGoesToItsClient
  <1> QED BY <1>1, CommInvariant, PTL

\* SIGPIPE in tcp_write needs a client that aborted, or closed before all it had
\* sent was read.
THEOREM PoliteNeverKill == Spec => []PoliteClientsNeverKill
  <1>1. CommInv => PoliteClientsNeverKill
    BY DEF CommInv
  <1> QED BY <1>1, CommInvariant, PTL

\* tcp_wait_for_client takes accept's -1 for a client only when the server does not
\* listen or the process is out of descriptors.
THEOREM DeafForAReason == Spec => []DeafOnlyForAReason
  <1>1. CommInv => DeafOnlyForAReason
    BY DEF CommInv
  <1> QED BY <1>1, CommInvariant, PTL

=============================================================================

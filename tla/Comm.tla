-------------------------------- MODULE Comm --------------------------------
(***************************************************************************)
(* The TCP side of the stroller: the server of app/src/comm/tcpserver.c,   *)
(* the comm thread that serves one client at a time, and the one-message   *)
(* send buffer it shares with the sensor thread (stlr_comm_send, comm_loop *)
(* and sensor_loop in app/src/stroller.c).  What a received command does   *)
(* to the chassis is in Follow; here it matters only whether the receive   *)
(* callback answers "ok".                                                  *)
(*                                                                         *)
(* A connection is used once.  Its state is the one the Linux socket calls *)
(* tell apart (external to src/):                                          *)
(*   open    both ends up                                                  *)
(*   fin     the peer closed: read returns 0, a write provokes a reset     *)
(*   finrst  reset after fin: read returns 0, write raises SIGPIPE         *)
(*   rsterr  reset by the peer: the next call reports ECONNRESET, once     *)
(*   rst     that error is reported: read returns 0, write raises SIGPIPE  *)
(***************************************************************************)
EXTENDS Integers, Sequences

CONSTANTS
  Conns,     \* the connections clients can make
  MaxFds     \* how many accepted descriptors the process may have

ASSUME FdAssumption == MaxFds \in Nat \ {0}
ASSUME ConnAssumption == Conns \cap {"NoFd", "stdin"} = {}

VARIABLES
  sock,      \* per connection: "new" or the state above
  unread,    \* per connection: what the client sent last, "none" if it was read
  stalled,   \* the connections whose client does not read (send buffer full)
  backlog,   \* connections waiting to be accepted
  listening, \* tcp_start_server succeeded, and the server is not stopped
  held,      \* descriptors accepted and not closed
  connfd,    \* tcps->connfd; calloc made it 0, which is stdin
  connected, \* tcps->connected
  pc,        \* where the comm thread and the sensor thread are
  sendLock,  \* who holds send_lock
  sbuf,      \* the first and the last part of what is in sbuf, and whom it answers
  isStop,    \* is_stop
  hasty      \* history: the connections closed with something sent and unread

netVars  == <<sock, unread, stalled, backlog, hasty>>
srvVars  == <<listening, held, connfd, connected>>
vars == <<netVars, srvVars, pc, sendLock, sbuf, isStop>>

Threads == {"comm", "sensor"}
Empty == [head |-> "none", tail |-> "none", conn |-> "NoFd"]

killed == pc["comm"] = "dead"   \* SIGPIPE has ended the process

Goto(t, l) == pc' = [pc EXCEPT ![t] = l]

Init ==
  /\ sock = [c \in Conns |-> "new"]
  /\ unread = [c \in Conns |-> "none"]
  /\ stalled = {} /\ backlog = <<>> /\ hasty = {}
  /\ listening \in BOOLEAN
  /\ held = 0 /\ connfd = "stdin" /\ connected = FALSE
  /\ pc = [t \in Threads |-> IF t = "comm" THEN "listen" ELSE "top"]
  /\ sendLock = "none" /\ sbuf = Empty
  /\ isStop = FALSE

-----------------------------------------------------------------------------
(* The clients and their kernels.                                          *)

Connect(c) ==
  /\ sock[c] = "new" /\ listening
  /\ sock' = [sock EXCEPT ![c] = "open"]
  /\ backlog' = Append(backlog, c)
  /\ UNCHANGED <<unread, stalled, hasty, srvVars, pc, sendLock, sbuf, isStop>>

\* A mode switch, which is answered "ok", or any other bytes.
ClientSend(c, what) ==
  /\ sock[c] = "open" /\ unread[c] = "none"
  /\ unread' = [unread EXCEPT ![c] = what]
  /\ UNCHANGED <<sock, stalled, backlog, hasty, srvVars, pc, sendLock, sbuf, isStop>>

ClientClose(c) ==
  /\ sock[c] = "open" /\ c \notin stalled
  /\ sock' = [sock EXCEPT ![c] = "fin"]
  /\ hasty' = IF unread[c] # "none" THEN hasty \cup {c} ELSE hasty
  /\ UNCHANGED <<unread, stalled, backlog, srvVars, pc, sendLock, sbuf, isStop>>

\* The client aborts, or closes with our data unread.
ClientReset(c) ==
  /\ sock[c] = "open"
  /\ sock' = [sock EXCEPT ![c] = "rsterr"]
  /\ stalled' = stalled \ {c}
  /\ UNCHANGED <<unread, backlog, hasty, srvVars, pc, sendLock, sbuf, isStop>>

ClientStall(c) ==
  /\ sock[c] = "open"
  /\ stalled' = IF c \in stalled THEN stalled \ {c} ELSE stalled \cup {c}
  /\ UNCHANGED <<sock, unread, backlog, hasty, srvVars, pc, sendLock, sbuf, isStop>>

stlr_stop ==
  /\ ~isStop
  /\ isStop' = TRUE
  /\ UNCHANGED <<netVars, srvVars, pc, sendLock, sbuf>>

-----------------------------------------------------------------------------
(* stlr_comm_send, called by the sensor thread and by the receive callback. *)

\* Where a thread goes on after the call; in the comm thread that is the flush
\* of the same iteration.
Mutant_back(t) == IF t = "comm" THEN "top" ELSE "sleep"
Back(t) == IF t = "comm" THEN "flush" ELSE "sleep"

Kind(t) == IF t = "comm" THEN "ok" ELSE "telemetry"

\* tcp_is_connected, with no lock held.
send_check(t) ==
  /\ pc[t] = "send"
  /\ Goto(t, IF connected THEN "sendlock" ELSE Back(t))
  /\ UNCHANGED <<netVars, srvVars, sendLock, sbuf, isStop>>

\* Mutant: the lock is not waited for.
Mutant_send_lock(t) ==
  /\ pc[t] = "sendlock"
  /\ Goto(t, "sendcopy")
  /\ UNCHANGED <<netVars, srvVars, sendLock, sbuf, isStop>>

send_lock(t) ==
  /\ pc[t] = "sendlock" /\ sendLock = "none"
  /\ sendLock' = t
  /\ Goto(t, "sendcopy")
  /\ UNCHANGED <<netVars, srvVars, sbuf, isStop>>

\* Mutant: the early return leaves send_lock locked.
Mutant_send_busy(t) ==
  /\ pc[t] = "sendcopy" /\ sbuf.head # "none"
  /\ Goto(t, Back(t))
  /\ UNCHANGED <<netVars, srvVars, sendLock, sbuf, isStop>>

\* sbuf is in use: the message is dropped.
send_busy(t) ==
  /\ pc[t] = "sendcopy" /\ sbuf.head # "none"
  /\ sendLock' = "none"
  /\ Goto(t, Back(t))
  /\ UNCHANGED <<netVars, srvVars, sbuf, isStop>>

\* memcpy, in two steps.
send_copy(t) ==
  /\ pc[t] = "sendcopy" /\ sbuf.head = "none"
  /\ sbuf' = [sbuf EXCEPT !.head = Kind(t),
                          !.conn = IF t = "comm" THEN connfd ELSE "NoFd"]
  /\ Goto(t, "sendcopied")
  /\ UNCHANGED <<netVars, srvVars, sendLock, isStop>>

send_copied(t) ==
  /\ pc[t] = "sendcopied"
  /\ sbuf' = [sbuf EXCEPT !.tail = Kind(t)]
  /\ sendLock' = "none"
  /\ Goto(t, Back(t))
  /\ UNCHANGED <<netVars, srvVars, isStop>>

stlr_comm_send(t) == send_check(t) \/ send_busy(t) \/ send_copy(t) \/ send_copied(t)

-----------------------------------------------------------------------------
(* The sensor thread: measure, format, send, sleep.  The values it formats, *)
(* and sensor->mutex, which no other thread takes, are left out.            *)

sensor_top ==
  /\ pc["sensor"] = "top"
  /\ Goto("sensor", IF isStop THEN "exit" ELSE "send")
  /\ UNCHANGED <<netVars, srvVars, sendLock, sbuf, isStop>>

sensor_slept ==
  /\ pc["sensor"] = "sleep"
  /\ Goto("sensor", "top")
  /\ UNCHANGED <<netVars, srvVars, sendLock, sbuf, isStop>>

-----------------------------------------------------------------------------
(* The comm thread.                                                        *)

\* tcp_wait_for_client, up to its select.
wait_for_client ==
  /\ pc["comm"] = "listen"
  /\ connected' = FALSE
  /\ Goto("comm", "select")
  /\ UNCHANGED <<netVars, listening, held, connfd, sendLock, sbuf, isStop>>

\* select and accept.  A socket that does not listen is ready at once; accept
\* fails on it, and when no descriptor is left: its -1 is taken for a client.
accept_client ==
  /\ pc["comm"] = "select"
  /\ listening => backlog # <<>>
  /\ IF listening /\ held < MaxFds
     THEN /\ connfd' = Head(backlog)
          /\ backlog' = Tail(backlog)
          /\ held' = held + 1
     ELSE /\ connfd' = "NoFd"
          /\ UNCHANGED <<backlog, held>>
  /\ connected' = TRUE
  /\ Goto("comm", "top")
  /\ UNCHANGED <<sock, unread, stalled, hasty, listening, sendLock, sbuf, isStop>>

\* A signal ends select: the loop goes on with the old descriptor.
select_interrupted ==
  /\ pc["comm"] = "select"
  /\ Goto("comm", "top")
  /\ UNCHANGED <<netVars, srvVars, sendLock, sbuf, isStop>>

\* The loop condition; after the loop, tcp_stop_server closes both descriptors.
comm_top ==
  /\ pc["comm"] = "top"
  /\ IF isStop
     THEN /\ Goto("comm", "exit")
          /\ listening' = FALSE
          /\ held' = IF connfd \in Conns THEN held - 1 ELSE held
          /\ UNCHANGED <<connfd, connected>>
     ELSE /\ Goto("comm", "poll")
          /\ UNCHANGED srvVars
  /\ UNCHANGED <<netVars, sendLock, sbuf, isStop>>

\* The outcomes of tcp_read_timeout.  poll passes over a descriptor of -1; from
\* stdin anything may come.
HasData == connfd \in Conns /\ unread[connfd] # "none"
Idle == connfd \in Conns /\ unread[connfd] = "none" /\ sock[connfd] = "open"

read_timeout ==
  /\ pc["comm"] = "poll"
  /\ connfd \in {"NoFd", "stdin"} \/ Idle
  /\ Goto("comm", "flush")
  /\ UNCHANGED <<netVars, srvVars, sendLock, sbuf, isStop>>

\* Data, which is there even after the peer is gone; a mode switch makes the
\* callback answer.
read_data ==
  /\ pc["comm"] = "poll"
  /\ \/ /\ HasData
        /\ Goto("comm", IF unread[connfd] = "mode" THEN "send" ELSE "flush")
        /\ unread' = [unread EXCEPT ![connfd] = "none"]
     \/ /\ connfd = "stdin"
        /\ \E l \in {"send", "flush"} : Goto("comm", l)
        /\ UNCHANGED unread
  /\ UNCHANGED <<sock, stalled, backlog, hasty, srvVars, sendLock, sbuf, isStop>>

\* Mutant: the end of the connection is not told apart from data.
Mutant_read_eof ==
  /\ pc["comm"] = "poll"
  /\ \/ connfd = "stdin"
     \/ connfd \in Conns /\ ~HasData /\ sock[connfd] \in {"fin", "finrst", "rst"}
  /\ Goto("comm", "flush")
  /\ UNCHANGED <<netVars, srvVars, sendLock, sbuf, isStop>>

\* Mutant: the descriptor is closed and the loop goes on.
Mutant_read_eof_close ==
  /\ pc["comm"] = "poll"
  /\ \/ connfd = "stdin"
     \/ connfd \in Conns /\ ~HasData /\ sock[connfd] \in {"fin", "finrst", "rst"}
  /\ connfd' = "NoFd"
  /\ held' = IF connfd \in Conns THEN held - 1 ELSE held
  /\ Goto("comm", "top")
  /\ UNCHANGED <<netVars, listening, connected, sendLock, sbuf, isStop>>

\* Mutant: the end of the connection only restarts the loop.
Mutant_read_eof_continue ==
  /\ pc["comm"] = "poll"
  /\ \/ connfd = "stdin"
     \/ connfd \in Conns /\ ~HasData /\ sock[connfd] \in {"fin", "finrst", "rst"}
  /\ Goto("comm", "top")
  /\ UNCHANGED <<netVars, srvVars, sendLock, sbuf, isStop>>

\* read returned 0: goto start_listen, the descriptor staying open.
read_eof ==
  /\ pc["comm"] = "poll"
  /\ \/ connfd = "stdin"
     \/ connfd \in Conns /\ ~HasData /\ sock[connfd] \in {"fin", "finrst", "rst"}
  /\ Goto("comm", "listen")
  /\ UNCHANGED <<netVars, srvVars, sendLock, sbuf, isStop>>

\* read returned -1, which equals TIMEOUT_RET: taken for a timeout.
read_error ==
  /\ pc["comm"] = "poll"
  /\ connfd \in Conns /\ ~HasData /\ sock[connfd] = "rsterr"
  /\ sock' = [sock EXCEPT ![connfd] = "rst"]
  /\ Goto("comm", "flush")
  /\ UNCHANGED <<unread, stalled, backlog, hasty, srvVars, sendLock, sbuf, isStop>>

flush_lock ==
  /\ pc["comm"] = "flush" /\ sendLock = "none"
  /\ sendLock' = "comm"
  /\ Goto("comm", "write")
  /\ UNCHANGED <<netVars, srvVars, sbuf, isStop>>

flush_empty ==
  /\ pc["comm"] = "write" /\ sbuf.head = "none"
  /\ sendLock' = "none"
  /\ Goto("comm", "top")
  /\ UNCHANGED <<netVars, srvVars, sbuf, isStop>>

\* tcp_write, its result ignored.  It blocks, send_lock held, while an open
\* connection is stalled.
AfterWrite(s) ==
  CASE s = "fin" -> "finrst" [] s = "rsterr" -> "rst" [] OTHER -> s

flush_write ==
  /\ pc["comm"] = "write" /\ sbuf.head # "none"
  /\ connfd \notin stalled
  /\ IF connfd \in Conns /\ sock[connfd] \in {"finrst", "rst"}
     THEN /\ pc' = [t \in Threads |-> "dead"]
          /\ listening' = FALSE
     ELSE /\ Goto("comm", "clear")
          /\ UNCHANGED listening
  /\ sock' = [c \in Conns |-> IF c = connfd THEN AfterWrite(sock[c]) ELSE sock[c]]
  /\ UNCHANGED <<unread, stalled, backlog, hasty, held, connfd, connected, sendLock,
                 sbuf, isStop>>

flush_clear ==
  /\ pc["comm"] = "clear"
  /\ sbuf' = Empty
  /\ sendLock' = "none"
  /\ Goto("comm", "top")
  /\ UNCHANGED <<netVars, srvVars, isStop>>

-----------------------------------------------------------------------------

Client ==
  \E c \in Conns :
    \/ Connect(c) \/ ClientClose(c) \/ ClientReset(c) \/ ClientStall(c)
    \/ \E what \in {"mode", "other"} : ClientSend(c, what)

CommStep ==
  \/ stlr_comm_send("comm") \/ wait_for_client \/ accept_client \/ comm_top
  \/ read_timeout \/ read_data \/ read_eof \/ read_error
  \/ flush_empty \/ flush_write \/ flush_clear

SensorStep == stlr_comm_send("sensor") \/ sensor_top \/ sensor_slept

Locking == flush_lock \/ \E t \in Threads : send_lock(t)

Next == Client \/ stlr_stop \/ CommStep \/ SensorStep \/ Locking \/ select_interrupted

\* The threads run, and a lock that is free again and again is acquired; clients
\* and signals owe nothing.
Fairness ==
  /\ WF_vars(CommStep)
  /\ WF_vars(SensorStep)
  /\ SF_vars(flush_lock)
  /\ \A t \in Threads : SF_vars(send_lock(t))

Spec == Init /\ [][Next]_vars

FairSpec == Spec /\ Fairness

-----------------------------------------------------------------------------

TypeOK ==
  /\ sock \in [Conns -> {"new", "open", "fin", "finrst", "rsterr", "rst"}]
  /\ unread \in [Conns -> {"none", "mode", "other"}]
  /\ stalled \subseteq Conns /\ hasty \subseteq Conns
  /\ backlog \in Seq(Conns)
  /\ listening \in BOOLEAN /\ connected \in BOOLEAN
  /\ held \in 0..MaxFds
  /\ connfd \in Conns \cup {"NoFd", "stdin"}
  /\ pc \in [Threads -> {"listen", "select", "top", "poll", "flush", "write", "clear",
                         "send", "sendlock", "sendcopy", "sendcopied", "sleep",
                         "exit", "dead"}]
  /\ sendLock \in Threads \cup {"none"}
  /\ sbuf \in [head : {"none", "ok", "telemetry"}, tail : {"none", "ok", "telemetry"},
               conn : Conns \cup {"NoFd", "stdin"}]
  /\ isStop \in BOOLEAN

\* What goes out is one whole message of one thread, never the torn mix of the
\* sensor thread's telemetry and the callback's "ok" that their race for sbuf
\* could leave there.
WholeWhenWritten ==
  pc["comm"] \in {"write", "clear"} => sbuf.head = sbuf.tail

\* An "ok" goes to the client whose mode switch it answers and never to the next
\* one, although sbuf outlives a connection: it is flushed in the iteration that
\* read the command.
AckGoesToItsClient ==
  pc["comm"] = "write" /\ sbuf.head = "ok" => sbuf.conn = connfd

\* SIGPIPE, which nobody handles, ends the process only if a client aborts its
\* connection, or closes it before everything it sent was read: one that waits for
\* its answers cannot do so, at whatever moment of the read, callback and flush
\* its close arrives.
PoliteClientsNeverKill ==
  killed => hasty # {} \/ \E c \in Conns : sock[c] = "rst"

\* The server is deaf, connected to a descriptor of -1, only if it never listened
\* or has no descriptor left.
DeafOnlyForAReason ==
  connected /\ connfd = "NoFd" => ~listening \/ held = MaxFds

\* The comm thread notices that its client is gone, whether it closed or aborted,
\* and goes back to waiting for the next one.
DepartureNoticed ==
  \A c \in Conns :
    (connfd = c /\ sock[c] \in {"fin", "finrst", "rsterr", "rst"}) ~>
      (pc["comm"] \in {"select", "exit"} \/ killed)

\* The sensor thread gets send_lock in the end, unless the client stops reading
\* and leaves the comm thread in tcp_write with the lock held.
SensorBlockedOnlyByStall ==
  pc["sensor"] = "sendlock" ~>
    \/ pc["sensor"] # "sendlock" \/ killed
    \/ pc["comm"] = "write" /\ connfd \in stalled

\* tcp_read_timeout's comment tells TIMEOUT_RET from "< 0: error", and comm_loop
\* leaves its loop on an error: nothing is written on a connection after a read
\* on it reported an error.
NoWriteAfterReadError ==
  connfd \in Conns /\ sock[connfd] = "rst" =>
    ~(pc["comm"] = "write" /\ sbuf.head # "none")

-----------------------------------------------------------------------------
(* What makes the four safety properties inductive.                        *)

\* Where a thread holds send_lock.
Holding(t) ==
  {"sendcopy", "sendcopied"} \cup (IF t = "comm" THEN {"write", "clear"} ELSE {})

\* send_lock is held where it should be, and never left locked.
LockInv ==
  \A t \in Threads :
    /\ pc[t] \in Holding(t) => sendLock = t
    /\ sendLock = t /\ ~killed => pc[t] \in Holding(t)

\* sbuf is torn only between the two halves of a copy.
BufInv ==
  /\ (\A t \in Threads : pc[t] # "sendcopied") => sbuf.head = sbuf.tail
  /\ \A t \in Threads : pc[t] = "sendcopied" => sbuf.head = Kind(t)

\* An "ok" stays in sbuf no longer than the iteration that put it there.
AckInv ==
  sbuf.head = "ok" =>
    /\ pc["comm"] \in {"sendcopied", "flush", "write", "clear", "dead"}
    /\ sbuf.conn = connfd

\* Where the comm thread has read something and not yet written.
Answering == {"send", "sendlock", "sendcopy", "sendcopied", "flush", "write"}

\* What a departed client left unread it left in haste; only then does the comm
\* thread come to a second write on its connection.
HastyInv ==
  /\ \A c \in Conns : sock[c] \in {"fin", "finrst"} /\ unread[c] # "none" => c \in hasty
  /\ connfd \in Conns /\ sock[connfd] = "finrst" /\ pc["comm"] \in Answering
       => connfd \in hasty

\* The descriptor that comm_top closes has been counted.
FdInv == connfd \in Conns /\ pc["comm"] # "exit" => held > 0

CommInv ==
  /\ TypeOK
  /\ LockInv /\ BufInv /\ AckInv /\ HastyInv /\ FdInv
  /\ PoliteClientsNeverKill /\ DeafOnlyForAReason

=============================================================================

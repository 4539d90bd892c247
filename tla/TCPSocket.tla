----------------------------- MODULE TCPSocket -----------------------------
(***************************************************************************)
(* Class TCPSocket under the two threads of a TCPSocketWorker: the reader  *)
(* calls read, the writer calls write, again and again until a call        *)
(* returns -1 or the worker is stopped; then the socket is destroyed.      *)
(* m_descr is a plain int and m_status an atomic, both written by either   *)
(* thread without a lock, so a call is cut at every access to them and at  *)
(* every system call.                                                      *)
(*                                                                         *)
(* The kernel: a descriptor number stands for this connection, for         *)
(* nothing, or, once it was closed, for something else the process has     *)
(* opened.  The bytes of datagram k are the pairs <<k, 1>> .. <<k, Size>>. *)
(***************************************************************************)
EXTENDS Integers, Sequences

CONSTANTS
  Descr,    (* the number of the descriptor                                *)
  Size,     (* bytes of a datagram                                         *)
  MaxDatagrams, (* bound: datagrams the worker has to write                *)
  MaxWire   (* bound: bytes the connection carries                         *)

ASSUME SocketAssumption ==
  /\ Descr \in Nat \ {0}
  /\ Size \in Nat \ {0}
  /\ MaxDatagrams \in Nat /\ MaxWire \in Nat

VARIABLES
  m_descr, m_status,
  pc,        (* where the two threads stand in their calls                 *)
  descr,     (* descr[t]: the value of m_descr thread t has tested         *)
  datagram,  (* the number of the datagram the writer writes               *)
  sent_size,
  destroyed,
  table,     (* kernel: what the number Descr stands for                   *)
  peer,      (* kernel: "up", "closed" or "reset"                          *)
  wire,      (* the bytes the connection has accepted                      *)
  connected, (* getpeername succeeded in the constructor                   *)
  failed,    (* some call has returned -1                                  *)
  late,      (* late[t]: the call t is in began after that                 *)
  misdirected (* of the calls that reached what the number stands for      *)
              (* by then: whether they were late                           *)

members == <<m_descr, m_status, destroyed>>
kernel == <<table, peer, wire, misdirected>>
calls == <<descr, datagram, sent_size, failed, late, connected>>
vars == <<members, pc, calls, kernel>>

Threads == {"reader", "writer"}
Failures == {"TCPSOCKET_CLOSED", "TCPSCOKET_CLOSED_BY_PEER", "TCPSOCKET_DESCRIPTOR_ERROR"}

Goto(t, l) == pc' = [pc EXCEPT ![t] = l]
At(t, l) == pc[t] = l

\* set_descriptor of the constructor: getpeername finds the peer or does not.
Init ==
  /\ connected \in BOOLEAN
  /\ m_descr = IF connected THEN Descr ELSE -1
  /\ m_status = IF connected THEN "TCPSOCKET_OK" ELSE "TCPSOCKET_DESCRIPTOR_ERROR"
  /\ destroyed = FALSE
  /\ pc = [t \in Threads |-> "idle"]
  /\ descr = [t \in Threads |-> -1]
  /\ datagram = 1 /\ sent_size = 0
  /\ failed = FALSE /\ late = [t \in Threads |-> FALSE]
  /\ table = "ours" /\ peer = "up" /\ wire = <<>>
  /\ misdirected = {}

(***************************************************************************)
(* The thread calls read or write, or leaves its loop.                     *)
(***************************************************************************)
Call(t) ==
  /\ At(t, "idle")
  /\ t = "writer" => datagram <= MaxDatagrams
  /\ Goto(t, "test")
  /\ late' = [late EXCEPT ![t] = failed]
  /\ UNCHANGED <<members, descr, datagram, sent_size, failed, connected, kernel>>

Leave(t) ==
  /\ At(t, "idle")
  /\ Goto(t, "done")
  /\ UNCHANGED <<members, calls, kernel>>

\* return -1, after which the worker's thread ends.
Fail(t) ==
  /\ At(t, "fail")
  /\ failed' = TRUE
  /\ Goto(t, "done")
  /\ UNCHANGED <<members, descr, datagram, sent_size, late, connected, kernel>>

(***************************************************************************)
(* The start of either call: m_status, reset_status() and m_descr.         *)
(***************************************************************************)
TestStatus(t) ==
  /\ At(t, "test")
  /\ Goto(t, IF m_status = "TCPSOCKET_OK" THEN "reset" ELSE "fail")
  /\ UNCHANGED <<members, calls, kernel>>

ResetStatus(t) ==
  /\ At(t, "reset")
  /\ m_status' = "TCPSOCKET_OK"
  /\ sent_size' = IF t = "writer" THEN 0 ELSE sent_size
  /\ Goto(t, "load")
  /\ UNCHANGED <<m_descr, destroyed, descr, datagram, failed, late, connected, kernel>>

LoadDescr(t) ==
  /\ At(t, "load")
  /\ descr' = [descr EXCEPT ![t] = m_descr]
  /\ Goto(t, IF m_descr > 0 THEN "io" ELSE "TCPSOCKET_DESCRIPTOR_ERROR")
  /\ UNCHANGED <<members, datagram, sent_size, failed, late, connected, kernel>>

(***************************************************************************)
(* recv.  The compiler may pass the value it has tested or load m_descr    *)
(* again.  What the number stands for decides what can come back.          *)
(***************************************************************************)
Passed(t) == {descr[t], m_descr}

\* A system call on number d; reaching another connection is recorded.
Ours(d) == d = Descr /\ table = "ours"
Foreign(d) == d = Descr /\ table = "other"
Record(t, d) == misdirected' = IF Foreign(d) THEN misdirected \cup {late[t]} ELSE misdirected

\* Data, or nothing before the receive timeout.
RecvReturns ==
  /\ At("reader", "io")
  /\ \E d \in Passed("reader") :
       /\ Ours(d) \/ Foreign(d)
       /\ Record("reader", d)
  /\ Goto("reader", "return")
  /\ UNCHANGED <<members, calls, table, peer, wire>>

RecvClosed ==
  /\ At("reader", "io")
  /\ \E d \in Passed("reader") :
       /\ (Ours(d) /\ peer = "closed") \/ Foreign(d)
       /\ Record("reader", d)
  /\ Goto("reader", "TCPSCOKET_CLOSED_BY_PEER")
  /\ UNCHANGED <<members, calls, table, peer, wire>>

RecvError ==
  /\ At("reader", "io")
  /\ \E d \in Passed("reader") :
       /\ Ours(d) => peer = "reset"
       /\ Record("reader", d)
  /\ Goto("reader", "TCPSOCKET_CLOSED")
  /\ UNCHANGED <<members, calls, table, peer, wire>>

(***************************************************************************)
(* The send loop.  EAGAIN ends the call with 0, however much was sent.     *)
(***************************************************************************)
Bytes(n) == [i \in 1 .. n |-> <<datagram, sent_size + i>>]

\* Mutant: a send after a partial one offers the whole size again.
SendPastEnd ==
  /\ At("writer", "io")
  /\ \E d \in Passed("writer"), n \in 1 .. Size :
       /\ (Ours(d) /\ peer # "reset") \/ Foreign(d)
       /\ Len(wire) + n <= MaxWire
       /\ wire' = IF Ours(d) THEN wire \o Bytes(n) ELSE wire
       /\ Record("writer", d)
       /\ sent_size' = sent_size + n
  /\ descr' = [descr EXCEPT !["writer"] = m_descr]
  /\ Goto("writer", IF sent_size' < Size THEN "io" ELSE "return")
  /\ UNCHANGED <<members, datagram, failed, late, connected, table, peer>>

SendSome ==
  /\ At("writer", "io")
  /\ \E d \in Passed("writer"), n \in 1 .. Size - sent_size :
       /\ (Ours(d) /\ peer # "reset") \/ Foreign(d)
       /\ Len(wire) + n <= MaxWire
       /\ wire' = IF Ours(d) THEN wire \o Bytes(n) ELSE wire
       /\ Record("writer", d)
       /\ sent_size' = sent_size + n
  /\ descr' = [descr EXCEPT !["writer"] = m_descr]
  /\ Goto("writer", IF sent_size' < Size THEN "io" ELSE "return")
  /\ UNCHANGED <<members, datagram, failed, late, connected, table, peer>>

\* Mutant: what was sent is returned, and the worker takes the next datagram.
SendWouldBlockCounts ==
  /\ At("writer", "io")
  /\ \E d \in Passed("writer") :
       /\ Ours(d) \/ Foreign(d)
       /\ Record("writer", d)
  /\ Goto("writer", IF sent_size > 0 THEN "return" ELSE "return_zero")
  /\ UNCHANGED <<members, calls, table, peer, wire>>

SendWouldBlock ==
  /\ At("writer", "io")
  /\ \E d \in Passed("writer") :
       /\ Ours(d) \/ Foreign(d)
       /\ Record("writer", d)
  /\ Goto("writer", "return_zero")
  /\ UNCHANGED <<members, calls, table, peer, wire>>

\* The peer has gone; or EINTR, which read() takes for nothing and write()
\* for an error.
SendError ==
  /\ At("writer", "io")
  /\ \E d \in Passed("writer") : Record("writer", d)
  /\ Goto("writer", "TCPSOCKET_CLOSED")
  /\ UNCHANGED <<members, calls, table, peer, wire>>

(***************************************************************************)
(* The call returns 0 or more.  The worker writes a datagram again after 0 *)
(* and takes the next one otherwise.                                       *)
(***************************************************************************)
Return(t) ==
  /\ pc[t] \in {"return", "return_zero"}
  /\ datagram' = IF t = "writer" /\ At(t, "return") THEN datagram + 1 ELSE datagram
  /\ Goto(t, "idle")
  /\ UNCHANGED <<members, descr, sent_size, failed, late, connected, kernel>>

(***************************************************************************)
(* After an error: m_status, and close_descriptor() unless there was no    *)
(* descriptor.                                                             *)
(***************************************************************************)
SetFailure(t) ==
  /\ pc[t] \in Failures
  /\ m_status' = pc[t]
  /\ Goto(t, IF At(t, "TCPSOCKET_DESCRIPTOR_ERROR") THEN "fail" ELSE "close_reset")
  /\ UNCHANGED <<m_descr, destroyed, calls, kernel>>

CloseReset(t) ==
  /\ At(t, "close_reset")
  /\ m_status' = "TCPSOCKET_OK"
  /\ Goto(t, "close_load")
  /\ UNCHANGED <<m_descr, destroyed, calls, kernel>>

\* Mutant: the descriptor is forgotten first and closed then.
CloseLoadForgets(t) ==
  /\ At(t, "close_load")
  /\ descr' = [descr EXCEPT ![t] = m_descr]
  /\ m_descr' = -1
  /\ Goto(t, IF m_descr > 0 THEN "close" ELSE "close_status")
  /\ UNCHANGED <<m_status, destroyed, datagram, sent_size, failed, late, connected, kernel>>

CloseLoad(t) ==
  /\ At(t, "close_load")
  /\ descr' = [descr EXCEPT ![t] = m_descr]
  /\ Goto(t, IF m_descr > 0 THEN "close" ELSE "close_status")
  /\ UNCHANGED <<members, datagram, sent_size, failed, late, connected, kernel>>

Close(t) ==
  /\ At(t, "close")
  /\ \E d \in Passed(t) :
       /\ table' = IF d = Descr THEN "free" ELSE table
       /\ Record(t, d)
  /\ Goto(t, "close_clear")
  /\ UNCHANGED <<members, calls, peer, wire>>

\* Mutant: the descriptor is closed and not forgotten.
CloseKeeps(t) ==
  /\ At(t, "close_clear")
  /\ Goto(t, "close_status")
  /\ UNCHANGED <<members, calls, kernel>>

CloseClear(t) ==
  /\ At(t, "close_clear")
  /\ m_descr' = -1
  /\ Goto(t, "close_status")
  /\ UNCHANGED <<m_status, destroyed, calls, kernel>>

\* Mutant: m_status was set before.
CloseStatusKept(t) ==
  /\ At(t, "close_status")
  /\ Goto(t, "fail")
  /\ UNCHANGED <<members, calls, kernel>>

CloseStatus(t) ==
  /\ At(t, "close_status")
  /\ m_status' = "TCPSOCKET_CLOSED"
  /\ Goto(t, "fail")
  /\ UNCHANGED <<m_descr, destroyed, calls, kernel>>

\* The destructor, when the worker has joined its threads.
Destroy ==
  /\ \A t \in Threads : At(t, "done")
  /\ ~destroyed
  /\ destroyed' = TRUE
  /\ IF m_descr > 0
     THEN table' = "free" /\ m_descr' = -1
     ELSE UNCHANGED <<table, m_descr>>
  /\ m_status' = "TCPSOCKET_CLOSED"
  /\ UNCHANGED <<pc, calls, peer, wire, misdirected>>

(***************************************************************************)
(* Outside: the peer closes or resets the connection, and the process      *)
(* opens something else, such as the next client's connection.             *)
(***************************************************************************)
PeerGoes ==
  /\ peer = "up"
  /\ peer' \in {"closed", "reset"}
  /\ UNCHANGED <<members, pc, calls, table, wire, misdirected>>

Reuse ==
  /\ table = "free"
  /\ table' = "other"
  /\ UNCHANGED <<members, pc, calls, peer, wire, misdirected>>

Begin(t) == Call(t) \/ Leave(t) \/ TestStatus(t) \/ ResetStatus(t) \/ LoadDescr(t)
Recv == RecvReturns \/ RecvClosed \/ RecvError
Send == SendSome \/ SendWouldBlock \/ SendError
CloseDescriptor(t) ==
  CloseReset(t) \/ CloseLoad(t) \/ Close(t) \/ CloseClear(t) \/ CloseStatus(t)

Next ==
  \/ \E t \in Threads :
       Begin(t) \/ Return(t) \/ SetFailure(t) \/ CloseDescriptor(t) \/ Fail(t)
  \/ Recv \/ Send
  \/ Destroy \/ PeerGoes \/ Reuse

Spec == Init /\ [][Next]_vars

-----------------------------------------------------------------------------
Labels == Failures \cup
  {"idle", "test", "reset", "load", "io", "return", "return_zero", "close_reset",
   "close_load", "close", "close_clear", "close_status", "fail", "done"}

TypeOK ==
  /\ m_descr \in {Descr, -1} /\ descr \in [Threads -> {Descr, -1}]
  /\ m_status \in Failures \cup {"TCPSOCKET_OK"}
  /\ pc \in [Threads -> Labels]
  /\ datagram \in Nat \ {0} /\ sent_size \in 0 .. Size
  /\ {destroyed, connected, failed} \cup misdirected \subseteq BOOLEAN
  /\ late \in [Threads -> BOOLEAN]
  /\ table \in {"ours", "free", "other"} /\ peer \in {"up", "closed", "reset"}
  /\ wire \in Seq((Nat \ {0}) \X (1 .. Size))

(***************************************************************************)
(* The socket fails for both threads: a call begun after one has returned  *)
(* -1 returns -1 itself, though the other thread may at any moment reset   *)
(* m_status to OK on its way into a call or into close_descriptor().       *)
(***************************************************************************)
FailStop == \A t \in Threads : pc[t] \in {"return", "return_zero"} => ~late[t]

(***************************************************************************)
(* status() tells of it: between calls a socket that has failed is not OK. *)
(***************************************************************************)
Quiet == \A t \in Threads : pc[t] \in {"idle", "done"}
FailureSticks == Quiet /\ failed => m_status # "TCPSOCKET_OK"

(***************************************************************************)
(* The peer gets every datagram whole and in order, the only repetitions   *)
(* being the parts of a datagram that were sent before a call returned 0;  *)
(* a datagram begins only after the last byte of the one before it.  This  *)
(* fails of course when bytes went to a foreign connection.                *)
(***************************************************************************)
Follows(b, a) == \* byte a may stand right before byte b
  IF b[2] > 1 THEN a = <<b[1], b[2] - 1>>
  ELSE a[1] = b[1] \/ a = <<b[1] - 1, Size>>

WholeInOrder ==
  misdirected # {} \/ \A j \in 2 .. Len(wire) : Follows(wire[j], wire[j - 1])

(***************************************************************************)
(* The destroyed socket has given its descriptor back, whichever of the    *)
(* threads, or the destructor, got to close it.                            *)
(***************************************************************************)
NoLeak == destroyed /\ connected => table # "ours"

(***************************************************************************)
(* Both threads may fail at once and close the descriptor twice, and a     *)
(* call in progress may then read, write or close what the process has     *)
(* opened under the same number.  But no other call may: one begun after a *)
(* failure was returned reaches no descriptor at all.                      *)
(***************************************************************************)
OnlyRacingCallsStray == TRUE \notin misdirected
=============================================================================

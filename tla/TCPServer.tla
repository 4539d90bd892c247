----------------------------- MODULE TCPServer -----------------------------
(***************************************************************************)
(* Class TCPServer: an owner starts, stops and destroys it; a detached     *)
(* accept thread takes the connections of clients from the listening       *)
(* socket and hands them to the accepted callback.  The listen type        *)
(* decides the thread: epoll without a timeout (blocked), epoll with one   *)
(* (timed), or a non-blocking accept in a loop (unblocked).                *)
(*                                                                         *)
(* The owner calls start() on a server that is not running: a first time,  *)
(* again after a start that failed, or again when the accept thread a      *)
(* stop() was meant for has ended.  The two flags are atomic;              *)
(* m_master_socket is a plain int the destructor changes while the accept  *)
(* thread reads it.                                                        *)
(***************************************************************************)
EXTENDS Naturals, Sequences, SequencesExt

CONSTANTS
  ListenTypes, (* the listen types start() is called with                  *)
  Clients,     (* each connects once                                       *)
  MaxFailures, (* bound: starts that fail                                  *)
  NoSocket     (* -1 for a descriptor                                      *)

AllListenTypes == {"TCPSERVER_BLOCKED", "TCPSERVER_UNBLOCKED", "TCPSERVER_TIMED"}

ASSUME ServerAssumption ==
  /\ ListenTypes \subseteq AllListenTypes
  /\ MaxFailures \in Nat
  /\ NoSocket \notin Clients

VARIABLES
  m_master_socket,         (* whether it holds a descriptor                *)
  m_status,
  m_atomic_server_enable,
  m_atomic_server_finished,
  listen_type,
  owner,      (* "ready", the steps of the destructor, "destroyed"         *)
  failures,   (* starts that have failed                                   *)
  accepter,   (* where the accept thread stands                            *)
  event,      (* epoll_wait has reported the listening socket              *)
  registered, (* the listening socket is in the epoll set                  *)
  slave,      (* slave_socket                                              *)
  errno,      (* of the accept thread: "EAGAIN", "EBADF", "other"          *)
  listener,   (* kernel: the master socket is "closed", "created" or       *)
              (* "listening"                                               *)
  backlog,    (* kernel: connections waiting to be accepted                *)
  arrived,    (* every connection made, in order                           *)
  discarded,  (* those that waited at a socket when it was closed          *)
  accepted    (* what the callback was given                               *)

flags == <<m_atomic_server_enable, m_atomic_server_finished>>
local == <<event, registered, slave, errno>>
kernel == <<listener, backlog, arrived, discarded>>
vars == <<m_master_socket, m_status, flags, listen_type, owner, failures,
          accepter, local, kernel, accepted>>

Init ==
  /\ m_master_socket = FALSE
  /\ m_status = "TCPSERVER_OK"
  /\ m_atomic_server_enable = TRUE
  /\ m_atomic_server_finished = TRUE
  /\ listen_type \in ListenTypes
  /\ owner = "ready" /\ failures = 0
  /\ accepter = "none"
  /\ event = FALSE /\ registered = FALSE /\ slave = NoSocket /\ errno = "other"
  /\ listener = "closed" /\ backlog = <<>> /\ arrived = <<>> /\ discarded = {}
  /\ accepted = <<>>

\* Closing the listening socket discards what waits there.
Discard ==
  /\ backlog' = <<>>
  /\ discarded' = discarded \cup ToSet(backlog)

(***************************************************************************)
(* start().  No accept thread runs before its last step.  The master       *)
(* socket of an earlier start is closed first; setsockopt is the one       *)
(* failure that leaves the new one open.                                   *)
(***************************************************************************)
MayStart == owner = "ready" /\ accepter \in {"none", "done"}

StartFailing ==
  /\ MayStart
  /\ failures < MaxFailures
  /\ failures' = failures + 1
  /\ m_status' \in {"TCPSERVER_SOCKET_ERROR", "TCPSERVER_SETSOCKOPT_ERROR",
                    "TCPSERVER_BIND_ERROR", "TCPSERVER_LISTEN_ERROR"}
  /\ listener' = IF m_status' = "TCPSERVER_SETSOCKOPT_ERROR" THEN "created" ELSE "closed"
  /\ Discard
  /\ UNCHANGED <<listen_type, owner, accepter, local, arrived, accepted>>

\* Mutant: the flags stay as they were set before start_listen.
StartFailsSilently ==
  /\ StartFailing
  /\ m_master_socket' = (m_status' = "TCPSERVER_SETSOCKOPT_ERROR")
  /\ m_atomic_server_finished' = FALSE
  /\ m_atomic_server_enable' = TRUE

\* Mutant: the socket setsockopt failed on is forgotten and stays open.
StartFailsForgets ==
  /\ StartFailing
  /\ m_master_socket' = FALSE
  /\ m_atomic_server_finished' = TRUE
  /\ m_atomic_server_enable' = FALSE

StartFails ==
  /\ StartFailing
  /\ m_master_socket' = (m_status' = "TCPSERVER_SETSOCKOPT_ERROR")
  /\ m_atomic_server_finished' = TRUE
  /\ m_atomic_server_enable' = FALSE

StartSucceeds ==
  /\ MayStart
  /\ m_atomic_server_enable' = TRUE
  /\ m_atomic_server_finished' = FALSE
  /\ m_status' = "TCPSERVER_OK"
  /\ m_master_socket' = TRUE
  /\ listener' = "listening"
  /\ Discard
  /\ accepter' = "enter"
  /\ event' = FALSE /\ registered' = FALSE /\ slave' = NoSocket /\ errno' = "other"
  /\ UNCHANGED <<listen_type, owner, failures, arrived, accepted>>

Stop ==
  /\ owner = "ready"
  /\ m_atomic_server_enable
  /\ m_atomic_server_enable' = FALSE
  /\ UNCHANGED <<m_master_socket, m_status, m_atomic_server_finished, listen_type,
                 owner, failures, accepter, local, kernel, accepted>>

(***************************************************************************)
(* The destructor.                                                         *)
(***************************************************************************)
DestroyDisable ==
  /\ owner = "ready"
  /\ m_atomic_server_enable' = FALSE
  /\ owner' = "close"
  /\ UNCHANGED <<m_master_socket, m_status, m_atomic_server_finished, listen_type,
                 failures, accepter, local, kernel, accepted>>

DestroyClose ==
  /\ owner = "close"
  /\ IF m_master_socket
     THEN listener' = "closed" /\ Discard
     ELSE UNCHANGED <<listener, backlog, discarded>>
  /\ owner' = "clear"
  /\ UNCHANGED <<m_master_socket, m_status, flags, listen_type, failures,
                 accepter, local, arrived, accepted>>

DestroyClear ==
  /\ owner = "clear"
  /\ m_master_socket' = FALSE
  /\ owner' = "wait"
  /\ UNCHANGED <<m_status, flags, listen_type, failures, accepter, local,
                 kernel, accepted>>

\* Mutant: the destructor does not wait.
DestroyAtOnce ==
  /\ owner = "wait"
  /\ owner' = "destroyed"
  /\ UNCHANGED <<m_master_socket, m_status, flags, listen_type, failures,
                 accepter, local, kernel, accepted>>

DestroyWait ==
  /\ owner = "wait"
  /\ m_atomic_server_finished
  /\ owner' = "destroyed"
  /\ UNCHANGED <<m_master_socket, m_status, flags, listen_type, failures,
                 accepter, local, kernel, accepted>>

(***************************************************************************)
(* The accept thread, common part: entering the loop, its condition, and   *)
(* its end.                                                                *)
(***************************************************************************)
Unblocked == listen_type = "TCPSERVER_UNBLOCKED"

\* What the accept thread never changes.
OthersUnchanged == UNCHANGED <<m_master_socket, listen_type, owner, failures>>

\* epoll_create1 and epoll_ctl, or set_non_block.
Enter ==
  /\ accepter = "enter"
  /\ registered' = (~Unblocked /\ m_master_socket /\ listener = "listening")
  /\ accepter' = "test"
  /\ UNCHANGED <<m_status, flags, event, slave, errno, kernel, accepted>>
  /\ OthersUnchanged

Test ==
  /\ accepter = "test"
  /\ accepter' = IF ~m_atomic_server_enable THEN "finish"
                 ELSE IF Unblocked THEN "load" ELSE "wait"
  /\ UNCHANGED <<m_status, flags, local, kernel, accepted>>
  /\ OthersUnchanged

Finish ==
  /\ accepter = "finish"
  /\ m_atomic_server_finished' = TRUE
  /\ accepter' = "done"
  /\ UNCHANGED <<m_status, m_atomic_server_enable, local, kernel, accepted>>
  /\ OthersUnchanged

(***************************************************************************)
(* epoll_loop.  A closed socket is in no epoll set any more.               *)
(***************************************************************************)
EpollReady == registered /\ listener = "listening" /\ backlog # <<>>

EpollEvent ==
  /\ accepter = "wait"
  /\ EpollReady
  /\ event' = TRUE
  /\ accepter' = "check"
  /\ UNCHANGED <<m_status, flags, registered, slave, errno, kernel, accepted>>
  /\ OthersUnchanged

\* Mutant: every type waits without a timeout.
EpollNoTimeout == FALSE

EpollTimes == listen_type = "TCPSERVER_TIMED"

EpollTimeout ==
  /\ accepter = "wait"
  /\ EpollTimes
  /\ ~EpollReady
  /\ event' = FALSE
  /\ accepter' = "check"
  /\ UNCHANGED <<m_status, flags, registered, slave, errno, kernel, accepted>>
  /\ OthersUnchanged

Check ==
  /\ accepter = "check"
  /\ accepter' = IF ~m_atomic_server_enable THEN "finish"
                 ELSE IF event THEN "load" ELSE "test"
  /\ UNCHANGED <<m_status, flags, local, kernel, accepted>>
  /\ OthersUnchanged

(***************************************************************************)
(* accept on the master socket.  Without one an event is not the master    *)
(* socket's, and the unblocked loop goes round again.  A socket closed     *)
(* after m_master_socket was loaded gives EBADF; accept sets errno when it *)
(* fails and only then.                                                    *)
(***************************************************************************)
Load ==
  /\ accepter = "load"
  /\ accepter' = IF m_master_socket THEN "accept" ELSE "test"
  /\ UNCHANGED <<m_status, flags, local, kernel, accepted>>
  /\ OthersUnchanged

Accept ==
  /\ accepter = "accept"
  /\ IF listener = "listening" /\ backlog # <<>>
     THEN /\ slave' = Head(backlog)
          /\ backlog' = Tail(backlog)
          /\ UNCHANGED errno
     ELSE /\ listener = "listening" => Unblocked \* another accept would block
          /\ slave' = NoSocket
          /\ errno' = IF listener = "listening" THEN "EAGAIN" ELSE "EBADF"
          /\ UNCHANGED backlog
  /\ accepter' = IF Unblocked THEN "errno" ELSE "call"
  /\ UNCHANGED <<m_status, flags, event, registered, listener, arrived, discarded, accepted>>
  /\ OthersUnchanged

\* The unblocked loop looks at errno first, whatever accept returned.
TestErrno ==
  /\ accepter = "errno"
  /\ accepter' = IF errno = "EAGAIN" THEN "test"
                 ELSE IF slave = NoSocket THEN "finish" ELSE "call"
  /\ UNCHANGED <<m_status, flags, local, kernel, accepted>>
  /\ OthersUnchanged

(***************************************************************************)
(* call_accepted_callback_function: the socket flags, which may fail, and  *)
(* the callback, after which errno is anything.                            *)
(***************************************************************************)
\* Mutant: a socket whose flags cannot be set is not handed over.
CallAcceptedDrops ==
  /\ accepter = "call"
  /\ IF slave = NoSocket
     THEN UNCHANGED <<m_status, accepted, errno>>
     ELSE /\ m_status' \in {m_status, "TCPSERVER_SETSOCKOPT_ERROR"}
          /\ accepted' = IF m_status' = m_status THEN Append(accepted, slave) ELSE accepted
          /\ errno' \in {"EAGAIN", "other"}
  /\ slave' = NoSocket
  /\ accepter' = "test"
  /\ UNCHANGED <<flags, event, registered, kernel>>
  /\ OthersUnchanged

\* Mutant: a turn without a connection hands over the last one again.
CallAcceptedAgain ==
  /\ accepter = "call"
  /\ slave # NoSocket
  /\ accepted' = Append(accepted, slave)
  /\ accepter' \in {"call", "test"}
  /\ UNCHANGED <<m_status, flags, local, kernel>>
  /\ OthersUnchanged

CallAccepted ==
  /\ accepter = "call"
  /\ IF slave = NoSocket
     THEN UNCHANGED <<m_status, accepted, errno>>
     ELSE /\ m_status' \in {m_status, "TCPSERVER_SETSOCKOPT_ERROR"}
          /\ accepted' = Append(accepted, slave)
          /\ errno' \in {"EAGAIN", "other"}
  /\ slave' = NoSocket
  /\ accepter' = "test"
  /\ UNCHANGED <<flags, event, registered, kernel>>
  /\ OthersUnchanged

\* Client c connects.
Connects(c) ==
  /\ listener = "listening"
  /\ c \notin ToSet(arrived)
  /\ arrived' = Append(arrived, c)
  /\ backlog' = Append(backlog, c)
  /\ UNCHANGED <<m_master_socket, m_status, flags, listen_type, owner, failures,
                 accepter, local, listener, discarded, accepted>>

Connect == \E c \in Clients : Connects(c)

Start == StartFails \/ StartSucceeds
Destructor == DestroyClose \/ DestroyClear \/ DestroyWait
Accepter ==
  \/ Enter \/ Test \/ EpollEvent \/ EpollTimeout \/ Check
  \/ Load \/ Accept \/ TestErrno \/ CallAccepted \/ Finish

\* What the owner and the accept thread do.
ServerNext == Start \/ Stop \/ DestroyDisable \/ Destructor \/ Accepter

Next == ServerNext \/ Connect

(***************************************************************************)
(* The scheduler runs the accept thread, whose epoll_wait sees an event    *)
(* that is there, whose timeouts expire and whose callback returns; and a  *)
(* destructor goes on.  Nobody need start, stop, destroy or connect.       *)
(***************************************************************************)
Fairness == WF_vars(Accepter) /\ WF_vars(Destructor)

Spec == Init /\ [][Next]_vars /\ Fairness

-----------------------------------------------------------------------------
Errors == {"TCPSERVER_SOCKET_ERROR", "TCPSERVER_SETSOCKOPT_ERROR",
           "TCPSERVER_BIND_ERROR", "TCPSERVER_LISTEN_ERROR"}

(***************************************************************************)
(* Type correctness.  A connection waits only at a listening socket, and a *)
(* socket is open only while m_master_socket tells so.                     *)
(***************************************************************************)
TypeOK ==
  /\ {m_master_socket, event, registered} \cup {m_atomic_server_enable,
      m_atomic_server_finished} \subseteq BOOLEAN
  /\ m_status \in Errors \cup {"TCPSERVER_OK"}
  /\ listen_type \in ListenTypes
  /\ owner \in {"ready", "close", "clear", "wait", "destroyed"}
  /\ failures \in 0 .. MaxFailures
  /\ accepter \in {"none", "enter", "test", "wait", "check", "load", "accept",
                   "errno", "call", "finish", "done"}
  /\ slave \in Clients \cup {NoSocket}
  /\ errno \in {"EAGAIN", "EBADF", "other"}
  /\ listener \in {"closed", "created", "listening"}
  /\ {backlog, arrived, accepted} \subseteq Seq(Clients) /\ discarded \subseteq Clients
  /\ backlog # <<>> => listener = "listening"
  /\ listener # "closed" => m_master_socket

(***************************************************************************)
(* The accept thread is detached and uses the server to its last step: the *)
(* destructor must not return before, though it closes the socket under    *)
(* the thread's hands and start() may have failed without a thread.        *)
(***************************************************************************)
NoUseAfterDestroy ==
  owner = "destroyed" => accepter \in {"none", "done"} /\ listener = "closed"

(***************************************************************************)
(* With epoll no connection is lost, handed over twice or out of turn,     *)
(* over any number of stops and restarts: what came, without what waited   *)
(* at a socket that was closed, is what the callback got, what is in the   *)
(* thread's hands and what waits, in the order it came.  (No client comes  *)
(* twice, so none is before itself.)                                       *)
(***************************************************************************)
InHand == IF slave = NoSocket THEN <<>> ELSE <<slave>>
Chain == accepted \o InHand \o backlog

Before(s, c, d) == \E k, l \in DOMAIN s : k < l /\ s[k] = c /\ s[l] = d

HandedInOrder == ~Unblocked =>
  /\ ToSet(Chain) = ToSet(arrived) \ discarded
  /\ \A c, d \in Clients : Before(Chain, c, d) => Before(arrived, c, d)

(***************************************************************************)
(* With epoll a connection reaches the callback while the server runs.     *)
(***************************************************************************)
Waits(c) == c \in ToSet(backlog)
Handed(c) == c \in ToSet(accepted)
Running == m_atomic_server_enable /\ accepter # "none"

Served(c) == Running /\ Waits(c) ~> Handed(c) \/ ~m_atomic_server_enable

ConnectionsServed == listen_type # "TCPSERVER_UNBLOCKED" => \A c \in Clients : Served(c)

(***************************************************************************)
(* stop() ends the accept thread; the blocked one, as TCPServer.h:79 warns *)
(* of it, only with the next connection, and before the destructor has     *)
(* closed the socket it comes by.                                          *)
(***************************************************************************)
StopEnds ==
  (/\ ~m_atomic_server_enable
   /\ listen_type = "TCPSERVER_BLOCKED" => EpollReady)
  ~> m_atomic_server_finished \/ (listen_type = "TCPSERVER_BLOCKED" /\ owner # "ready")

(***************************************************************************)
(* The destructor returns, whenever it comes: before the first start,      *)
(* after one that failed, or with the accept thread at any step.  (Not     *)
(* with the blocked one, which then waits for ever.)                       *)
(***************************************************************************)
DestroyCompletes ==
  owner = "close" /\ listen_type # "TCPSERVER_BLOCKED" ~> owner = "destroyed"

(***************************************************************************)
(* "start accept thread" (TCPServer.cpp:88): the thread hands over the     *)
(* connections it accepts, whatever the listen type.                       *)
(***************************************************************************)
EveryConnectionServed == \A c \in Clients : Served(c)
=============================================================================

----------------------------- MODULE TCPClient -----------------------------
(***************************************************************************)
(* Class TCPClient against a TCPServer: one thread calls connect() again   *)
(* and again on one client, while the owner of the server starts, stops    *)
(* and destroys it and other programs connect.  connect() runs to its      *)
(* callback in a straight line; only its ::connect meets the server.       *)
(*                                                                         *)
(* The k-th call makes connection k, so Clients are numbers here; those    *)
(* above MaxCalls are of other programs.                                   *)
(***************************************************************************)
EXTENDS TCPServer

CONSTANT MaxCalls (* bound: calls of connect()                             *)

ASSUME ClientAssumption == MaxCalls \in Nat /\ 1 .. MaxCalls \subseteq Clients

VARIABLES
  client_step,   (* "idle", or the next step of connect()                  *)
  client_status, (* m_status of the client                                 *)
  calls,         (* calls of connect() so far                              *)
  connected      (* connections the callback was given                     *)

clientVars == <<client_step, client_status, calls, connected>>

ClientInit ==
  /\ client_step = "idle" /\ client_status = "TCPCLIENT_OK"
  /\ calls = 0 /\ connected = {}

(***************************************************************************)
(* connect() up to ::connect: reset_status, socket, which may fail, and    *)
(* the address, which may not parse.                                       *)
(***************************************************************************)
Called ==
  /\ client_step = "idle"
  /\ calls < MaxCalls
  /\ calls' = calls + 1
  /\ UNCHANGED <<connected, vars>>

\* Mutant: the status of the last call is not reset.
CallWithoutReset ==
  /\ Called
  /\ \/ /\ client_step' = "idle"
        /\ client_status' \in {"TCPCLIENT_SOCKET_CONNECT_ERROR", "TCPCLIENT_SOCKET_ERROR"}
     \/ client_step' = "connect" /\ UNCHANGED client_status

ClientCall ==
  /\ Called
  /\ \/ /\ client_step' = "idle"
        /\ client_status' \in {"TCPCLIENT_SOCKET_CONNECT_ERROR", "TCPCLIENT_SOCKET_ERROR"}
     \/ client_step' = "connect" /\ client_status' = "TCPCLIENT_OK"

(***************************************************************************)
(* ::connect: it succeeds at a listening socket, and may fail anywhere.    *)
(***************************************************************************)
\* Mutant: the callback is called whatever ::connect returned.
ConnectUntested ==
  /\ client_step = "connect"
  /\ client_step' = "call"
  /\ \/ Connects(calls) /\ UNCHANGED client_status
     \/ client_status' = "TCPCLIENT_SOCKET_ERROR" /\ UNCHANGED vars
  /\ UNCHANGED <<calls, connected>>

ClientConnect ==
  /\ client_step = "connect"
  /\ \/ Connects(calls) /\ client_step' = "call" /\ UNCHANGED client_status
     \/ /\ client_step' = "idle" /\ client_status' = "TCPCLIENT_SOCKET_ERROR"
        /\ UNCHANGED vars
  /\ UNCHANGED <<calls, connected>>

(***************************************************************************)
(* call_connect_callback_function: nothing for a descriptor 0, which a     *)
(* process gets that has closed its standard input; otherwise the flags,   *)
(* which may fail, and the callback with the socket all the same.          *)
(***************************************************************************)
ClientCallback ==
  /\ client_step = "call"
  /\ client_step' = "idle"
  /\ \/ UNCHANGED <<client_status, connected>>
     \/ /\ client_status' \in {client_status, "TCPCLIENT_SETSOCKOPT_ERROR"}
        /\ connected' = connected \cup {calls}
  /\ UNCHANGED <<calls, vars>>

NetworkInit == Init /\ ClientInit

OthersConnect == \E c \in Clients \ 1 .. MaxCalls : Connects(c)

NetworkNext ==
  \/ (ServerNext \/ OthersConnect) /\ UNCHANGED clientVars
  \/ ClientCall \/ ClientConnect \/ ClientCallback

\* The server's fairness only: nothing here waits for the client.
NetworkSpec ==
  NetworkInit /\ [][NetworkNext]_<<vars, clientVars>> /\ Fairness

-----------------------------------------------------------------------------
(***************************************************************************)
(* When connect() returns, its status tells whether the connection was     *)
(* made: whatever the calls before met, and though the flags may fail      *)
(* behind it and nobody may be given the socket.                           *)
(***************************************************************************)
StatusTellsTruth ==
  client_step = "idle" /\ calls > 0 =>
    (client_status \in {"TCPCLIENT_OK", "TCPCLIENT_SETSOCKOPT_ERROR"}
     <=> calls \in ToSet(arrived))

(***************************************************************************)
(* A connection given to the client's callback comes to the callback of an *)
(* epoll server too while the server runs, unless the socket it waited at  *)
(* was closed: neither end is called without the other.                    *)
(***************************************************************************)
BothEnds(c) ==
  c \in connected /\ c \notin discarded /\ Running
  ~> Handed(c) \/ c \in discarded \/ ~m_atomic_server_enable

BothEndsCalled ==
  listen_type # "TCPSERVER_UNBLOCKED" => \A c \in 1 .. MaxCalls : BothEnds(c)
=============================================================================

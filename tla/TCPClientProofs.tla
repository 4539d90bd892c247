-------------------------- MODULE TCPClientProofs --------------------------
(***************************************************************************)
(* Theorems about TCPClient, for every set of connections, every number of *)
(* calls and every life of the server: what the invariant of the server    *)
(* says holds with clients of its own too, and the client's status tells   *)
(* whether the connection was made.                                        *)
(***************************************************************************)
EXTENDS TCPClient, TCPServerProofs

(***************************************************************************)
(* The status alone is not inductive.  While a call stands at ::connect    *)
(* its connection has not arrived, since no later one has and nobody else  *)
(* makes it; while it stands at the callback it has.  The status is clear  *)
(* in both.                                                                *)
(***************************************************************************)
Made(k) == k \in ToSet(arrived)

CallInv ==
  /\ client_step \in {"idle", "connect", "call"}
  /\ calls \in 0 .. MaxCalls
  /\ client_step # "idle" => client_status = "TCPCLIENT_OK" /\ calls > 0
  /\ client_step = "connect" => ~Made(calls)
  /\ client_step = "call" => Made(calls)
  /\ client_step = "idle" /\ calls > 0 =>
       (client_status \in {"TCPCLIENT_OK", "TCPCLIENT_SETSOCKOPT_ERROR"} <=> Made(calls))
  /\ \A k \in 1 .. MaxCalls : Made(k) => k <= calls

NetworkInv == ServerInv /\ CallInv

\* Every connection made is in the history the server keeps, and stays there.
LEMMA ArrivedGrows ==
  ASSUME NEW c \in Clients, arrived \in Seq(Clients), Connects(c)
  PROVE  \A k : Made(k)' <=> Made(k) \/ k = c
<1>1. arrived' = Append(arrived, c)
  BY DEF Connects
<1>2. DOMAIN arrived = 1 .. Len(arrived) /\ DOMAIN arrived' = 1 .. Len(arrived) + 1
  BY <1>1
<1>3. \A i \in 1 .. Len(arrived) : arrived'[i] = arrived[i]
  BY <1>1
<1>4. arrived'[Len(arrived) + 1] = c
  BY <1>1
<1>5. Len(arrived) \in Nat
  OBVIOUS
<1>6. \A i \in 1 .. Len(arrived) + 1 : i \in 1 .. Len(arrived) \/ i = Len(arrived) + 1
  BY <1>5
<1>7. \A i \in 1 .. Len(arrived) : i \in 1 .. Len(arrived) + 1
  BY <1>5
<1>8. Len(arrived) + 1 \in 1 .. Len(arrived) + 1
  BY <1>5
<1>9. \A k : Made(k) <=> \E i \in 1 .. Len(arrived) : k = arrived[i]
  BY <1>2 DEF Made, ToSet
<1>10. \A k : Made(k)' <=> \E i \in 1 .. Len(arrived) + 1 : k = arrived'[i]
  BY <1>2 DEF Made, ToSet
<1> QED BY <1>3, <1>4, <1>6, <1>7, <1>8, <1>9, <1>10

\* Nothing has been called or made yet.
LEMMA NetworkInitInv ==
  ASSUME ServerAssumption, ClientAssumption, Init, ClientInit PROVE NetworkInv
<1>1. ServerInv
  BY InitServerInv
<1>2. \A k : ~Made(k)
  <2>1. arrived = <<>>
    BY DEF Init
  <2> QED BY <2>1 DEF Made, ToSet
<1>3. CallInv
  BY <1>2, ClientAssumption DEF ClientInit, CallInv, ClientAssumption
<1> QED BY <1>1, <1>3 DEF NetworkInv

\* The server and its owner make no connection.
LEMMA ServerMakesNone ==
  ASSUME ServerNext PROVE arrived' = arrived
<1>1. CASE Start
  BY <1>1 DEF Start, StartFails, StartFailing, StartSucceeds
<1>2. CASE Stop \/ DestroyDisable
  BY <1>2 DEF Stop, DestroyDisable, kernel
<1>3. CASE Destructor
  BY <1>3 DEF Destructor, DestroyClose, DestroyClear, DestroyWait, kernel
<1>4. CASE Accepter
  BY <1>4 DEF Accepter, Enter, Test, EpollEvent, EpollTimeout, Check, Load, Accept,
              TestErrno, CallAccepted, Finish, kernel
<1> QED BY <1>1, <1>2, <1>3, <1>4 DEF ServerNext

\* No step of either program breaks the invariant of the server.
LEMMA NetworkKeepsServer ==
  ASSUME ServerAssumption, ClientAssumption, NetworkInv, NetworkNext
  PROVE  ServerInv'
<1>1. ServerInv /\ calls \in 0 .. MaxCalls /\ (client_step # "idle" => calls > 0)
  BY DEF NetworkInv, CallInv
<1>2. CASE ServerNext
  BY <1>1, <1>2, OwnerKeeps, AccepterKeeps DEF ServerNext
<1>3. CASE OthersConnect
  BY <1>1, <1>3, ConnectKeeps DEF OthersConnect, Connect
<1>4. CASE UNCHANGED vars
  BY <1>1, <1>4 DEF vars, flags, local, kernel, ServerInv, TypeOK, LifeInv, Errors
<1>5. CASE ClientConnect
  <2>1. calls \in Clients
    BY <1>1, <1>5 DEF ClientConnect, ClientAssumption
  <2>2. CASE Connects(calls)
    BY <1>1, <2>1, <2>2, ConnectKeeps DEF Connect
  <2> QED BY <1>4, <1>5, <2>2 DEF ClientConnect
<1> QED
  BY <1>2, <1>3, <1>4, <1>5 DEF NetworkNext, ClientCall, Called, ClientCallback

\* The part of the client.
LEMMA NetworkKeepsCall ==
  ASSUME ServerAssumption, ClientAssumption, NetworkInv, NetworkNext
  PROVE  CallInv'
<1> USE DEF CallInv, Made
<1>1. CallInv /\ arrived \in Seq(Clients)
  BY DEF NetworkInv, ServerInv, TypeOK
<1>2. MaxCalls \in Nat /\ 1 .. MaxCalls \subseteq Clients
  BY DEF ClientAssumption
<1>3. ASSUME arrived' = arrived PROVE \A k : Made(k)' <=> Made(k)
  BY <1>3
<1>4. CASE ServerNext /\ UNCHANGED clientVars
  BY <1>1, <1>3, <1>4, ServerMakesNone DEF clientVars
<1>5. CASE OthersConnect /\ UNCHANGED clientVars
  <2>1. PICK c \in Clients \ 1 .. MaxCalls : Connects(c)
    BY <1>5 DEF OthersConnect
  <2>2. \A k \in 1 .. MaxCalls : Made(k)' <=> Made(k)
    BY <1>1, <2>1, ArrivedGrows
  <2>3. calls > 0 => calls \in 1 .. MaxCalls
    BY <1>1, <1>2
  <2> QED BY <1>1, <1>5, <2>2, <2>3 DEF clientVars
<1>6. CASE ClientCall
  <2>1. \A k : Made(k)' <=> Made(k)
    BY <1>3, <1>6 DEF ClientCall, Called, vars, kernel
  <2>2. calls' = calls + 1 /\ calls' \in 1 .. MaxCalls
    BY <1>1, <1>2, <1>6 DEF ClientCall, Called
  <2>3. ~Made(calls')
    BY <1>1, <1>2, <2>2
  <2>4. \A k \in 1 .. MaxCalls : Made(k)' => k <= calls'
    BY <1>1, <1>2, <2>1, <2>2
  <2>5. ~Made(calls)'
    BY <2>1, <2>3
  <2> QED BY <1>6, <2>2, <2>4, <2>5 DEF ClientCall
<1>7. CASE ClientConnect
  <2>1. calls \in 1 .. MaxCalls /\ calls' = calls
    BY <1>1, <1>2, <1>7 DEF ClientConnect
  <2>2. CASE Connects(calls) /\ client_step' = "call" /\ UNCHANGED client_status
    <3>1. \A k : Made(k)' <=> Made(k) \/ k = calls
      BY <1>1, <1>2, <2>1, <2>2, ArrivedGrows
    <3>2. Made(calls)'
      BY <2>1, <3>1
    <3> QED BY <1>1, <1>2, <1>7, <2>1, <2>2, <3>1, <3>2 DEF ClientConnect
  <2>3. CASE UNCHANGED vars /\ client_step' = "idle"
             /\ client_status' = "TCPCLIENT_SOCKET_ERROR"
    <3>1. \A k : Made(k)' <=> Made(k)
      BY <1>3, <2>3 DEF vars, kernel
    <3>2. ~Made(calls)'
      BY <1>1, <1>7, <2>1, <3>1 DEF ClientConnect
    <3> QED BY <1>1, <2>1, <2>3, <3>1, <3>2
  <2> QED BY <1>7, <2>2, <2>3 DEF ClientConnect
<1>8. CASE ClientCallback
  <2>1. \A k : Made(k)' <=> Made(k)
    BY <1>3, <1>8 DEF ClientCallback, vars, kernel
  <2>2. calls' = calls /\ Made(calls)'
    BY <1>1, <1>8, <2>1 DEF ClientCallback
  <2> QED BY <1>1, <1>8, <2>1, <2>2 DEF ClientCallback
<1> QED BY <1>4, <1>5, <1>6, <1>7, <1>8 DEF NetworkNext

(***************************************************************************)
(* The inductive invariant of server and client together.                  *)
(***************************************************************************)
THEOREM NetworkCorrect == NetworkSpec => []NetworkInv
<1>1. ServerAssumption /\ ClientAssumption
  BY ServerAssumption, ClientAssumption
<1>2. NetworkInit => NetworkInv
  BY <1>1, NetworkInitInv DEF NetworkInit
<1>3. NetworkInv /\ [NetworkNext]_<<vars, clientVars>> => NetworkInv'
  <2>1. CASE NetworkNext
    BY <1>1, <2>1, NetworkKeepsServer, NetworkKeepsCall DEF NetworkInv
  <2>2. CASE UNCHANGED <<vars, clientVars>>
    BY <2>2 DEF vars, flags, local, kernel, clientVars, NetworkInv, ServerInv, TypeOK,
                LifeInv, Errors, CallInv, Made
  <2> QED BY <2>1, <2>2
<1> QED BY <1>2, <1>3, PTL DEF NetworkSpec

(***************************************************************************)
(* TCPClient::status() after connect(): OK, or an error of the socket      *)
(* flags, exactly when the connection was made, after any number of calls. *)
(***************************************************************************)
THEOREM ClientHonest == NetworkSpec => []StatusTellsTruth
<1>1. NetworkInv => StatusTellsTruth
  BY DEF NetworkInv, CallInv, Made, StatusTellsTruth
<1> QED BY <1>1, NetworkCorrect, PTL

(***************************************************************************)
(* The accept thread ends before the server also while clients of its own  *)
(* process call it.                                                        *)
(***************************************************************************)
THEOREM ThreadEndsFirstWithClient == NetworkSpec => []NoUseAfterDestroy
<1>1. NetworkInv => NoUseAfterDestroy
  BY DEF NetworkInv, ServerInv, LifeInv, TypeOK, NoUseAfterDestroy
<1> QED BY <1>1, NetworkCorrect, PTL

(***************************************************************************)
(* A client of its own is one more that connects: what goes on in its      *)
(* calls does not disturb the order the server keeps.                      *)
(***************************************************************************)
LEMMA NetworkKeepsChain ==
  ASSUME ServerAssumption, ClientAssumption, NetworkInv, ChainInv, [NetworkNext]_<<vars, clientVars>>
  PROVE  ChainInv'
<1>1. ServerInv /\ calls \in 0 .. MaxCalls /\ (client_step # "idle" => calls > 0)
  BY DEF NetworkInv, CallInv
<1>2. CASE ServerNext
  BY <1>1, <1>2, StepChainInv DEF Next
<1>3. CASE OthersConnect
  BY <1>1, <1>3, ConnectKeepsChain DEF OthersConnect
<1>4. CASE UNCHANGED vars
  BY <1>1, <1>4, StepChainInv
<1>5. CASE ClientConnect
  <2>1. calls \in Clients
    BY <1>1, <1>5 DEF ClientConnect, ClientAssumption
  <2>2. CASE Connects(calls)
    BY <1>1, <2>1, <2>2, ConnectKeepsChain
  <2> QED BY <1>4, <1>5, <2>2 DEF ClientConnect
<1> QED
  BY <1>2, <1>3, <1>4, <1>5 DEF NetworkNext, ClientCall, Called, ClientCallback

(***************************************************************************)
(* With epoll the server hands over the connections of a client that calls *)
(* again after failures as it does those of others: once and in order.     *)
(***************************************************************************)
THEOREM ConnectionsInOrderWithClient == NetworkSpec => []HandedInOrder
<1>1. NetworkInit => ChainInv
  BY InitChainInv DEF NetworkInit
<1>2. ServerAssumption /\ ClientAssumption /\ NetworkInv /\ ChainInv
        /\ [NetworkNext]_<<vars, clientVars>> => ChainInv'
  BY NetworkKeepsChain
<1>3. ChainInv => HandedInOrder
  BY DEF ChainInv
<1> QED
  BY <1>1, <1>2, <1>3, ServerAssumption, ClientAssumption, NetworkCorrect, PTL DEF NetworkSpec
=============================================================================

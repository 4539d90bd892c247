-------------------------- MODULE TCPServerProofs --------------------------
(***************************************************************************)
(* Theorems about TCPServer, for every set of clients, listen types and    *)
(* number of failed starts: type correctness, and that the destructor      *)
(* outlives the accept thread.                                             *)
(***************************************************************************)
EXTENDS TCPServer, SequenceTheorems, TLAPS

(***************************************************************************)
(* A thread between its start and its last step has not set the finished   *)
(* flag, and start() cleared it before; behind the close of the destructor *)
(* the socket stays closed, since only start() opens one and it is not     *)
(* called any more.                                                        *)
(***************************************************************************)
LifeInv ==
  /\ accepter \notin {"none", "done"} => ~m_atomic_server_finished
  /\ owner \in {"clear", "wait", "destroyed"} => listener = "closed"
  /\ owner = "destroyed" => m_atomic_server_finished

ServerInv == TypeOK /\ LifeInv

\* The constructor establishes the invariant.
LEMMA InitServerInv == ASSUME ServerAssumption, Init PROVE ServerInv
<1>1. TypeOK
  <2>1. {m_master_socket, event, registered} \cup {m_atomic_server_enable,
         m_atomic_server_finished} \subseteq BOOLEAN
    BY DEF Init
  <2>2. {backlog, arrived, accepted} \subseteq Seq(Clients)
    <3>1. <<>> \in Seq(Clients)
      OBVIOUS
    <3> QED BY <3>1 DEF Init
  <2>3. failures \in 0 .. MaxFailures
    BY DEF Init, ServerAssumption
  <2>4. /\ m_status = "TCPSERVER_OK" /\ listen_type \in ListenTypes
        /\ owner = "ready" /\ accepter = "none"
        /\ slave = NoSocket /\ errno = "other"
        /\ listener = "closed" /\ backlog = <<>> /\ discarded = {}
    BY DEF Init
  <2> QED BY <2>1, <2>2, <2>3, <2>4 DEF TypeOK
<1>2. LifeInv
  BY DEF Init, LifeInv
<1> QED BY <1>1, <1>2 DEF ServerInv

\* Closing the listening socket leaves nothing waiting at it.
LEMMA DiscardTypes ==
  ASSUME TypeOK, Discard
  PROVE  backlog' = <<>> /\ backlog' \in Seq(Clients) /\ discarded' \subseteq Clients
<1>1. backlog \in Seq(Clients) /\ discarded \subseteq Clients
  BY DEF TypeOK
<1>2. ToSet(backlog) \subseteq Clients
  BY <1>1 DEF ToSet
<1> QED BY <1>1, <1>2 DEF Discard

\* A start that fails keeps the descriptor exactly when it leaves the socket open.
LEMMA StartFailsSocket ==
  ASSUME StartFails
  PROVE  \/ m_master_socket' = TRUE /\ listener' = "created"
         \/ m_master_socket' = FALSE /\ listener' = "closed"
<1>1. m_master_socket' = (m_status' = "TCPSERVER_SETSOCKOPT_ERROR")
  BY DEF StartFails
<1>2. listener' = IF m_status' = "TCPSERVER_SETSOCKOPT_ERROR" THEN "created" ELSE "closed"
  BY DEF StartFails, StartFailing
<1>3. CASE m_status' = "TCPSERVER_SETSOCKOPT_ERROR"
  BY <1>1, <1>2, <1>3, Zenon
<1>4. CASE m_status' # "TCPSERVER_SETSOCKOPT_ERROR"
  BY <1>1, <1>2, <1>4, Zenon
<1> QED BY <1>3, <1>4

\* What the owner does, the failing and succeeding starts in particular.
LEMMA OwnerKeeps ==
  ASSUME ServerAssumption, ServerInv, Start \/ Stop \/ DestroyDisable \/ Destructor
  PROVE  ServerInv'
<1> USE DEF ServerInv, TypeOK, LifeInv, Errors, flags, local, kernel
<1>1. CASE StartFails
  <2>1. \/ m_master_socket' = TRUE /\ listener' = "created"
        \/ m_master_socket' = FALSE /\ listener' = "closed"
    BY <1>1, StartFailsSocket
  <2>2. /\ m_status' \in Errors
        /\ owner = "ready" /\ accepter \in {"none", "done"}
        /\ failures' \in 0 .. MaxFailures
        /\ m_atomic_server_finished' = TRUE /\ m_atomic_server_enable' = FALSE
    BY <1>1 DEF StartFails, StartFailing, MayStart, ServerAssumption
  <2>3. UNCHANGED <<listen_type, owner, accepter, event, registered, slave, errno,
                    arrived, accepted>>
    BY <1>1 DEF StartFails, StartFailing
  <2>4. /\ backlog' = <<>> /\ backlog' \in Seq(Clients)
        /\ discarded' \subseteq Clients
    BY <1>1, DiscardTypes DEF StartFails, StartFailing
  <2> QED BY <2>1, <2>2, <2>3, <2>4
<1>2. CASE StartSucceeds
  <2>1. /\ backlog' = <<>> /\ backlog' \in Seq(Clients)
        /\ discarded' \subseteq Clients
    BY <1>2, DiscardTypes DEF StartSucceeds
  <2> QED BY <1>2, <2>1 DEF StartSucceeds, MayStart
<1>3. CASE Stop
  BY <1>3 DEF Stop
<1>4. CASE DestroyDisable
  BY <1>4 DEF DestroyDisable
<1>5. CASE DestroyClose
  <2>1. CASE m_master_socket
    <3>1. /\ backlog' = <<>> /\ backlog' \in Seq(Clients)
          /\ discarded' \subseteq Clients
      BY <1>5, <2>1, DiscardTypes DEF DestroyClose
    <3> QED BY <1>5, <2>1, <3>1 DEF DestroyClose
  <2>2. CASE ~m_master_socket
    BY <1>5, <2>2 DEF DestroyClose
  <2> QED BY <2>1, <2>2
<1>6. CASE DestroyClear
  BY <1>6 DEF DestroyClear
<1>7. CASE DestroyWait
  BY <1>7 DEF DestroyWait
<1> QED
  BY <1>1, <1>2, <1>3, <1>4, <1>5, <1>6, <1>7 DEF Start, Destructor

\* Every step of the accept thread; it opens no socket and leaves the owner alone.
LEMMA AccepterKeeps ==
  ASSUME ServerAssumption, ServerInv, Accepter
  PROVE  ServerInv'
<1> USE DEF ServerInv, TypeOK, LifeInv, Errors, flags, local, kernel, OthersUnchanged
<1>1. CASE Enter
  BY <1>1 DEF Enter
<1>2. CASE Test
  BY <1>2 DEF Test
<1>3. CASE EpollEvent
  BY <1>3 DEF EpollEvent
<1>4. CASE EpollTimeout
  BY <1>4 DEF EpollTimeout
<1>5. CASE Check
  BY <1>5 DEF Check
<1>6. CASE Load
  BY <1>6 DEF Load
<1>7. CASE Accept
  <2>1. CASE listener = "listening" /\ backlog # <<>>
    <3>1. slave' = Head(backlog) /\ backlog' = Tail(backlog)
      BY <1>7, <2>1 DEF Accept
    <3>2. Head(backlog) \in Clients /\ Tail(backlog) \in Seq(Clients)
      BY <2>1
    <3> QED BY <1>7, <2>1, <3>1, <3>2 DEF Accept
  <2>2. CASE ~(listener = "listening" /\ backlog # <<>>)
    BY <1>7, <2>2 DEF Accept
  <2> QED BY <2>1, <2>2
<1>8. CASE TestErrno
  BY <1>8 DEF TestErrno
<1>9. CASE CallAccepted
  <2>1. CASE slave = NoSocket
    BY <1>9, <2>1 DEF CallAccepted
  <2>2. CASE slave # NoSocket
    <3>1. Append(accepted, slave) \in Seq(Clients)
      BY <2>2
    <3> QED BY <1>9, <2>2, <3>1 DEF CallAccepted
  <2> QED BY <2>1, <2>2
<1>10. CASE Finish
  BY <1>10 DEF Finish
<1> QED
  BY <1>1, <1>2, <1>3, <1>4, <1>5, <1>6, <1>7, <1>8, <1>9, <1>10 DEF Accepter

\* A client only joins the queue of a listening socket.
LEMMA ConnectKeeps == ASSUME ServerInv, Connect PROVE ServerInv'
<1>1. PICK c \in Clients : arrived' = Append(arrived, c) /\ backlog' = Append(backlog, c)
                       /\ Connects(c)
  BY DEF Connect, Connects
<1>2. Append(arrived, c) \in Seq(Clients) /\ Append(backlog, c) \in Seq(Clients)
  BY <1>1 DEF ServerInv, TypeOK
<1> QED
  BY <1>1, <1>2 DEF Connects, ServerInv, TypeOK, LifeInv, Errors, flags, local

LEMMA StepServerInv ==
  ASSUME ServerAssumption, ServerInv, [Next]_vars PROVE ServerInv'
<1>1. CASE UNCHANGED vars
  BY <1>1 DEF vars, flags, local, kernel, ServerInv, TypeOK, LifeInv, Errors
<1> QED
  BY <1>1, OwnerKeeps, AccepterKeeps, ConnectKeeps DEF Next, ServerNext

(***************************************************************************)
(* The inductive invariant holds throughout.                               *)
(***************************************************************************)
THEOREM ServerCorrect == Spec => []ServerInv
  BY ServerAssumption, InitServerInv, StepServerInv, PTL DEF Spec

(***************************************************************************)
(* Type correctness: in particular a socket is open only while             *)
(* m_master_socket tells so, through every failure of start_listen().      *)
(***************************************************************************)
THEOREM TypeCorrect == Spec => []TypeOK
<1>1. ServerInv => TypeOK
  BY DEF ServerInv
<1> QED BY <1>1, ServerCorrect, PTL

(***************************************************************************)
(* ~TCPServer returns only when the detached accept thread has done its    *)
(* last step and the listening socket is closed.                           *)
(***************************************************************************)
THEOREM ThreadEndsFirst == Spec => []NoUseAfterDestroy
<1>1. ServerInv => NoUseAfterDestroy
  BY DEF ServerInv, LifeInv, TypeOK, NoUseAfterDestroy
<1> QED BY <1>1, ServerCorrect, PTL

-----------------------------------------------------------------------------
(***************************************************************************)
(* The order of the elements of two sequences put together.                *)
(***************************************************************************)
LEMMA InBoth ==
  ASSUME NEW S, NEW s \in Seq(S), NEW t \in Seq(S)
  PROVE  /\ ToSet(s \o t) = ToSet(s) \cup ToSet(t)
         /\ \A c, d : Before(s, c, d) => Before(s \o t, c, d)
         /\ \A c \in ToSet(s), d \in ToSet(t) : Before(s \o t, c, d)
<1> DEFINE m == Len(s)
           n == Len(t)
           u == s \o t
<1>1. /\ m \in Nat /\ n \in Nat /\ DOMAIN s = 1 .. m /\ DOMAIN t = 1 .. n /\ DOMAIN u = 1 .. m + n
      /\ \A i \in 1 .. m + n : u[i] = IF i <= m THEN s[i] ELSE t[i - m]
  BY ConcatProperties, LenProperties
<1> HIDE DEF m, n, u
<1>2. \A i \in 1 .. m : i \in DOMAIN u /\ u[i] = s[i]
  BY <1>1
<1>3. \A i \in 1 .. n : m + i \in DOMAIN u /\ u[m + i] = t[i]
  <2> SUFFICES ASSUME NEW i \in 1 .. n PROVE m + i \in DOMAIN u /\ u[m + i] = t[i]
    OBVIOUS
  <2>1. m + i \in 1 .. m + n /\ ~(m + i <= m) /\ (m + i) - m = i
    BY <1>1
  <2> QED BY <1>1, <2>1
<1>4. ToSet(u) = ToSet(s) \cup ToSet(t)
  <2>1. ASSUME NEW c \in ToSet(u) PROVE c \in ToSet(s) \cup ToSet(t)
    <3>1. PICK i \in 1 .. m + n : c = u[i]
      BY <1>1 DEF ToSet
    <3>2. i \in 1 .. m \/ i - m \in 1 .. n
      BY <1>1
    <3> QED BY <1>1, <3>1, <3>2 DEF ToSet
  <2>2. ToSet(s) \subseteq ToSet(u)
    BY <1>1, <1>2 DEF ToSet
  <2>3. ToSet(t) \subseteq ToSet(u)
    BY <1>1, <1>3 DEF ToSet
  <2> QED BY <2>1, <2>2, <2>3
<1>5. \A c, d : Before(s, c, d) => Before(u, c, d)
  BY <1>1, <1>2 DEF Before
<1>6. ASSUME NEW c \in ToSet(s), NEW d \in ToSet(t) PROVE Before(u, c, d)
  <2>1. PICK i \in 1 .. m, j \in 1 .. n : c = s[i] /\ d = t[j]
    BY <1>1 DEF ToSet
  <2>2. i < m + j
    BY <1>1
  <2> QED BY <1>2, <1>3, <2>1, <2>2 DEF Before
<1> QED BY <1>4, <1>5, <1>6 DEF u

LEMMA AtTheEnd ==
  ASSUME NEW S, NEW s \in Seq(S), NEW e \in S
  PROVE  /\ ToSet(Append(s, e)) = ToSet(s) \cup {e}
         /\ \A c, d : Before(Append(s, e), c, d) <=> Before(s, c, d) \/ (c \in ToSet(s) /\ d = e)
<1> DEFINE n == Len(s)
           u == Append(s, e)
<1>1. /\ n \in Nat /\ DOMAIN s = 1 .. n /\ DOMAIN u = 1 .. n + 1 /\ u[n + 1] = e
      /\ \A i \in 1 .. n : u[i] = s[i]
  BY AppendProperties, LenProperties
<1> HIDE DEF n, u
<1>2. \A i \in 1 .. n + 1 : i \in 1 .. n \/ i = n + 1
  BY <1>1
<1>3. \A i \in 1 .. n : i \in 1 .. n + 1 /\ i < n + 1
  BY <1>1
<1>4. n + 1 \in 1 .. n + 1
  BY <1>1
<1>5. ToSet(u) = ToSet(s) \cup {e}
  BY <1>1, <1>2, <1>3, <1>4 DEF ToSet
<1>6. ASSUME NEW c, NEW d, Before(u, c, d) PROVE Before(s, c, d) \/ (c \in ToSet(s) /\ d = e)
  <2>1. PICK k \in 1 .. n + 1, l \in 1 .. n + 1 : k < l /\ u[k] = c /\ u[l] = d
    BY <1>1, <1>6 DEF Before
  <2>2. k \in 1 .. n
    BY <1>1, <2>1
  <2> QED BY <1>1, <1>2, <2>1, <2>2 DEF Before, ToSet
<1>7. ASSUME NEW c, NEW d, Before(s, c, d) PROVE Before(u, c, d)
  BY <1>1, <1>3, <1>7 DEF Before
<1>8. ASSUME NEW c \in ToSet(s) PROVE Before(u, c, e)
  BY <1>1, <1>3, <1>4 DEF Before, ToSet
<1> QED BY <1>5, <1>6, <1>7, <1>8 DEF u

(***************************************************************************)
(* The connections.  HandedInOrder is inductive once the clients that came *)
(* are known to be distinct, so that what is discarded from the queue was  *)
(* not handed over before, and the slave socket is not overwritten.        *)
(***************************************************************************)
Distinct == \A k, l \in DOMAIN arrived : arrived[k] = arrived[l] => k = l

ChainInv ==
  /\ Distinct
  /\ ~Unblocked => /\ discarded \subseteq ToSet(arrived)
                   /\ slave # NoSocket => accepter = "call"
  /\ HandedInOrder

LEMMA ChainTypes ==
  ASSUME ServerInv
  PROVE  /\ arrived \in Seq(Clients) /\ accepted \in Seq(Clients) /\ backlog \in Seq(Clients)
         /\ InHand \in Seq(Clients) /\ accepted \o InHand \in Seq(Clients) /\ Chain \in Seq(Clients)
<1>1. arrived \in Seq(Clients) /\ accepted \in Seq(Clients) /\ backlog \in Seq(Clients)
      /\ slave \in Clients \cup {NoSocket}
  BY DEF ServerInv, TypeOK
<1>2. InHand \in Seq(Clients)
  BY <1>1 DEF InHand
<1> QED BY <1>1, <1>2, ConcatProperties DEF Chain

\* A connection only moves on along the chain.
LEMMA AcceptMoves ==
  ASSUME ServerInv, slave = NoSocket, backlog # <<>>, NoSocket \notin Clients,
         slave' = Head(backlog), backlog' = Tail(backlog), accepted' = accepted
  PROVE  Chain' = Chain
<1> DEFINE h == Head(backlog)
<1>1. /\ h \in Clients /\ Tail(backlog) \in Seq(Clients) /\ backlog = <<h>> \o Tail(backlog)
      /\ accepted \in Seq(Clients) /\ <<h>> \in Seq(Clients)
  BY ChainTypes
<1>2. InHand = <<>> /\ InHand' = <<h>>
  BY <1>1 DEF InHand
<1>3. accepted \o <<>> = accepted
  BY <1>1, ConcatEmptySeq
<1>4. (accepted \o <<h>>) \o Tail(backlog) = accepted \o (<<h>> \o Tail(backlog))
  BY <1>1, ConcatAssociative
<1> QED BY <1>1, <1>2, <1>3, <1>4 DEF Chain

LEMMA CallMoves ==
  ASSUME ServerInv, slave # NoSocket, slave' = NoSocket, accepted' = Append(accepted, slave),
         backlog' = backlog
  PROVE  Chain' = Chain
<1>1. accepted \in Seq(Clients) /\ slave \in Clients /\ accepted' \in Seq(Clients)
  BY DEF ServerInv, TypeOK
<1>2. accepted' = accepted \o <<slave>> /\ accepted' \o <<>> = accepted'
  BY <1>1, AppendIsConcat, ConcatEmptySeq
<1>3. InHand = <<slave>> /\ InHand' = <<>>
  BY DEF InHand
<1> QED BY <1>2, <1>3 DEF Chain

LEMMA DiscardKeepsChain ==
  ASSUME ServerInv, ChainInv, Discard, arrived' = arrived, accepted' = accepted, InHand' = InHand,
         listen_type' = listen_type
  PROVE  ~Unblocked => discarded' \subseteq ToSet(arrived') /\ HandedInOrder'
<1> DEFINE s == accepted \o InHand
<1>1. /\ s \in Seq(Clients) /\ backlog \in Seq(Clients) /\ arrived \in Seq(Clients)
      /\ Chain = s \o backlog /\ s \o <<>> = s
  BY ChainTypes, ConcatEmptySeq DEF Chain
<1>2. Chain' = s /\ discarded' = discarded \cup ToSet(backlog)
  BY <1>1 DEF Discard, Chain
<1> HIDE DEF s
<1>3. /\ ToSet(Chain) = ToSet(s) \cup ToSet(backlog)
      /\ \A c, d : Before(s, c, d) => Before(Chain, c, d)
      /\ \A c \in ToSet(s), d \in ToSet(backlog) : Before(Chain, c, d)
  BY <1>1, InBoth
<1>4. ASSUME ~Unblocked PROVE discarded' \subseteq ToSet(arrived') /\ HandedInOrder'
  <2>1. /\ ToSet(Chain) = ToSet(arrived) \ discarded
        /\ \A c, d \in Clients : Before(Chain, c, d) => Before(arrived, c, d)
    BY <1>4 DEF ChainInv, HandedInOrder
  <2>2. \A c : ~Before(arrived, c, c)
    <3>1. DOMAIN arrived \subseteq Nat
      BY <1>1
    <3> QED BY <3>1 DEF ChainInv, Distinct, Before
  <2>3. ToSet(s) \subseteq Clients
    BY <1>1 DEF ToSet
  <2>4. ToSet(s) \cap ToSet(backlog) = {}
    BY <1>3, <2>1, <2>2, <2>3
  <2>5. ToSet(s) = ToSet(arrived) \ discarded'
    BY <1>2, <1>3, <2>1, <2>4
  <2>6. \A c, d \in Clients : Before(s, c, d) => Before(arrived, c, d)
    BY <1>3, <2>1
  <2>7. discarded' \subseteq ToSet(arrived)
    BY <1>2, <1>3, <1>4, <2>1 DEF ChainInv
  <2>8. HandedInOrder'
    BY <1>2, <2>5, <2>6 DEF HandedInOrder
  <2> QED BY <2>7, <2>8
<1> QED BY <1>4

LEMMA ConnectKeepsChain ==
  ASSUME ServerInv, ChainInv, NEW c \in Clients, Connects(c)
  PROVE  ChainInv'
<1>1. /\ arrived \in Seq(Clients) /\ backlog \in Seq(Clients) /\ accepted \o InHand \in Seq(Clients)
      /\ Chain \in Seq(Clients)
  BY ChainTypes
<1>2. /\ arrived' = Append(arrived, c) /\ backlog' = Append(backlog, c) /\ c \notin ToSet(arrived)
      /\ UNCHANGED <<listen_type, accepter, slave, discarded, accepted>>
  BY DEF Connects, local
<1>3. Chain' = Append(Chain, c)
  <2> DEFINE s == accepted \o InHand
  <2>1. Chain = s \o backlog /\ Chain' = s \o Append(backlog, c)
    BY <1>2 DEF Chain, InHand
  <2> HIDE DEF s
  <2>2. s \in Seq(Clients) /\ <<c>> \in Seq(Clients)
    BY <1>1 DEF s
  <2>3. s \o (backlog \o <<c>>) = (s \o backlog) \o <<c>>
    BY <1>1, <2>2, ConcatAssociative
  <2>4. Append(backlog, c) = backlog \o <<c>> /\ Append(Chain, c) = Chain \o <<c>>
    BY <1>1, AppendIsConcat
  <2> QED BY <2>1, <2>3, <2>4
<1>4. /\ ToSet(arrived') = ToSet(arrived) \cup {c}
      /\ \A d, e : Before(arrived', d, e) <=> Before(arrived, d, e) \/ (d \in ToSet(arrived) /\ e = c)
  BY <1>1, <1>2, AtTheEnd
<1>5. /\ ToSet(Chain') = ToSet(Chain) \cup {c}
      /\ \A d, e : Before(Chain', d, e) <=> Before(Chain, d, e) \/ (d \in ToSet(Chain) /\ e = c)
  BY <1>1, <1>3, AtTheEnd
<1>6. Distinct'
  <2>1. /\ Len(arrived) \in Nat /\ DOMAIN arrived = 1 .. Len(arrived)
        /\ DOMAIN arrived' = 1 .. Len(arrived) + 1 /\ arrived'[Len(arrived) + 1] = c
        /\ \A i \in 1 .. Len(arrived) : arrived'[i] = arrived[i] /\ arrived[i] # c
    BY <1>1, <1>2 DEF ToSet
  <2>2. \A k, l \in DOMAIN arrived : arrived[k] = arrived[l] => k = l
    BY DEF ChainInv, Distinct
  <2> QED BY <2>1, <2>2 DEF Distinct
<1>7. ASSUME ~Unblocked PROVE discarded' \subseteq ToSet(arrived') /\ HandedInOrder'
  <2>1. /\ ToSet(Chain) = ToSet(arrived) \ discarded /\ discarded \subseteq ToSet(arrived)
        /\ \A d, e \in Clients : Before(Chain, d, e) => Before(arrived, d, e)
    BY <1>7 DEF ChainInv, HandedInOrder
  <2>2. ToSet(Chain') = ToSet(arrived') \ discarded' /\ discarded' \subseteq ToSet(arrived')
    BY <1>2, <1>4, <1>5, <2>1
  <2>3. \A d, e \in Clients : Before(Chain', d, e) => Before(arrived', d, e)
    BY <1>4, <1>5, <2>1
  <2>4. HandedInOrder'
    BY <2>2, <2>3 DEF HandedInOrder, Before
  <2> QED BY <2>2, <2>4
<1> QED BY <1>2, <1>6, <1>7 DEF ChainInv, Unblocked, HandedInOrder

LEMMA StepChainInv ==
  ASSUME ServerAssumption, ServerInv, ChainInv, [Next]_vars
  PROVE  ChainInv'
<1> USE DEF flags, local, kernel
<1>0. NoSocket \notin Clients /\ slave \in Clients \cup {NoSocket}
  BY DEF ServerAssumption, ServerInv, TypeOK
<1>1. ASSUME UNCHANGED <<listen_type, arrived, discarded, Chain>>,
             ~Unblocked /\ slave' # NoSocket => accepter' = "call"
      PROVE  ChainInv'
  BY <1>1 DEF ChainInv, Distinct, HandedInOrder, Unblocked, Before
<1>2. ASSUME Discard, UNCHANGED <<listen_type, arrived, accepted, InHand>>,
             ~Unblocked /\ slave' # NoSocket => accepter' = "call"
      PROVE  ChainInv'
  <2>1. ~Unblocked => discarded' \subseteq ToSet(arrived') /\ HandedInOrder'
    BY <1>2, DiscardKeepsChain
  <2> QED BY <1>2, <2>1 DEF ChainInv, Distinct, HandedInOrder, Unblocked
<1>3. ~Unblocked /\ slave # NoSocket => accepter = "call"
  BY DEF ChainInv
<1>4. CASE StartFails
  <2>1. Discard /\ UNCHANGED <<listen_type, arrived, accepted, slave, accepter>>
    BY <1>4 DEF StartFails, StartFailing
  <2> QED BY <1>2, <1>3, <2>1 DEF InHand
<1>5. CASE StartSucceeds
  <2>1. Discard /\ UNCHANGED <<listen_type, arrived, accepted>> /\ slave' = NoSocket
        /\ accepter \in {"none", "done"}
    BY <1>5 DEF StartSucceeds, MayStart
  <2>2. CASE ~Unblocked
    BY <1>2, <1>3, <2>1, <2>2 DEF InHand
  <2>3. CASE Unblocked
    BY <2>1, <2>3 DEF ChainInv, Distinct, HandedInOrder, Unblocked
  <2> QED BY <2>2, <2>3
<1>6. CASE Stop \/ DestroyDisable \/ DestroyClear \/ DestroyWait
  BY <1>1, <1>3, <1>6 DEF Stop, DestroyDisable, DestroyClear, DestroyWait, Chain, InHand
<1>7. CASE DestroyClose
  <2>1. UNCHANGED <<listen_type, arrived, accepted, slave, accepter>>
    BY <1>7 DEF DestroyClose
  <2>2. Discard \/ UNCHANGED <<backlog, discarded>>
    BY <1>7 DEF DestroyClose
  <2> QED BY <1>1, <1>2, <1>3, <2>1, <2>2 DEF InHand, Chain
<1>8. CASE Enter \/ Test \/ EpollEvent \/ EpollTimeout \/ Check \/ Load \/ Finish
  BY <1>1, <1>3, <1>8 DEF Enter, Test, EpollEvent, EpollTimeout, Check, Load, Finish, OthersUnchanged, Chain, InHand
<1>9. CASE Unblocked /\ UNCHANGED <<listen_type, arrived>>
  BY <1>9 DEF ChainInv, Distinct, HandedInOrder, Unblocked
<1>10. CASE Accept /\ ~Unblocked
  <2>1. slave = NoSocket /\ accepter' = "call" /\ UNCHANGED <<listen_type, arrived, discarded, accepted>>
    BY <1>3, <1>10 DEF Accept, OthersUnchanged
  <2>2. \/ backlog # <<>> /\ slave' = Head(backlog) /\ backlog' = Tail(backlog)
        \/ slave' = NoSocket /\ backlog' = backlog
    BY <1>10 DEF Accept
  <2>3. Chain' = Chain
    BY <1>0, <2>1, <2>2, AcceptMoves DEF Chain, InHand
  <2> QED BY <1>1, <2>1, <2>3
<1>11. CASE TestErrno /\ ~Unblocked
  BY <1>1, <1>3, <1>11 DEF TestErrno, OthersUnchanged, Chain, InHand
<1>12. CASE CallAccepted /\ ~Unblocked
  <2>1. slave' = NoSocket /\ UNCHANGED <<listen_type, arrived, discarded, backlog>>
    BY <1>12 DEF CallAccepted, OthersUnchanged
  <2>2. IF slave = NoSocket THEN accepted' = accepted ELSE accepted' = Append(accepted, slave)
    BY <1>12 DEF CallAccepted
  <2>3. Chain' = Chain
    BY <2>1, <2>2, CallMoves DEF Chain, InHand
  <2> QED BY <1>1, <2>1, <2>3
<1>13. CASE Connect
  BY <1>13, ConnectKeepsChain DEF Connect
<1>14. CASE UNCHANGED vars
  BY <1>1, <1>3, <1>14 DEF vars, Chain, InHand
<1>15. ASSUME Accept \/ TestErrno \/ CallAccepted PROVE UNCHANGED <<listen_type, arrived>>
  BY <1>15 DEF Accept, TestErrno, CallAccepted, OthersUnchanged
<1> QED
  BY <1>4, <1>5, <1>6, <1>7, <1>8, <1>9, <1>10, <1>11, <1>12, <1>13, <1>14, <1>15
  DEF Next, ServerNext, Start, Destructor, Accepter

\* Before anything has happened there are no connections.
LEMMA InitChainInv ==
  ASSUME Init PROVE ChainInv
<1>1. /\ backlog = <<>> /\ arrived = <<>> /\ accepted = <<>> /\ discarded = {} /\ slave = NoSocket
      /\ DOMAIN <<>> = {} /\ <<>> \o <<>> = <<>>
  BY DEF Init
<1>2. Chain = <<>>
  BY <1>1 DEF Chain, InHand
<1> QED BY <1>1, <1>2 DEF ChainInv, Distinct, HandedInOrder, Before, ToSet

(***************************************************************************)
(* With epoll no connection is lost, handed over twice or out of turn,     *)
(* over any number of stops, failed starts and restarts.                   *)
(***************************************************************************)
THEOREM ConnectionsInOrder == Spec => []HandedInOrder
<1>1. Init => ChainInv
  BY InitChainInv
<1>2. ServerAssumption /\ ServerInv /\ ChainInv /\ [Next]_vars => ChainInv'
  BY StepChainInv
<1>3. ChainInv => HandedInOrder
  BY DEF ChainInv
<1> QED BY <1>1, <1>2, <1>3, ServerAssumption, ServerCorrect, PTL DEF Spec
=============================================================================

------------------------- MODULE LocalSocketProofs -------------------------
(***************************************************************************)
(* The safety of LocalSocket for any number of processes of either end,    *)
(* datagrams, LocalSockets and failures: no descriptor leaks, no datagram  *)
(* is lost, doubled or overtaken on the way, and a process that has its    *)
(* end to itself takes the path over.                                      *)
(***************************************************************************)
EXTENDS LocalSocket, TLAPS, FiniteSetTheorems, SequenceTheorems

Dgrams == Processes \X (1 .. MaxDatagrams)

\* The bound on LocalSockets bounds those of each process.
LEMMA RoomForOne ==
  ASSUME LocalAssumption, TypeOK, NEW p \in Processes, Cardinality(Created) < MaxObjects
  PROVE  objects[p] + 1 \in 1 .. MaxObjects
<1>1. IsFiniteSet(Processes) /\ MaxObjects \in Nat \ {0} /\ objects[p] \in 0 .. MaxObjects
  BY DEF LocalAssumption, Processes, TypeOK
<1>2. IsFiniteSet(Sockets)
  <2>1. IsFiniteSet(1 .. MaxObjects)
    BY <1>1, FS_Interval
  <2> QED BY <1>1, <2>1, FS_Product DEF Sockets
<1>3. IsFiniteSet(Created)
  BY <1>2, FS_Subset DEF Created
<1>4. CASE objects[p] = MaxObjects
  <2> DEFINE f == [k \in 1 .. MaxObjects |-> <<p, k>>]
  <2>1. f \in Injection(1 .. MaxObjects, Created)
    BY <1>1, <1>4 DEF Injection, IsInjective, Created, Sockets
  <2>2. Cardinality(1 .. MaxObjects) <= Cardinality(Created)
    BY <1>3, <2>1, FS_Injection
  <2>3. Cardinality(1 .. MaxObjects) = MaxObjects
    BY <1>1, FS_Interval
  <2>4. Cardinality(Created) \in Nat
    BY <1>3, FS_CardinalityType
  <2> QED BY <1>1, <2>2, <2>3, <2>4
<1> QED BY <1>1, <1>4

-----------------------------------------------------------------------------
(***************************************************************************)
(* Descriptors.  NoLeak is not inductive: it says nothing of where m_fd    *)
(* points when the threads have just closed the socket, nor that a process *)
(* whose LocalSocket is not up runs no thread.                             *)
(***************************************************************************)
Shut(p) == ~Opened(p, 0) /\ ~Opened(p, 1)

ThreadInv == \A p \in Processes :
  /\ reader[p] # "off" \/ writer[p] # "off" => phase[p] = "up"
  /\ reader[p] = "close" => m_fd[p] # 0
  /\ reader[p] = "clear" => Shut(p)
  /\ phase[p] = "unborn" => table[p][0] = Stdin /\ table[p][1] = Free
  /\ phase[p] \in {"socket", "bind", "up"} => objects[p] > 0
  /\ writer[p] \in {"test", "send"} => next[p] <= MaxDatagrams

\* A path leads to a socket of its end.
PathInv == \A e \in {"parent", "child"} : path[e] # Free => End(path[e][1]) = e

\* What waits, waits in an open socket, and comes from the other end.
Waits(s, d) == d \in ToSet(queue[s])
QueueInv == \A s \in Sockets, d \in Dgrams :
  Waits(s, d) => IsOpen(s) /\ d[1] \in Others(s[1])

Inv == TypeOK /\ ThreadInv /\ NoLeak /\ PathInv /\ QueueInv

\* Descriptors are not sockets.  (The constants are model values.)
LEMMA SocketIsOpen ==
  ASSUME TypeOK, NoLeak, NEW s \in Sockets
  PROVE  IsOpen(s) <=> \E d \in 0 .. 1 : table[s[1]][d] = s /\ s = Socket(s[1]) /\ d = m_fd[s[1]]
                                         /\ phase[s[1]] \in {"bind", "up"}
BY DEF IsOpen, NoLeak, Opened, TypeOK, Sockets

(***************************************************************************)
(* What close() does, and what it leaves.                                  *)
(***************************************************************************)
Closed(p, D) == {table[p][d] : d \in D} \cap Sockets

LEMMA CloseDoes ==
  ASSUME TypeOK, NEW p \in Processes, NEW D \in SUBSET (0 .. 1), Close(p, D)
  PROVE  /\ table' \in [Processes -> [0 .. 1 -> Sockets \cup {Free, Stdin}]]
         /\ queue' \in [Sockets -> Seq(Dgrams)]
         /\ lost' \subseteq Dgrams
         /\ \A q \in Processes, d \in 0 .. 1 :
              table'[q][d] = IF q = p /\ d \in D THEN Free ELSE table[q][d]
         /\ \A s \in Sockets : queue'[s] = IF s \in Closed(p, D) THEN <<>> ELSE queue[s]
         /\ \A x : x \in lost' <=> x \in lost \/ \E s \in Closed(p, D) : x \in ToSet(queue[s])
<1> DEFINE C == Closed(p, D)
<1>1. /\ table' = [table EXCEPT ![p] = [d \in 0 .. 1 |-> IF d \in D THEN Free ELSE table[p][d]]]
      /\ queue' = [s \in Sockets |-> IF s \in C THEN <<>> ELSE queue[s]]
      /\ lost' = lost \cup UNION {ToSet(queue[s]) : s \in C}
  BY DEF Close, Closed
<1>2. table' \in [Processes -> [0 .. 1 -> Sockets \cup {Free, Stdin}]]
  BY <1>1 DEF TypeOK
<1>3. \A q \in Processes, d \in 0 .. 1 :
        table'[q][d] = IF q = p /\ d \in D THEN Free ELSE table[q][d]
  BY <1>1 DEF TypeOK
<1>4. C \subseteq Sockets
  BY DEF Closed
<1>5. queue' \in [Sockets -> Seq(Dgrams)]
  BY <1>1 DEF TypeOK, Dgrams
<1>6. \A s \in Sockets : queue'[s] = IF s \in C THEN <<>> ELSE queue[s]
  BY <1>1
<1>7. \A x : x \in lost' <=> x \in lost \/ \E s \in C : x \in ToSet(queue[s])
  BY <1>1
<1>8. lost' \subseteq Dgrams
  BY <1>4, <1>7 DEF TypeOK, Dgrams, ToSet
<1> QED BY <1>2, <1>3, <1>5, <1>6, <1>7, <1>8

LEMMA ClosesOne ==
  ASSUME TypeOK, NEW p \in Processes, Close(p, {m_fd[p]})
  PROVE  \A d \in 0 .. 1 : table'[p][d] = IF d = m_fd[p] THEN Free ELSE table[p][d]
<1>1. {m_fd[p]} \in SUBSET (0 .. 1)
  BY DEF TypeOK
<1> QED BY <1>1, CloseDoes

LEMMA NoSockets == LocalAssumption => Free \notin Sockets /\ Stdin \notin Sockets /\ Free # Stdin
BY DEF LocalAssumption

LEMMA TypeInit == LocalAssumption /\ Init => TypeOK
<1> SUFFICES ASSUME LocalAssumption, Init PROVE TypeOK
  OBVIOUS
<1>1. <<>> \in Seq(Processes \X (1 .. MaxDatagrams)) /\ <<>> \in Seq(1 .. MaxDatagrams)
  OBVIOUS
<1> QED BY <1>1 DEF Init, TypeOK, LocalAssumption

(***************************************************************************)
(* Types, one action after the other.                                      *)
(***************************************************************************)
LEMMA OwnerTypes ==
  ASSUME LocalAssumption, Inv, NEW p \in Processes, Begin(p) \/ Crash(p) \/ Owner(p)
  PROVE  TypeOK'
<1> USE DEF Inv, TypeOK, kernel, history, threads
<1>0. MaxUpsets \in Nat /\ upsets \in Nat
  BY DEF LocalAssumption
<1>1. CASE Begin(p)
  BY <1>1 DEF Begin
<1>2. CASE Crash(p)
  <2>1. Close(p, 0 .. 1)
    BY <1>2 DEF Crash
  <2>2. /\ table' \in [Processes -> [0 .. 1 -> Sockets \cup {Free, Stdin}]]
        /\ queue' \in [Sockets -> Seq(Dgrams)]
        /\ lost' \subseteq Dgrams
    BY <2>1, CloseDoes
  <2>3. upsets' \in 0 .. MaxUpsets
    BY <1>0, <1>2 DEF Crash, Upset
  <2> QED BY <1>2, <2>2, <2>3 DEF Crash, Dgrams
<1>3. CASE Unlink(p)
  <2>1. objects[p] + 1 \in 1 .. MaxObjects
    BY <1>3, RoomForOne DEF Unlink
  <2> QED BY <1>3, <2>1 DEF Unlink, End
<1>4. CASE Stop(p)
  BY <1>0, <1>4 DEF Stop, Upset
<1>5. CASE DestroyClose(p)
  <2>1. Close(p, {m_fd[p]}) /\ {m_fd[p]} \in SUBSET (0 .. 1)
    BY <1>5 DEF DestroyClose
  <2>2. /\ table' \in [Processes -> [0 .. 1 -> Sockets \cup {Free, Stdin}]]
        /\ queue' \in [Sockets -> Seq(Dgrams)]
        /\ lost' \subseteq Dgrams
    BY <2>1, CloseDoes
  <2> QED BY <1>5, <2>2 DEF DestroyClose, Dgrams
<1>6. CASE DestroyUnlink(p)
  BY <1>6 DEF DestroyUnlink, End
<1> QED BY <1>1, <1>2, <1>3, <1>4, <1>5, <1>6 DEF Owner

LEMMA ConstructorTypes ==
  ASSUME LocalAssumption, Inv, NEW p \in Processes, Constructor(p)
  PROVE  TypeOK'
<1> USE DEF Inv, TypeOK, kernel, history, threads
<1>0. Socket(p) \in Sockets /\ MaxUpsets \in Nat /\ upsets \in Nat
  BY DEF Constructor, OpenSocket, Bind, ThreadInv, Socket, Sockets, LocalAssumption
<1>1. CASE OpenSocket(p)
  <2>1. upsets' \in 0 .. MaxUpsets /\ failed' \subseteq Sockets
    BY <1>0, <1>1 DEF OpenSocket, Upset
  <2>2. PICK d \in 0 .. 1 : d = NewDescriptor(p)
    BY DEF NewDescriptor
  <2>3. CASE /\ table' = [table EXCEPT ![p][d] = Socket(p)] /\ m_fd' = [m_fd EXCEPT ![p] = d]
             /\ phase' = [phase EXCEPT ![p] = "bind"] /\ UNCHANGED threads
    <3>1. table' \in [Processes -> [0 .. 1 -> Sockets \cup {Free, Stdin}]]
      BY <1>0, <2>2, <2>3
    <3>2. m_fd' \in [Processes -> 0 .. 1]
      BY <2>2, <2>3
    <3> QED BY <1>1, <2>1, <2>3, <3>1, <3>2 DEF OpenSocket
  <2>4. CASE UNCHANGED <<next, table>> /\ m_fd' = [m_fd EXCEPT ![p] = 0] /\ StartWorker(p)
    <3>1. m_fd' \in [Processes -> 0 .. 1]
      BY <2>4
    <3> QED BY <1>1, <2>1, <2>4, <3>1 DEF OpenSocket, StartWorker
  <2> QED BY <1>1, <2>2, <2>3, <2>4 DEF OpenSocket
<1>2. CASE Bind(p)
  <2>1. upsets' \in 0 .. MaxUpsets /\ failed' \subseteq Sockets
    BY <1>0, <1>2 DEF Bind, Upset
  <2>2. /\ table' \in [Processes -> [0 .. 1 -> Sockets \cup {Free, Stdin}]]
        /\ queue' \in [Sockets -> Seq(Dgrams)]
        /\ lost' \subseteq Dgrams
    <3>1. CASE Close(p, {m_fd[p]})
      <4>1. {m_fd[p]} \in SUBSET (0 .. 1)
        OBVIOUS
      <4> QED BY <3>1, <4>1, CloseDoes
    <3>2. CASE UNCHANGED <<table, queue, lost>>
      BY <3>2 DEF Dgrams
    <3> QED BY <1>2, <3>1, <3>2 DEF Bind
  <2>3. m_fd' \in [Processes -> 0 .. 1]
    <3>1. UNCHANGED m_fd \/ m_fd' = [m_fd EXCEPT ![p] = 0]
      BY <1>2 DEF Bind
    <3>2. CASE UNCHANGED m_fd
      BY <3>2
    <3>3. CASE m_fd' = [m_fd EXCEPT ![p] = 0]
      BY <3>3
    <3> QED BY <3>1, <3>2, <3>3
  <2>4. path' \in [{"parent", "child"} -> Sockets \cup {Free}]
    <3>1. End(p) \in {"parent", "child"}
      BY DEF End
    <3> QED BY <1>0, <1>2, <3>1 DEF Bind
  <2> QED BY <1>2, <2>1, <2>2, <2>3, <2>4 DEF Bind, StartWorker, Dgrams
<1> QED BY <1>1, <1>2 DEF Constructor

\* What read() takes is the front of a queue: a datagram of another process.
LEMMA FrontOfQueue ==
  ASSUME TypeOK, NEW s \in Sockets, queue[s] # <<>>
  PROVE  /\ Head(queue[s]) \in Dgrams /\ Tail(queue[s]) \in Seq(Dgrams)
         /\ Head(queue[s]) = queue[s][1] /\ 1 \in DOMAIN queue[s]
         /\ Len(Tail(queue[s])) = Len(queue[s]) - 1
         /\ \A i \in 1 .. Len(queue[s]) - 1 : Tail(queue[s])[i] = queue[s][i + 1]
<1>1. queue[s] \in Seq(Dgrams)
  BY DEF TypeOK, Dgrams
<1> QED BY <1>1

LEMMA ReaderTypes ==
  ASSUME LocalAssumption, Inv, NEW p \in Processes, Reader(p)
  PROVE  TypeOK'
<1> USE DEF Inv, TypeOK, kernel, history, threads
<1>0. Socket(p) \in Sockets /\ MaxUpsets \in Nat /\ upsets \in Nat
  BY DEF Reader, ReadEnd, ReadData, ReadError, ReadClose, ReadClear, Reads, ThreadInv, Socket, Sockets, LocalAssumption
<1>1. CASE ReadEnd(p)
  BY <1>1 DEF ReadEnd
<1>2. CASE ReadData(p)
  <2> DEFINE d == Head(queue[Socket(p)])
  <2>1. d \in Dgrams /\ Tail(queue[Socket(p)]) \in Seq(Dgrams)
    BY <1>0, <1>2, FrontOfQueue DEF ReadData
  <2>2. d[1] \in Processes /\ d[2] \in 1 .. MaxDatagrams
    BY <2>1 DEF Dgrams
  <2>3. got' = [got EXCEPT ![p][d[1]] = Append(@, d[2])]
    BY <1>2 DEF ReadData
  <2> HIDE DEF d
  <2>4. Append(got[p][d[1]], d[2]) \in Seq(1 .. MaxDatagrams)
    BY <2>2
  <2>5. got' \in [Processes -> [Processes -> Seq(1 .. MaxDatagrams)]]
    BY <2>2, <2>3, <2>4
  <2>6. queue' \in [Sockets -> Seq(Dgrams)]
    BY <1>0, <1>2, <2>1 DEF ReadData, Dgrams
  <2> QED BY <1>2, <2>5, <2>6 DEF ReadData, Dgrams
<1>3. CASE ReadError(p)
  <2>1. upsets' \in 0 .. MaxUpsets /\ failed' \subseteq Sockets
    BY <1>0, <1>3 DEF ReadError, Upset
  <2> QED BY <1>3, <2>1 DEF ReadError
<1>4. CASE ReadClose(p)
  <2>1. Close(p, {m_fd[p]}) /\ {m_fd[p]} \in SUBSET (0 .. 1)
    BY <1>4 DEF ReadClose
  <2>2. /\ table' \in [Processes -> [0 .. 1 -> Sockets \cup {Free, Stdin}]]
        /\ queue' \in [Sockets -> Seq(Dgrams)]
        /\ lost' \subseteq Dgrams
    BY <2>1, CloseDoes
  <2> QED BY <1>4, <2>2 DEF ReadClose, Dgrams
<1>5. CASE ReadClear(p)
  BY <1>5 DEF ReadClear
<1> QED BY <1>1, <1>2, <1>3, <1>4, <1>5 DEF Reader

LEMMA WriterTypes ==
  ASSUME LocalAssumption, Inv, NEW p \in Processes, Writer(p)
  PROVE  TypeOK'
<1> USE DEF Inv, TypeOK, kernel, history, threads
<1>0. Socket(p) \in Sockets /\ MaxUpsets \in Nat /\ upsets \in Nat
  BY DEF Writer, WriteHead, WriteTest, WriteError, WriteRefused, WriteData, ThreadInv, Socket, Sockets, LocalAssumption
<1>1. CASE WriteHead(p)
  BY <1>1 DEF WriteHead
<1>2. CASE WriteTest(p)
  BY <1>2 DEF WriteTest
<1>3. CASE WriteError(p)
  <2>1. upsets' \in 0 .. MaxUpsets /\ failed' \subseteq Sockets
    BY <1>0, <1>3 DEF WriteError, Upset
  <2> QED BY <1>3, <2>1 DEF WriteError
<1>4. CASE WriteRefused(p)
  BY <1>4 DEF WriteRefused
<1>5. CASE WriteData(p)
  <2>1. Target(p) \in Sockets
    BY <1>5 DEF WriteData, Refused, IsOpen
  <2>2. next[p] \in 1 .. MaxDatagrams
    BY <1>5 DEF WriteData, ThreadInv, LocalAssumption
  <2>3. Append(queue[Target(p)], <<p, next[p]>>) \in Seq(Dgrams)
    BY <2>1, <2>2 DEF Dgrams
  <2>4. queue' \in [Sockets -> Seq(Dgrams)]
    BY <1>5, <2>1, <2>3 DEF WriteData, Dgrams
  <2>5. next' \in [Processes -> 1 .. MaxDatagrams + 1]
    BY <1>5, <2>2 DEF WriteData, LocalAssumption
  <2> QED BY <1>5, <2>4, <2>5 DEF WriteData, Dgrams
<1> QED BY <1>1, <1>2, <1>3, <1>4, <1>5 DEF Writer

LEMMA StepTypes == LocalAssumption /\ Inv /\ [Next]_vars => TypeOK'
<1> SUFFICES ASSUME LocalAssumption, Inv, [Next]_vars PROVE TypeOK'
  OBVIOUS
<1>1. CASE UNCHANGED vars
  BY <1>1 DEF Inv, TypeOK, vars, kernel, history, threads
<1>2. CASE Next
  BY <1>2, OwnerTypes, ConstructorTypes, ReaderTypes, WriterTypes DEF Next
<1> QED BY <1>1, <1>2

-----------------------------------------------------------------------------
(***************************************************************************)
(* A step of one process leaves the threads, the object and the            *)
(* descriptors of every other alone.                                       *)
(***************************************************************************)
Step(p) == Begin(p) \/ Crash(p) \/ Owner(p) \/ Constructor(p) \/ Reader(p) \/ Writer(p)

LEMMA Aside ==
  ASSUME TypeOK, NEW p \in Processes, Step(p), NEW q \in Processes, q # p
  PROVE  /\ phase'[q] = phase[q] /\ objects'[q] = objects[q] /\ m_fd'[q] = m_fd[q]
         /\ reader'[q] = reader[q] /\ writer'[q] = writer[q]
         /\ next'[q] = next[q] /\ table'[q] = table[q]
<1> USE DEF TypeOK, kernel, history, threads, Close
<1>1. CASE Begin(p) \/ Crash(p)
  BY <1>1 DEF Begin, Crash
<1>2. CASE Owner(p)
  BY <1>2 DEF Owner, Unlink, Stop, DestroyClose, DestroyUnlink
<1>3. CASE OpenSocket(p)
  BY <1>3 DEF OpenSocket, StartWorker
<1>4. CASE Bind(p)
  BY <1>4 DEF Bind, StartWorker
<1>5. CASE Reader(p)
  BY <1>5 DEF Reader, ReadEnd, ReadData, ReadError, ReadClose, ReadClear
<1>6. CASE Writer(p)
  BY <1>6 DEF Writer, WriteHead, WriteTest, WriteError, WriteRefused, WriteData
<1> QED BY <1>1, <1>2, <1>3, <1>4, <1>5, <1>6 DEF Step, Constructor

\* ThreadInv and NoLeak, of one process.
Tidy(p) ==
  /\ reader[p] # "off" \/ writer[p] # "off" => phase[p] = "up"
  /\ reader[p] = "close" => m_fd[p] # 0
  /\ reader[p] = "clear" => Shut(p)
  /\ phase[p] = "unborn" => table[p][0] = Stdin /\ table[p][1] = Free
  /\ phase[p] \in {"socket", "bind", "up"} => objects[p] > 0
  /\ writer[p] \in {"test", "send"} => next[p] <= MaxDatagrams
  /\ \A d \in 0 .. 1 : Opened(p, d) =>
       table[p][d] = Socket(p) /\ d = m_fd[p] /\ phase[p] \in {"bind", "up"}

LEMMA TidyAll == (\A p \in Processes : Tidy(p)) <=> ThreadInv /\ NoLeak
BY DEF Tidy, ThreadInv, NoLeak

LEMMA TidyOwner ==
  ASSUME LocalAssumption, Inv, NEW p \in Processes, Begin(p) \/ Crash(p) \/ Owner(p)
  PROVE  Tidy(p)'
<1>0. Tidy(p) /\ TypeOK
  BY TidyAll DEF Inv
<1> USE DEF Tidy, TypeOK, kernel, history, threads, Shut, Opened, Socket
<1>1. CASE Begin(p)
  BY <1>0, <1>1 DEF Begin
<1>2. CASE Crash(p)
  <2>1. Close(p, 0 .. 1)
    BY <1>2 DEF Crash
  <2>2. table'[p][0] = Free /\ table'[p][1] = Free
    BY <1>0, <2>1 DEF Close
  <2> QED BY <1>0, <1>2, <2>2, NoSockets DEF Crash
<1>3. CASE Unlink(p)
  BY <1>0, <1>3 DEF Unlink
<1>4. CASE Stop(p)
  BY <1>0, <1>4 DEF Stop
<1>5. CASE DestroyClose(p)
  <2>1. Close(p, {m_fd[p]})
    BY <1>5 DEF DestroyClose
  <2>2. \A d \in 0 .. 1 : table'[p][d] = IF d = m_fd[p] THEN Free ELSE table[p][d]
    BY <1>0, <2>1, ClosesOne
  <2> QED BY <1>0, <1>5, <2>2, NoSockets DEF DestroyClose
<1>6. CASE DestroyUnlink(p)
  BY <1>0, <1>6 DEF DestroyUnlink
<1> QED BY <1>1, <1>2, <1>3, <1>4, <1>5, <1>6 DEF Owner

LEMMA TidyConstructor ==
  ASSUME LocalAssumption, Inv, NEW p \in Processes, Constructor(p)
  PROVE  Tidy(p)'
<1>0. Tidy(p) /\ TypeOK
  BY TidyAll DEF Inv
<1> USE DEF Tidy, TypeOK, kernel, history, threads, Shut, Opened, Socket
<1>1. CASE OpenSocket(p)
  <2>1. PICK d \in 0 .. 1 : d = NewDescriptor(p)
    BY DEF NewDescriptor
  <2>2. CASE /\ table' = [table EXCEPT ![p][d] = Socket(p)] /\ m_fd' = [m_fd EXCEPT ![p] = d]
             /\ phase' = [phase EXCEPT ![p] = "bind"] /\ UNCHANGED threads
    <3>1. \A e \in 0 .. 1 : table'[p][e] = IF e = d THEN Socket(p) ELSE table[p][e]
      BY <1>0, <2>2
    <3> QED BY <1>0, <1>1, <2>2, <3>1 DEF OpenSocket
  <2>3. CASE UNCHANGED <<next, table>> /\ m_fd' = [m_fd EXCEPT ![p] = 0] /\ StartWorker(p)
    BY <1>0, <1>1, <2>3 DEF OpenSocket, StartWorker
  <2> QED BY <1>1, <2>1, <2>2, <2>3 DEF OpenSocket
<1>2. CASE Bind(p)
  <2>1. CASE UNCHANGED <<m_fd, table>>
    BY <1>0, <1>2, <2>1 DEF Bind, StartWorker
  <2>2. CASE Close(p, {m_fd[p]}) /\ m_fd' = [m_fd EXCEPT ![p] = 0]
    <3>1. \A d \in 0 .. 1 : table'[p][d] = IF d = m_fd[p] THEN Free ELSE table[p][d]
      BY <1>0, <2>2, ClosesOne
    <3> QED BY <1>0, <1>2, <2>2, <3>1, NoSockets DEF Bind, StartWorker
  <2> QED BY <1>2, <2>1, <2>2 DEF Bind
<1> QED BY <1>1, <1>2 DEF Constructor

LEMMA TidyThreads ==
  ASSUME LocalAssumption, Inv, NEW p \in Processes, Reader(p) \/ Writer(p)
  PROVE  Tidy(p)'
<1>0. Tidy(p) /\ TypeOK
  BY TidyAll DEF Inv
<1> USE DEF Tidy, TypeOK, kernel, history, threads, Shut, Opened, Socket
<1>1. CASE ReadEnd(p) \/ ReadData(p)
  BY <1>0, <1>1 DEF ReadEnd, ReadData, Reads
<1>5. CASE ReadError(p)
  BY <1>0, <1>5 DEF ReadError, Reads
<1>6. CASE ReadClear(p)
  BY <1>0, <1>6 DEF ReadClear
<1>2. CASE ReadClose(p)
  <2>1. Close(p, {m_fd[p]})
    BY <1>2 DEF ReadClose
  <2>2. \A d \in 0 .. 1 : table'[p][d] = IF d = m_fd[p] THEN Free ELSE table[p][d]
    BY <1>0, <2>1, ClosesOne
  <2> QED BY <1>0, <1>2, <2>2, NoSockets DEF ReadClose
<1>3. CASE WriteHead(p) \/ WriteTest(p) \/ WriteError(p) \/ WriteRefused(p)
  BY <1>0, <1>3 DEF WriteHead, WriteTest, WriteError, WriteRefused
<1>4. CASE WriteData(p)
  BY <1>0, <1>4 DEF WriteData
<1> QED BY <1>1, <1>2, <1>3, <1>4, <1>5, <1>6 DEF Reader, Writer

LEMMA TidyStep ==
  ASSUME LocalAssumption, Inv, NEW p \in Processes, Step(p)
  PROVE  (ThreadInv /\ NoLeak)'
<1>1. Tidy(p)'
  BY TidyOwner, TidyConstructor, TidyThreads DEF Step
<1>2. ASSUME NEW q \in Processes, q # p PROVE Tidy(q)'
  <2>1. Tidy(q) /\ TypeOK
    BY TidyAll DEF Inv
  <2> QED BY <1>2, <2>1, Aside DEF Tidy, Shut, Opened, Socket
<1> QED BY <1>1, <1>2 DEF Tidy, ThreadInv, NoLeak

-----------------------------------------------------------------------------
(***************************************************************************)
(* Paths and queues.                                                       *)
(***************************************************************************)
LEMMA Ends ==
  ASSUME LocalAssumption, NEW p \in Processes, NEW q \in Processes
  PROVE  /\ End(p) \in {"parent", "child"} /\ OtherEnd(p) \in {"parent", "child"}
         /\ Same(p, q) <=> End(p) = End(q)
         /\ q \in Others(p) <=> End(q) = OtherEnd(p)
         /\ q \in Others(p) <=> p \in Others(q)
BY DEF LocalAssumption, Processes, Same, Others, End, OtherEnd

LEMMA PathStep ==
  ASSUME LocalAssumption, Inv, NEW p \in Processes, Step(p)
  PROVE  PathInv'
<1> USE DEF kernel, history, threads
<1>0. path \in [{"parent", "child"} -> Sockets \cup {Free}] /\ End(p) \in {"parent", "child"}
      /\ Socket(p)[1] = p
  BY Ends DEF Inv, TypeOK, Socket
<1>1. \/ UNCHANGED path
      \/ path' = [path EXCEPT ![End(p)] = Free]
      \/ path' = [path EXCEPT ![End(p)] = Socket(p)]
  <2>1. CASE Begin(p) \/ Crash(p)
    BY <2>1 DEF Begin, Crash
  <2>2. CASE Owner(p)
    BY <2>2 DEF Owner, Unlink, Stop, DestroyClose, DestroyUnlink
  <2>3. CASE Constructor(p)
    BY <2>3 DEF Constructor, OpenSocket, Bind
  <2>4. CASE Reader(p)
    BY <2>4 DEF Reader, ReadEnd, ReadData, ReadError, ReadClose, ReadClear
  <2>5. CASE Writer(p)
    BY <2>5 DEF Writer, WriteHead, WriteTest, WriteError, WriteRefused, WriteData
  <2> QED BY <2>1, <2>2, <2>3, <2>4, <2>5 DEF Step
<1>2. \A e \in {"parent", "child"} : path'[e] \in {path[e], Free} \/ (e = End(p) /\ path'[e] = Socket(p))
  BY <1>0, <1>1
<1> QED BY <1>0, <1>2 DEF Inv, PathInv, End

(***************************************************************************)
(* What a step may do with the datagrams on their way.                     *)
(***************************************************************************)
StayPut == UNCHANGED <<queue, got, lost, next>>

Loses(p, D) == Close(p, D) /\ UNCHANGED <<got, next>>

Takes(p) ==
  /\ queue[Socket(p)] # <<>>
  /\ got' = [got EXCEPT ![p][Head(queue[Socket(p)])[1]] = Append(@, Head(queue[Socket(p)])[2])]
  /\ queue' = [queue EXCEPT ![Socket(p)] = Tail(@)]
  /\ UNCHANGED <<table, lost, next, objects>>

Sends(p) ==
  /\ IsOpen(Target(p)) /\ next[p] <= MaxDatagrams
  /\ queue' = [queue EXCEPT ![Target(p)] = Append(@, <<p, next[p]>>)]
  /\ next' = [next EXCEPT ![p] = @ + 1]
  /\ UNCHANGED <<table, got, lost, objects>>

LEMMA FourWays ==
  ASSUME Inv, NEW p \in Processes, Step(p)
  PROVE  \/ StayPut /\ \A q \in Processes, d \in 0 .. 1 : Opened(q, d) => table'[q][d] = table[q][d]
         \/ \E D \in SUBSET (0 .. 1) : Loses(p, D) /\ UNCHANGED objects
         \/ Takes(p) /\ Socket(p) \in Sockets
         \/ Sends(p)
<1> USE DEF StayPut, Loses, kernel, history, threads
<1>0. TypeOK /\ ThreadInv /\ NoLeak
  BY DEF Inv
<1>1. CASE Begin(p)
  BY <1>1 DEF Begin
<1>2. CASE Crash(p)
  <2>1. Loses(p, 0 .. 1) /\ UNCHANGED objects
    BY <1>2 DEF Crash
  <2> QED BY <2>1
<1>3. CASE Unlink(p) \/ Stop(p) \/ DestroyUnlink(p)
  BY <1>3 DEF Unlink, Stop, DestroyUnlink
<1>4. CASE DestroyClose(p)
  <2>1. Loses(p, {m_fd[p]}) /\ UNCHANGED objects
    BY <1>4 DEF DestroyClose
  <2>2. {m_fd[p]} \in SUBSET (0 .. 1)
    BY <1>0 DEF TypeOK
  <2> QED BY <2>1, <2>2
<1>5. CASE OpenSocket(p)
  <2>1. \A d \in 0 .. 1 : ~Opened(p, d)
    BY <1>0, <1>5 DEF OpenSocket, NoLeak
  <2>2. ASSUME NEW q \in Processes, q # p PROVE table'[q] = table[q]
    BY <1>0, <1>5, <2>2, Aside DEF Step, Constructor
  <2>3. StayPut
    BY <1>5 DEF OpenSocket, StartWorker
  <2> QED BY <2>1, <2>2, <2>3
<1>6. CASE Bind(p)
  <2>1. CASE Close(p, {m_fd[p]})
    <3>1. Loses(p, {m_fd[p]}) /\ UNCHANGED objects
      BY <1>6, <2>1 DEF Bind
    <3>2. {m_fd[p]} \in SUBSET (0 .. 1)
      BY <1>0 DEF TypeOK
    <3> QED BY <3>1, <3>2
  <2>2. CASE UNCHANGED <<table, queue, lost>>
    BY <1>6, <2>2 DEF Bind
  <2> QED BY <1>6, <2>1, <2>2 DEF Bind
<1>7. CASE ReadEnd(p) \/ ReadError(p) \/ ReadClear(p)
  BY <1>7 DEF ReadEnd, ReadError, ReadClear
<1>8. CASE ReadData(p)
  <2>1. Takes(p)
    BY <1>8 DEF ReadData, Takes
  <2>2. phase[p] = "up"
    BY <1>0, <1>8 DEF ReadData, Reads, ThreadInv
  <2>3. Socket(p) \in Sockets
    BY <1>0, <2>2 DEF ThreadInv, TypeOK, Socket, Sockets
  <2> QED BY <2>1, <2>3
<1>9. CASE ReadClose(p)
  <2>1. Loses(p, {m_fd[p]}) /\ UNCHANGED objects
    BY <1>9 DEF ReadClose
  <2>2. {m_fd[p]} \in SUBSET (0 .. 1)
    BY <1>0 DEF TypeOK
  <2> QED BY <2>1, <2>2
<1>10. CASE WriteHead(p) \/ WriteTest(p) \/ WriteError(p) \/ WriteRefused(p)
  BY <1>10 DEF WriteHead, WriteTest, WriteError, WriteRefused
<1>11. CASE WriteData(p)
  <2>1. IsOpen(Target(p)) /\ next[p] <= MaxDatagrams
    BY <1>0, <1>11 DEF WriteData, Refused, ThreadInv
  <2> QED BY <1>11, <2>1 DEF WriteData, Sends
<1> QED BY <1>1, <1>2, <1>3, <1>4, <1>5, <1>6, <1>7, <1>8, <1>9, <1>10, <1>11
     DEF Step, Owner, Constructor, Reader, Writer

-----------------------------------------------------------------------------
(***************************************************************************)
(* Where a datagram is: with a receiver, in the queue of a socket, or      *)
(* among the lost.                                                         *)
(***************************************************************************)
Got(q, d) == d[2] \in ToSet(got[q][d[1]])

\* No queue holds a datagram twice.
NoTwins == \A s \in Sockets : \A k, l \in DOMAIN queue[s] : queue[s][k] = queue[s][l] => k = l

LEMMA InAppend ==
  ASSUME NEW S, NEW seq \in Seq(S), NEW e \in S, NEW x
  PROVE  x \in ToSet(Append(seq, e)) <=> x \in ToSet(seq) \/ x = e
<1>1. /\ DOMAIN seq = 1 .. Len(seq) /\ DOMAIN Append(seq, e) = 1 .. Len(seq) + 1 /\ Len(seq) \in Nat
      /\ \A i \in 1 .. Len(seq) : Append(seq, e)[i] = seq[i]
      /\ Append(seq, e)[Len(seq) + 1] = e
  OBVIOUS
<1>2. x \in ToSet(seq) \/ x = e => x \in ToSet(Append(seq, e))
  BY <1>1 DEF ToSet
<1>3. ASSUME x \in ToSet(Append(seq, e)), x # e PROVE x \in ToSet(seq)
  <2>1. PICK i \in 1 .. Len(seq) + 1 : x = Append(seq, e)[i]
    BY <1>1, <1>3 DEF ToSet
  <2>2. i \in 1 .. Len(seq)
    BY <1>1, <1>3, <2>1
  <2> QED BY <1>1, <2>1, <2>2 DEF ToSet
<1> QED BY <1>2, <1>3

LEMMA InTail ==
  ASSUME NEW S, NEW seq \in Seq(S), seq # <<>>, NEW x,
         \A k, l \in DOMAIN seq : seq[k] = seq[l] => k = l
  PROVE  x \in ToSet(Tail(seq)) <=> x \in ToSet(seq) /\ x # Head(seq)
<1>1. /\ DOMAIN seq = 1 .. Len(seq) /\ DOMAIN Tail(seq) = 1 .. Len(seq) - 1 /\ Len(seq) \in Nat \ {0}
      /\ \A i \in 1 .. Len(seq) - 1 : Tail(seq)[i] = seq[i + 1]
      /\ Head(seq) = seq[1]
  OBVIOUS
<1>2. ASSUME x \in ToSet(Tail(seq)) PROVE x \in ToSet(seq) /\ x # Head(seq)
  <2>1. PICK i \in 1 .. Len(seq) - 1 : x = Tail(seq)[i]
    BY <1>1, <1>2 DEF ToSet
  <2>2. i + 1 \in 1 .. Len(seq) /\ x = seq[i + 1] /\ i + 1 # 1 /\ 1 \in 1 .. Len(seq)
    BY <1>1, <2>1
  <2> QED BY <1>1, <2>2 DEF ToSet
<1>3. ASSUME x \in ToSet(seq), x # Head(seq) PROVE x \in ToSet(Tail(seq))
  <2>1. PICK i \in 1 .. Len(seq) : x = seq[i]
    BY <1>1, <1>3 DEF ToSet
  <2>2. i - 1 \in 1 .. Len(seq) - 1 /\ Tail(seq)[i - 1] = seq[i]
    <3>1. i # 1
      BY <1>1, <1>3, <2>1
    <3>2. i - 1 \in 1 .. Len(seq) - 1 /\ (i - 1) + 1 = i
      BY <1>1, <2>1, <3>1
    <3> QED BY <1>1, <3>2
  <2> QED BY <1>1, <2>1, <2>2 DEF ToSet
<1> QED BY <1>2, <1>3

LEMMA LosesMeans ==
  ASSUME TypeOK, NEW p \in Processes, NEW D \in SUBSET (0 .. 1), Loses(p, D)
  PROVE  /\ \A s \in Sockets : queue'[s] = IF s \in Closed(p, D) THEN <<>> ELSE queue[s]
         /\ \A s \in Sockets, d \in Dgrams : Waits(s, d)' <=> Waits(s, d) /\ s \notin Closed(p, D)
         /\ \A d \in Dgrams : d \in lost' <=> d \in lost \/ \E s \in Closed(p, D) : Waits(s, d)
         /\ \A q \in Processes, d \in Dgrams : Got(q, d)' <=> Got(q, d)
         /\ Closed(p, D) \subseteq Sockets
<1>1. /\ \A s \in Sockets : queue'[s] = IF s \in Closed(p, D) THEN <<>> ELSE queue[s]
      /\ \A x : x \in lost' <=> x \in lost \/ \E s \in Closed(p, D) : x \in ToSet(queue[s])
  BY CloseDoes DEF Loses
<1>2. \A x : x \notin ToSet(<<>>)
  BY DEF ToSet
<1>3. \A s \in Sockets, d \in Dgrams : Waits(s, d)' <=> Waits(s, d) /\ s \notin Closed(p, D)
  BY <1>1, <1>2 DEF Waits
<1>4. \A q \in Processes, d \in Dgrams : Got(q, d)' <=> Got(q, d)
  BY DEF Got, Loses
<1> QED BY <1>1, <1>3, <1>4 DEF Waits, Closed

LEMMA TakesMeans ==
  ASSUME TypeOK, NoTwins, NEW p \in Processes, Takes(p), Socket(p) \in Sockets, NEW e, e = Head(queue[Socket(p)])
  PROVE  /\ e \in Dgrams /\ Waits(Socket(p), e)
         /\ \A s \in Sockets, d \in Dgrams : Waits(s, d)' <=> Waits(s, d) /\ ~(s = Socket(p) /\ d = e)
         /\ \A q \in Processes, d \in Dgrams : Got(q, d)' <=> Got(q, d) \/ (q = p /\ d = e)
<1>1. /\ e \in Dgrams /\ e = queue[Socket(p)][1] /\ 1 \in DOMAIN queue[Socket(p)]
      /\ queue[Socket(p)] \in Seq(Dgrams) /\ queue[Socket(p)] # <<>>
  BY FrontOfQueue DEF Takes, TypeOK, Dgrams
<1>2. Waits(Socket(p), e)
  BY <1>1 DEF Waits, ToSet
<1>3. \A s \in Sockets : queue'[s] = IF s = Socket(p) THEN Tail(queue[s]) ELSE queue[s]
  BY DEF Takes, TypeOK
<1>4. \A k, l \in DOMAIN queue[Socket(p)] : queue[Socket(p)][k] = queue[Socket(p)][l] => k = l
  BY DEF NoTwins
<1>5. \A d : d \in ToSet(Tail(queue[Socket(p)])) <=> d \in ToSet(queue[Socket(p)]) /\ d # e
  BY <1>1, <1>4, InTail
<1>6. \A s \in Sockets, d \in Dgrams : Waits(s, d)' <=> Waits(s, d) /\ ~(s = Socket(p) /\ d = e)
  BY <1>3, <1>5 DEF Waits
<1>7. e[1] \in Processes /\ e[2] \in 1 .. MaxDatagrams
  BY <1>1 DEF Dgrams
<1>8. \A q \in Processes, r \in Processes :
        got'[q][r] = IF q = p /\ r = e[1] THEN Append(got[q][r], e[2]) ELSE got[q][r]
  BY <1>7 DEF Takes, TypeOK
<1>10. ASSUME NEW q \in Processes, NEW r \in Processes, NEW x
       PROVE  x \in ToSet(Append(got[q][r], e[2])) <=> x \in ToSet(got[q][r]) \/ x = e[2]
  <2>1. got \in [Processes -> [Processes -> Seq(1 .. MaxDatagrams)]]
    BY DEF TypeOK
  <2> DEFINE N == 1 .. MaxDatagrams
             have == got[q][r]
             new == e[2]
  <2>2. have \in Seq(N) /\ new \in N
    BY <1>7, <2>1
  <2> HIDE DEF N, have, new
  <2>3. x \in ToSet(Append(have, new)) <=> x \in ToSet(have) \/ x = new
    BY <2>2, InAppend
  <2> QED BY <2>3 DEF have, new
<1>9. ASSUME NEW q \in Processes, NEW d \in Dgrams PROVE Got(q, d)' <=> Got(q, d) \/ (q = p /\ d = e)
  <2>1. d[1] \in Processes /\ d[2] \in 1 .. MaxDatagrams /\ (d = e <=> d[1] = e[1] /\ d[2] = e[2])
    BY <1>1 DEF Dgrams
  <2>2. d[2] \in ToSet(Append(got[q][d[1]], e[2])) <=> d[2] \in ToSet(got[q][d[1]]) \/ d[2] = e[2]
    BY <1>10, <2>1
  <2> QED BY <1>8, <2>1, <2>2 DEF Got
<1> QED BY <1>1, <1>2, <1>6, <1>9

LEMMA SendsMeans ==
  ASSUME TypeOK, LocalAssumption, NEW p \in Processes, Sends(p), NEW e, e = <<p, next[p]>>
  PROVE  /\ e \in Dgrams /\ Target(p) \in Sockets
         /\ \A s \in Sockets, d \in Dgrams : Waits(s, d)' <=> Waits(s, d) \/ (s = Target(p) /\ d = e)
         /\ \A q \in Processes, d \in Dgrams : Got(q, d)' <=> Got(q, d)
         /\ \A d \in Dgrams : d[2] < next'[d[1]] <=> d[2] < next[d[1]] \/ d = e
<1>1. next[p] \in 1 .. MaxDatagrams /\ Target(p) \in Sockets
  BY DEF Sends, IsOpen, TypeOK, LocalAssumption
<1>2. e \in Dgrams
  BY <1>1 DEF Dgrams
<1>3. \A s \in Sockets : queue'[s] = IF s = Target(p) THEN Append(queue[s], e) ELSE queue[s]
  BY <1>1 DEF Sends, TypeOK
<1>4. queue[Target(p)] \in Seq(Dgrams)
  BY <1>1 DEF TypeOK, Dgrams
<1>5. \A d : d \in ToSet(Append(queue[Target(p)], e)) <=> d \in ToSet(queue[Target(p)]) \/ d = e
  BY <1>2, <1>4, InAppend
<1>6. \A s \in Sockets, d \in Dgrams : Waits(s, d)' <=> Waits(s, d) \/ (s = Target(p) /\ d = e)
  BY <1>3, <1>5 DEF Waits
<1>7. \A q \in Processes, d \in Dgrams : Got(q, d)' <=> Got(q, d)
  BY DEF Got, Sends
<1>8. ASSUME NEW d \in Dgrams PROVE d[2] < next'[d[1]] <=> d[2] < next[d[1]] \/ d = e
  <2>1. /\ d[1] \in Processes /\ d[2] \in 1 .. MaxDatagrams /\ d[2] \in Nat /\ next[d[1]] \in Nat
        /\ (d = e <=> d[1] = p /\ d[2] = next[p])
    BY <1>1 DEF Dgrams, TypeOK, LocalAssumption
  <2>2. next'[d[1]] = IF d[1] = p THEN next[d[1]] + 1 ELSE next[d[1]]
    BY <2>1 DEF Sends, TypeOK
  <2> QED BY <2>1, <2>2
<1> QED BY <1>1, <1>2, <1>6, <1>7, <1>8

LEMMA QueueStep ==
  ASSUME LocalAssumption, Inv, NoTwins, NEW p \in Processes, Step(p)
  PROVE  QueueInv'
<1>0. TypeOK /\ NoLeak /\ QueueInv
  BY DEF Inv
<1> SUFFICES ASSUME NEW s \in Sockets, NEW d \in Dgrams, Waits(s, d)'
             PROVE  IsOpen(s)' /\ d[1] \in Others(s[1])
  BY DEF QueueInv
<1>1. CASE /\ StayPut
           /\ \A q \in Processes, e \in 0 .. 1 : Opened(q, e) => table'[q][e] = table[q][e]
  <2>1. Waits(s, d)
    BY <1>1 DEF StayPut, Waits
  <2>2. s[1] \in Processes
    BY DEF Sockets
  <2> QED BY <1>0, <1>1, <2>1, <2>2 DEF QueueInv, IsOpen, Opened
<1>2. ASSUME NEW D \in SUBSET (0 .. 1), Loses(p, D) PROVE IsOpen(s)' /\ d[1] \in Others(s[1])
  <2>1. Waits(s, d) /\ s \notin Closed(p, D)
    BY <1>0, <1>2, LosesMeans
  <2>2. PICK e \in 0 .. 1 : table[s[1]][e] = s
    BY <1>0, <2>1 DEF QueueInv, IsOpen
  <2>3. s[1] \in Processes
    BY DEF Sockets
  <2>4. table'[s[1]][e] = s
    BY <1>0, <1>2, <2>1, <2>2, <2>3, CloseDoes DEF Loses, Closed
  <2> QED BY <1>0, <2>1, <2>4 DEF QueueInv, IsOpen
<1>3. CASE Takes(p) /\ Socket(p) \in Sockets
  <2>1. Waits(s, d)
    BY <1>0, <1>3, TakesMeans
  <2> QED BY <1>0, <1>3, <2>1 DEF QueueInv, IsOpen, Takes
<1>4. CASE Sends(p)
  <2>1. Waits(s, d) \/ (s = Target(p) /\ d = <<p, next[p]>>)
    BY <1>0, <1>4, SendsMeans
  <2>2. CASE Waits(s, d)
    BY <1>0, <1>4, <2>2 DEF QueueInv, IsOpen, Sends
  <2>3. CASE s = Target(p) /\ d = <<p, next[p]>>
    <3>1. IsOpen(s) /\ s[1] \in Processes /\ d[1] = p
      BY <1>4, <2>3 DEF Sends, Sockets
    <3>2. End(s[1]) = OtherEnd(p)
      BY <2>3, <3>1, Ends, NoSockets DEF Inv, PathInv, Target
    <3> QED BY <1>4, <3>1, <3>2, Ends DEF IsOpen, Sends
  <2> QED BY <2>1, <2>2, <2>3
<1> QED BY <1>1, <1>2, <1>3, <1>4, FourWays DEF Inv

(***************************************************************************)
(* A datagram is sent when it is in one of the three places, and then in   *)
(* no other.                                                               *)
(***************************************************************************)
PlaceInv == \A d \in Dgrams :
  /\ d[2] < next[d[1]] <=> \/ \E q \in Processes : Got(q, d)
                           \/ \E s \in Sockets : Waits(s, d)
                           \/ d \in lost
  /\ \A q, r \in Processes : Got(q, d) /\ Got(r, d) => q = r
  /\ \A s, t \in Sockets : Waits(s, d) /\ Waits(t, d) => s = t
  /\ \A q \in Processes : Got(q, d) =>
       q \in Others(d[1]) /\ d \notin lost /\ \A s \in Sockets : ~Waits(s, d)
  /\ \A s \in Sockets : Waits(s, d) => d \notin lost

LEMMA PlaceStep ==
  ASSUME LocalAssumption, Inv, NoTwins, PlaceInv, NEW p \in Processes, Step(p)
  PROVE  PlaceInv'
<1>0. TypeOK /\ QueueInv
  BY DEF Inv
<1>1. CASE StayPut
  BY <1>1 DEF StayPut, PlaceInv, Got, Waits
<1>2. ASSUME NEW D \in SUBSET (0 .. 1), Loses(p, D) PROVE PlaceInv'
  <2>1. /\ \A s \in Sockets, d \in Dgrams : Waits(s, d)' <=> Waits(s, d) /\ s \notin Closed(p, D)
        /\ \A d \in Dgrams : d \in lost' <=> d \in lost \/ \E s \in Closed(p, D) : Waits(s, d)
        /\ \A q \in Processes, d \in Dgrams : Got(q, d)' <=> Got(q, d)
        /\ Closed(p, D) \subseteq Sockets
    BY <1>0, <1>2, LosesMeans
  <2>2. UNCHANGED next
    BY <1>2 DEF Loses
  <2> QED BY <2>1, <2>2 DEF PlaceInv
<1>3. CASE Takes(p) /\ Socket(p) \in Sockets
  <2> DEFINE e == Head(queue[Socket(p)])
  <2>1. /\ e \in Dgrams /\ Waits(Socket(p), e)
        /\ \A s \in Sockets, d \in Dgrams : Waits(s, d)' <=> Waits(s, d) /\ ~(s = Socket(p) /\ d = e)
        /\ \A q \in Processes, d \in Dgrams : Got(q, d)' <=> Got(q, d) \/ (q = p /\ d = e)
    BY <1>0, <1>3, TakesMeans
  <2>2. UNCHANGED <<next, lost>>
    BY <1>3 DEF Takes
  <2> HIDE DEF e
  <2>3. e[1] \in Processes /\ p \in Others(e[1])
    <3>1. e[1] \in Processes /\ e[1] \in Others(p)
      BY <1>0, <1>3, <2>1 DEF QueueInv, Socket, Dgrams
    <3> QED BY <3>1, Ends
  <2> QED BY <1>3, <2>1, <2>2, <2>3 DEF PlaceInv
<1>4. CASE Sends(p)
  <2> DEFINE e == <<p, next[p]>>
  <2>1. /\ e \in Dgrams /\ Target(p) \in Sockets
        /\ \A s \in Sockets, d \in Dgrams : Waits(s, d)' <=> Waits(s, d) \/ (s = Target(p) /\ d = e)
        /\ \A q \in Processes, d \in Dgrams : Got(q, d)' <=> Got(q, d)
        /\ \A d \in Dgrams : d[2] < next'[d[1]] <=> d[2] < next[d[1]] \/ d = e
    BY <1>0, <1>4, SendsMeans
  <2>2. UNCHANGED lost
    BY <1>4 DEF Sends
  <2>3. ~(e[2] < next[e[1]])
    BY <1>0 DEF TypeOK, LocalAssumption
  <2> HIDE DEF e
  <2> QED BY <2>1, <2>2, <2>3 DEF PlaceInv
<1> QED BY <1>1, <1>2, <1>3, <1>4, FourWays

LEMMA NoTwinsStep ==
  ASSUME LocalAssumption, Inv, NoTwins, PlaceInv, NEW p \in Processes, Step(p)
  PROVE  NoTwins'
<1>0. TypeOK
  BY DEF Inv
<1>1. CASE StayPut
  BY <1>1 DEF StayPut, NoTwins
<1>2. ASSUME NEW D \in SUBSET (0 .. 1), Loses(p, D) PROVE NoTwins'
  <2>1. \A s \in Sockets : queue'[s] \in {<<>>, queue[s]}
    BY <1>0, <1>2, LosesMeans
  <2> QED BY <2>1 DEF NoTwins
<1>3. CASE Takes(p) /\ Socket(p) \in Sockets
  <2>1. \A s \in Sockets : s # Socket(p) => queue'[s] = queue[s]
    BY <1>0, <1>3 DEF Takes, TypeOK
  <2>2. queue'[Socket(p)] = Tail(queue[Socket(p)]) /\ queue[Socket(p)] # <<>>
    BY <1>0, <1>3 DEF Takes, TypeOK
  <2> DEFINE seq == queue[Socket(p)]
  <2>3. /\ DOMAIN seq = 1 .. Len(seq) /\ DOMAIN Tail(seq) = 1 .. Len(seq) - 1 /\ Len(seq) \in Nat \ {0}
        /\ \A i \in 1 .. Len(seq) - 1 : Tail(seq)[i] = seq[i + 1]
    BY <1>0, <1>3, <2>2 DEF TypeOK
  <2>4. \A k, l \in DOMAIN seq : seq[k] = seq[l] => k = l
    BY <1>3 DEF NoTwins
  <2> HIDE DEF seq
  <2>5. \A k, l \in DOMAIN Tail(seq) : Tail(seq)[k] = Tail(seq)[l] => k = l
    <3> SUFFICES ASSUME NEW k \in 1 .. Len(seq) - 1, NEW l \in 1 .. Len(seq) - 1, seq[k + 1] = seq[l + 1]
                 PROVE  k = l
      BY <2>3
    <3>1. k + 1 \in DOMAIN seq /\ l + 1 \in DOMAIN seq
      BY <2>3
    <3>2. k + 1 = l + 1
      BY <2>4, <3>1
    <3> QED BY <3>2
  <2> QED BY <2>1, <2>2, <2>5 DEF NoTwins, seq
<1>4. CASE Sends(p)
  <2> DEFINE e == <<p, next[p]>>
             seq == queue[Target(p)]
  <2>1. /\ e \in Dgrams /\ Target(p) \in Sockets
    BY <1>0, <1>4, SendsMeans
  <2>2. \A s \in Sockets : queue'[s] = IF s = Target(p) THEN Append(seq, e) ELSE queue[s]
    BY <1>0, <1>4, <2>1 DEF Sends, TypeOK
  <2>3. ~Waits(Target(p), e)
    <3>1. ~(e[2] < next[e[1]])
      BY <1>0 DEF TypeOK, LocalAssumption
    <3> QED BY <2>1, <3>1 DEF PlaceInv
  <2>4. /\ DOMAIN seq = 1 .. Len(seq) /\ DOMAIN Append(seq, e) = 1 .. Len(seq) + 1 /\ Len(seq) \in Nat
        /\ \A i \in 1 .. Len(seq) : Append(seq, e)[i] = seq[i]
        /\ Append(seq, e)[Len(seq) + 1] = e
    BY <1>0, <2>1 DEF TypeOK
  <2>5. \A k, l \in DOMAIN seq : seq[k] = seq[l] => k = l
    BY <2>1 DEF NoTwins
  <2>6. \A k \in DOMAIN seq : seq[k] # e
    BY <2>3 DEF Waits, ToSet
  <2> HIDE DEF e, seq
  <2>7. \A k, l \in DOMAIN Append(seq, e) : Append(seq, e)[k] = Append(seq, e)[l] => k = l
    BY <2>4, <2>5, <2>6
  <2> QED BY <2>2, <2>7 DEF NoTwins
<1> QED BY <1>1, <1>2, <1>3, <1>4, FourWays

LEMMA OneOrNone ==
  ASSUME NEW S, \A x, y \in S : x = y
  PROVE  Cardinality(S) = IF S = {} THEN 0 ELSE 1
<1>1. CASE S = {}
  BY <1>1, FS_EmptySet
<1>2. CASE S # {}
  <2>1. PICK x \in S : S = {x}
    BY <1>2
  <2> QED BY <1>2, <2>1, FS_Singleton
<1> QED BY <1>1, <1>2

LEMMA PlacesCount == PlaceInv => OnePlace
<1> SUFFICES ASSUME PlaceInv, NEW d \in Dgrams
             PROVE  Holders(d) = IF d[2] < next[d[1]] THEN 1 ELSE 0
  BY DEF OnePlace, Dgrams
<1> DEFINE R == {q \in Others(d[1]) : d[2] \in ToSet(got[q][d[1]])}
           S == {s \in Sockets : d \in ToSet(queue[s])}
           L == d \in lost
<1>1. R = {q \in Processes : Got(q, d)}
  BY DEF PlaceInv, Got, Others, Processes
<1>2. S = {s \in Sockets : Waits(s, d)}
  BY DEF Waits
<1>3. (\A x, y \in R : x = y) /\ (\A x, y \in S : x = y)
  BY <1>1, <1>2 DEF PlaceInv
<1>4. /\ d[2] < next[d[1]] <=> R # {} \/ S # {} \/ L
      /\ R # {} => S = {} /\ ~L
      /\ S # {} => ~L
  BY <1>1, <1>2 DEF PlaceInv
<1>5. Holders(d) = Cardinality(R) + Cardinality(S) + (IF L THEN 1 ELSE 0)
  BY DEF Holders
<1> HIDE DEF R, S, L
<1>6. /\ Cardinality(R) = IF R = {} THEN 0 ELSE 1
      /\ Cardinality(S) = IF S = {} THEN 0 ELSE 1
  BY <1>3, OneOrNone
<1>7. CASE d[2] < next[d[1]]
  BY <1>4, <1>5, <1>6, <1>7
<1>8. CASE ~(d[2] < next[d[1]])
  BY <1>4, <1>5, <1>6, <1>8
<1> QED BY <1>7, <1>8

-----------------------------------------------------------------------------
(***************************************************************************)
(* The order of what a receiver has and what waits for it, for every       *)
(* socket rather than its open one: a new one is empty.                    *)
(***************************************************************************)
OrderInv == \A q \in Processes : \A p \in Others(q) :
  /\ \A i, j \in DOMAIN got[q][p] : i < j => got[q][p][i] < got[q][p][j]
  /\ \A s \in Sockets : s[1] = q =>
       /\ \A i \in DOMAIN got[q][p], k \in DOMAIN queue[s] :
            queue[s][k][1] = p => got[q][p][i] < queue[s][k][2]
       /\ \A k, l \in DOMAIN queue[s] :
            k < l /\ queue[s][k][1] = p /\ queue[s][l][1] = p => queue[s][k][2] < queue[s][l][2]

LEMMA OrderShows == TypeOK /\ OrderInv => InOrder
<1> SUFFICES ASSUME TypeOK, OrderInv PROVE InOrder
  OBVIOUS
<1>1. ASSUME NEW q \in Processes, objects[q] # 0 PROVE Socket(q) \in Sockets /\ Socket(q)[1] = q
  BY <1>1 DEF TypeOK, Socket, Sockets
<1>2. DOMAIN <<>> = {}
  OBVIOUS
<1> QED BY <1>1, <1>2 DEF OrderInv, InOrder

LEMMA OrderStep ==
  ASSUME LocalAssumption, Inv, NoTwins, PlaceInv, OrderInv, NEW p \in Processes, Step(p)
  PROVE  OrderInv'
<1>0. TypeOK /\ QueueInv
  BY DEF Inv
<1>1. CASE StayPut
  BY <1>1 DEF StayPut, OrderInv
<1>2. ASSUME NEW D \in SUBSET (0 .. 1), Loses(p, D) PROVE OrderInv'
  <2>1. \A s \in Sockets : queue'[s] \in {<<>>, queue[s]}
    BY <1>0, <1>2, LosesMeans
  <2>2. DOMAIN <<>> = {} /\ UNCHANGED got
    BY <1>2 DEF Loses
  <2> QED BY <2>1, <2>2 DEF OrderInv
<1>3. CASE Takes(p) /\ Socket(p) \in Sockets
  <2> DEFINE seq == queue[Socket(p)]
             rest == Tail(seq)
             e == Head(seq)
  <2>1. /\ \A s \in Sockets : queue'[s] = IF s = Socket(p) THEN rest ELSE queue[s]
        /\ Socket(p)[1] = p /\ seq # <<>>
    BY <1>0, <1>3 DEF Takes, TypeOK, Socket
  <2>2. seq \in Seq(Dgrams)
    BY <1>0, <1>3 DEF TypeOK, Dgrams
  <2>3. /\ DOMAIN seq = 1 .. Len(seq) /\ DOMAIN rest = 1 .. Len(seq) - 1 /\ Len(seq) \in Nat \ {0}
        /\ \A i \in 1 .. Len(seq) - 1 : rest[i] = seq[i + 1]
        /\ e = seq[1] /\ e \in Dgrams
    BY <2>1, <2>2
  <2>4. \A q, r \in Processes : got'[q][r] = IF q = p /\ r = e[1] THEN Append(got[q][r], e[2]) ELSE got[q][r]
    <3>1. e[1] \in Processes
      BY <2>3 DEF Dgrams
    <3> QED BY <1>0, <1>3, <3>1 DEF Takes, TypeOK
  <2>5. \A s \in Sockets : s[1] = p /\ s # Socket(p) => queue[s] = <<>>
    <3> SUFFICES ASSUME NEW s \in Sockets, s[1] = p, queue[s] # <<>> PROVE s = Socket(p)
      OBVIOUS
    <3>1. Head(queue[s]) \in Dgrams /\ Waits(s, Head(queue[s]))
      BY <1>0, FrontOfQueue DEF Waits, ToSet
    <3> QED BY <1>0, <3>1, SocketIsOpen DEF QueueInv, Inv
  <2>6. \A r \in Others(p) : r \in Processes
    BY DEF Others, Processes
  <2> HIDE DEF seq, rest, e
  <2>7. ASSUME NEW r \in Others(p)
        PROVE  /\ \A i, j \in DOMAIN got[p][r] : i < j => got[p][r][i] < got[p][r][j]
               /\ \A i \in DOMAIN got[p][r], k \in DOMAIN seq : seq[k][1] = r => got[p][r][i] < seq[k][2]
               /\ \A k, l \in DOMAIN seq : k < l /\ seq[k][1] = r /\ seq[l][1] = r => seq[k][2] < seq[l][2]
    BY <1>3, <2>1 DEF OrderInv, seq
  <2>8. ASSUME NEW r \in Others(p)
        PROVE  /\ \A i, j \in DOMAIN got'[p][r] : i < j => got'[p][r][i] < got'[p][r][j]
               /\ \A i \in DOMAIN got'[p][r], k \in DOMAIN rest : rest[k][1] = r => got'[p][r][i] < rest[k][2]
               /\ \A k, l \in DOMAIN rest : k < l /\ rest[k][1] = r /\ rest[l][1] = r => rest[k][2] < rest[l][2]
    <3> DEFINE have == got[p][r]
    <3>1. \A k \in DOMAIN rest : k + 1 \in DOMAIN seq /\ rest[k] = seq[k + 1] /\ 1 < k + 1 /\ k \in Nat
      BY <2>3
    <3>2. \A k, l \in DOMAIN rest : k < l /\ rest[k][1] = r /\ rest[l][1] = r => rest[k][2] < rest[l][2]
      <4> SUFFICES ASSUME NEW k \in DOMAIN rest, NEW l \in DOMAIN rest, k < l, rest[k][1] = r, rest[l][1] = r
                   PROVE  rest[k][2] < rest[l][2]
        OBVIOUS
      <4>1. k + 1 < l + 1
        BY <3>1
      <4> QED BY <2>7, <3>1, <4>1
    <3>3. \A i \in DOMAIN have, k \in DOMAIN rest : rest[k][1] = r => have[i] < rest[k][2]
      BY <2>7, <3>1
    <3>4. CASE r # e[1]
      <4>1. got'[p][r] = have
        BY <2>4, <2>6, <3>4
      <4> QED BY <2>7, <3>2, <3>3, <4>1
    <3>5. CASE r = e[1]
      <4>1. got'[p][r] = Append(have, e[2])
        BY <2>4, <2>6, <3>5
      <4>2. have \in Seq(1 .. MaxDatagrams)
        BY <1>0, <2>6 DEF TypeOK
      <4>3. /\ DOMAIN have = 1 .. Len(have) /\ DOMAIN Append(have, e[2]) = 1 .. Len(have) + 1 /\ Len(have) \in Nat
            /\ \A i \in 1 .. Len(have) : Append(have, e[2])[i] = have[i]
            /\ Append(have, e[2])[Len(have) + 1] = e[2]
        BY <4>2
      <4>4. 1 \in DOMAIN seq /\ seq[1] = e
        BY <2>3
      <4>5. \A i \in DOMAIN have : have[i] < e[2]
        BY <2>7, <3>5, <4>4
      <4>6. \A k \in DOMAIN rest : rest[k][1] = r => e[2] < rest[k][2]
        BY <2>7, <3>1, <3>5, <4>4
      <4>7. \A i, j \in DOMAIN have : i < j => have[i] < have[j]
        BY <2>7
      <4> HIDE DEF have
      <4>8. \A i, j \in DOMAIN Append(have, e[2]) : i < j => Append(have, e[2])[i] < Append(have, e[2])[j]
        BY <4>3, <4>5, <4>7
      <4>9. \A i \in DOMAIN Append(have, e[2]), k \in DOMAIN rest :
              rest[k][1] = r => Append(have, e[2])[i] < rest[k][2]
        BY <3>3, <4>3, <4>6
      <4> QED BY <3>2, <4>1, <4>8, <4>9
    <3> QED BY <3>4, <3>5
  <2>9. ASSUME NEW q \in Processes, NEW r \in Others(q)
        PROVE  /\ \A i, j \in DOMAIN got'[q][r] : i < j => got'[q][r][i] < got'[q][r][j]
               /\ \A s \in Sockets : s[1] = q =>
                    /\ \A i \in DOMAIN got'[q][r], k \in DOMAIN queue'[s] :
                         queue'[s][k][1] = r => got'[q][r][i] < queue'[s][k][2]
                    /\ \A k, l \in DOMAIN queue'[s] :
                         k < l /\ queue'[s][k][1] = r /\ queue'[s][l][1] = r
                           => queue'[s][k][2] < queue'[s][l][2]
    <3>0. r \in Processes
      BY DEF Others, Processes
    <3>1. CASE q # p
      <4>1. got'[q][r] = got[q][r]
        BY <2>4, <3>0, <3>1
      <4>2. \A s \in Sockets : s[1] = q => queue'[s] = queue[s]
        BY <2>1, <3>1
      <4> QED BY <4>1, <4>2 DEF OrderInv
    <3>2. CASE q = p
      <4>1. \A s \in Sockets : s[1] = p => queue'[s] = rest \/ queue'[s] = <<>>
        BY <2>1, <2>5
      <4>2. DOMAIN <<>> = {}
        OBVIOUS
      <4> QED BY <2>8, <3>2, <4>1, <4>2
    <3> QED BY <3>1, <3>2
  <2> QED BY <2>9 DEF OrderInv
<1>4. CASE Sends(p)
  <2> DEFINE e == <<p, next[p]>>
             seq == queue[Target(p)]
  <2>1. /\ e \in Dgrams /\ Target(p) \in Sockets
    BY <1>0, <1>4, SendsMeans
  <2>2. \A s \in Sockets : queue'[s] = IF s = Target(p) THEN Append(seq, e) ELSE queue[s]
    BY <1>0, <1>4, <2>1 DEF Sends, TypeOK
  <2>3. /\ DOMAIN seq = 1 .. Len(seq) /\ DOMAIN Append(seq, e) = 1 .. Len(seq) + 1 /\ Len(seq) \in Nat
        /\ \A i \in 1 .. Len(seq) : Append(seq, e)[i] = seq[i]
        /\ Append(seq, e)[Len(seq) + 1] = e
    BY <1>0, <2>1 DEF TypeOK
  <2>4. e[1] = p /\ e[2] = next[p] /\ UNCHANGED got
    BY <1>4 DEF Sends
  <2>5. \A k \in DOMAIN seq : seq[k][1] = p => seq[k][2] < next[p]
    <3> SUFFICES ASSUME NEW k \in DOMAIN seq, seq[k][1] = p PROVE seq[k][2] < next[p]
      OBVIOUS
    <3>1. seq[k] \in Dgrams /\ Waits(Target(p), seq[k])
      BY <1>0, <2>1 DEF TypeOK, Dgrams, Waits, ToSet
    <3> QED BY <2>1, <3>1 DEF PlaceInv
  <2>6. \A q \in Processes : \A i \in DOMAIN got[q][p] : got[q][p][i] < next[p]
    <3> SUFFICES ASSUME NEW q \in Processes, NEW i \in DOMAIN got[q][p] PROVE got[q][p][i] < next[p]
      OBVIOUS
    <3>1. got[q][p] \in Seq(1 .. MaxDatagrams)
      BY <1>0 DEF TypeOK
    <3>2. got[q][p][i] \in 1 .. MaxDatagrams
      BY <3>1
    <3>3. <<p, got[q][p][i]>> \in Dgrams /\ Got(q, <<p, got[q][p][i]>>)
      BY <3>2 DEF Dgrams, Got, ToSet
    <3> QED BY <3>3 DEF PlaceInv
  <2> HIDE DEF e, seq
  <2>7. ASSUME NEW q \in Processes, NEW r \in Others(q), Target(p)[1] = q
        PROVE  /\ \A i \in DOMAIN got[q][r], k \in DOMAIN Append(seq, e) :
                    Append(seq, e)[k][1] = r => got[q][r][i] < Append(seq, e)[k][2]
               /\ \A k, l \in DOMAIN Append(seq, e) :
                    k < l /\ Append(seq, e)[k][1] = r /\ Append(seq, e)[l][1] = r
                      => Append(seq, e)[k][2] < Append(seq, e)[l][2]
    <3>1. /\ \A i \in DOMAIN got[q][r], k \in DOMAIN seq : seq[k][1] = r => got[q][r][i] < seq[k][2]
          /\ \A k, l \in DOMAIN seq : k < l /\ seq[k][1] = r /\ seq[l][1] = r => seq[k][2] < seq[l][2]
      BY <2>1, <2>7 DEF OrderInv, seq
    <3>2. ASSUME NEW i \in DOMAIN got[q][r], NEW k \in DOMAIN Append(seq, e), Append(seq, e)[k][1] = r
          PROVE  got[q][r][i] < Append(seq, e)[k][2]
      BY <2>3, <2>4, <2>6, <3>1, <3>2
    <3>3. ASSUME NEW k \in DOMAIN Append(seq, e), NEW l \in DOMAIN Append(seq, e),
                 k < l, Append(seq, e)[k][1] = r, Append(seq, e)[l][1] = r
          PROVE  Append(seq, e)[k][2] < Append(seq, e)[l][2]
      <4>1. k \in DOMAIN seq /\ Append(seq, e)[k] = seq[k]
        BY <2>3, <3>3
      <4> QED BY <2>3, <2>4, <2>5, <3>1, <3>3, <4>1
    <3> QED BY <3>2, <3>3
  <2>8. ASSUME NEW q \in Processes, NEW r \in Others(q)
        PROVE  /\ \A i, j \in DOMAIN got'[q][r] : i < j => got'[q][r][i] < got'[q][r][j]
               /\ \A s \in Sockets : s[1] = q =>
                    /\ \A i \in DOMAIN got'[q][r], k \in DOMAIN queue'[s] :
                         queue'[s][k][1] = r => got'[q][r][i] < queue'[s][k][2]
                    /\ \A k, l \in DOMAIN queue'[s] :
                         k < l /\ queue'[s][k][1] = r /\ queue'[s][l][1] = r
                           => queue'[s][k][2] < queue'[s][l][2]
    <3>1. got'[q][r] = got[q][r]
      BY <2>4
    <3>2. ASSUME NEW s \in Sockets, s[1] = q
          PROVE  /\ \A i \in DOMAIN got[q][r], k \in DOMAIN queue'[s] :
                      queue'[s][k][1] = r => got[q][r][i] < queue'[s][k][2]
                 /\ \A k, l \in DOMAIN queue'[s] :
                      k < l /\ queue'[s][k][1] = r /\ queue'[s][l][1] = r
                        => queue'[s][k][2] < queue'[s][l][2]
      <4>1. CASE s = Target(p)
        <5>1. queue'[s] = Append(seq, e)
          BY <2>2, <4>1
        <5> QED BY <2>7, <3>2, <4>1, <5>1
      <4>2. CASE s # Target(p)
        <5>1. queue'[s] = queue[s]
          BY <2>2, <4>2
        <5> QED BY <3>2, <5>1 DEF OrderInv
      <4> QED BY <4>1, <4>2
    <3> QED BY <3>1, <3>2 DEF OrderInv
  <2> QED BY <2>8 DEF OrderInv
<1> QED BY <1>1, <1>2, <1>3, <1>4, FourWays

-----------------------------------------------------------------------------
(***************************************************************************)
(* Taking the path over.                                                   *)
(***************************************************************************)
AloneInv == \A p, q \in Living : Same(p, q) /\ p # q => ~alone[p]

\* The path and m_fd of a process that has its end to itself, from the unlink
\* to the destructor; and how descriptor 0 may have come free.
Takeover(p) ==
  /\ phase[p] = "bind" => table[p][m_fd[p]] = Socket(p)
  /\ phase[p] = "up" /\ alone[p] /\ Socket(p) \notin failed =>
       path[End(p)] = Socket(p) /\ table[p][m_fd[p]] = Socket(p)
  /\ phase[p] \in {"socket", "bind"} /\ alone[p] => path[End(p)] = Free
  /\ reader[p] \in {"close", "clear"} => Socket(p) \in failed
  /\ p \in Living /\ alone[p] /\ table[p][0] # Stdin =>
       \E s \in failed : s[1] = p /\ \/ s[2] < objects[p]
                                     \/ s[2] = objects[p] /\ phase[p] \in {"idle", "unlinking"}

TakeInv == \A p \in Processes : Takeover(p)

LEMMA TakeoverShows == LocalAssumption /\ TypeOK /\ NoLeak /\ ThreadInv /\ TakeInv => TakesOver
<1> SUFFICES ASSUME LocalAssumption, TypeOK, NoLeak, ThreadInv, TakeInv, NEW p \in Processes,
                    phase[p] = "up", alone[p], Socket(p) \notin failed
             PROVE  /\ path[End(p)] = Socket(p) /\ IsOpen(Socket(p))
                    /\ m_fd[p] # 0 \/ \E s \in failed : s[1] = p /\ s[2] < objects[p]
  BY DEF TakesOver
<1>1. Takeover(p)
  BY DEF TakeInv
<1>2. Socket(p) \in Sockets /\ Socket(p)[1] = p /\ m_fd[p] \in 0 .. 1
  BY DEF ThreadInv, TypeOK, Socket, Sockets
<1>3. path[End(p)] = Socket(p) /\ IsOpen(Socket(p))
  BY <1>1, <1>2 DEF Takeover, IsOpen
<1>4. ASSUME m_fd[p] = 0 PROVE \E s \in failed : s[1] = p /\ s[2] < objects[p]
  <2>1. table[p][0] = Socket(p)
    BY <1>1, <1>4 DEF Takeover
  <2>2. p \in Living
    BY DEF Living
  <2> QED BY <1>1, <1>2, <2>1, <2>2, NoSockets DEF Takeover
<1> QED BY <1>3, <1>4

\* Only Begin and Crash change who lives, only Begin who is alone.
LEMMA LivesOn ==
  ASSUME TypeOK, NEW p \in Processes, Step(p)
  PROVE  /\ Living' \subseteq Living \cup {p}
         /\ Begin(p) \/ UNCHANGED alone
         /\ p \in Living' \ Living => Begin(p)
         /\ \A q \in Processes : alone'[q] => alone[q]
<1>1. CASE Begin(p)
  BY <1>1 DEF Begin, Living, TypeOK
<1>2. CASE Crash(p)
  BY <1>2 DEF Crash, Living, TypeOK
<1>3. CASE Owner(p)
  BY <1>3 DEF Owner, Unlink, Stop, DestroyClose, DestroyUnlink, Living, TypeOK, history
<1>4. CASE OpenSocket(p)
  BY <1>4 DEF OpenSocket, StartWorker, Living, TypeOK
<1>5. CASE Bind(p)
  BY <1>5 DEF Bind, StartWorker, Living, TypeOK
<1>6. CASE Reader(p)
  BY <1>6 DEF Reader, ReadEnd, ReadData, ReadError, ReadClose, ReadClear, Living, TypeOK, history
<1>7. CASE Writer(p)
  BY <1>7 DEF Writer, WriteHead, WriteTest, WriteError, WriteRefused, WriteData, Living, TypeOK, history
<1> QED BY <1>1, <1>2, <1>3, <1>4, <1>5, <1>6, <1>7 DEF Step, Constructor

LEMMA AloneStep ==
  ASSUME LocalAssumption, TypeOK, AloneInv, NEW p \in Processes, Step(p)
  PROVE  AloneInv'
<1> SUFFICES ASSUME NEW q \in Living', NEW r \in Living', Same(q, r), q # r PROVE ~alone'[q]
  BY DEF AloneInv, Same, Others
<1>0. q \in Processes /\ r \in Processes /\ Same(r, q)
  <2>1. q \in Processes /\ r \in Processes
    BY DEF Living
  <2> QED BY <2>1, Ends
<1>1. CASE q \in Living /\ r \in Living
  BY <1>0, <1>1, LivesOn DEF AloneInv
<1>2. CASE q \notin Living
  <2>1. q = p /\ Begin(p) /\ r \in Living
    BY <1>2, LivesOn
  <2> QED BY <1>0, <2>1 DEF Begin, TypeOK
<1>3. CASE r \notin Living
  <2>1. r = p /\ Begin(p) /\ q \in Living
    BY <1>3, LivesOn
  <2> QED BY <1>0, <2>1 DEF Begin, TypeOK
<1> QED BY <1>1, <1>2, <1>3

\* Another process touches neither the path of one that is alone nor what is
\* remembered of its failures.
LEMMA PathAside ==
  ASSUME LocalAssumption, TypeOK, AloneInv, NEW p \in Processes, Step(p),
         NEW q \in Living, q # p, alone[q]
  PROVE  path'[End(q)] = path[End(q)]
<1>1. p \in Living => End(p) # End(q)
  BY Ends DEF AloneInv, Living
<1>2. path \in [{"parent", "child"} -> Sockets \cup {Free}] /\ End(p) \in {"parent", "child"} /\ End(q) \in {"parent", "child"}
  BY Ends DEF TypeOK, Living
<1> USE DEF kernel, history, threads
<1>3. CASE Begin(p) \/ Crash(p)
  BY <1>3 DEF Begin, Crash
<1>4. CASE Owner(p)
  BY <1>1, <1>2, <1>4 DEF Owner, Unlink, Stop, DestroyClose, DestroyUnlink, Living
<1>5. CASE Constructor(p)
  BY <1>1, <1>2, <1>5 DEF Constructor, OpenSocket, Bind, Living
<1>6. CASE Reader(p)
  BY <1>6 DEF Reader, ReadEnd, ReadData, ReadError, ReadClose, ReadClear
<1>7. CASE Writer(p)
  BY <1>7 DEF Writer, WriteHead, WriteTest, WriteError, WriteRefused, WriteData
<1> QED BY <1>3, <1>4, <1>5, <1>6, <1>7 DEF Step

LEMMA FailuresStay ==
  ASSUME NEW p \in Processes, Step(p)
  PROVE  failed' \in {failed, failed \cup {Socket(p)}}
<1> USE DEF kernel, history, threads
<1>1. CASE Begin(p) \/ Crash(p)
  BY <1>1 DEF Begin, Crash
<1>2. CASE Owner(p)
  BY <1>2 DEF Owner, Unlink, Stop, DestroyClose, DestroyUnlink
<1>3. CASE Constructor(p)
  BY <1>3 DEF Constructor, OpenSocket, Bind
<1>4. CASE Reader(p)
  BY <1>4 DEF Reader, ReadEnd, ReadData, ReadError, ReadClose, ReadClear
<1>5. CASE Writer(p)
  BY <1>5 DEF Writer, WriteHead, WriteTest, WriteError, WriteRefused, WriteData
<1> QED BY <1>1, <1>2, <1>3, <1>4, <1>5 DEF Step

LEMMA TakeoverAside ==
  ASSUME LocalAssumption, Inv, AloneInv, NEW p \in Processes, Step(p),
         NEW q \in Processes, q # p, Takeover(q)
  PROVE  Takeover(q)'
<1>0. TypeOK
  BY DEF Inv
<1>1. /\ phase'[q] = phase[q] /\ objects'[q] = objects[q] /\ m_fd'[q] = m_fd[q]
      /\ reader'[q] = reader[q] /\ table'[q] = table[q]
  BY <1>0, Aside
<1>2. (q \in Living)' <=> q \in Living
  BY <1>1 DEF Living
<1>3. alone'[q] => alone[q]
  BY <1>0, LivesOn
<1>4. q \in Living /\ alone[q] => path'[End(q)] = path[End(q)]
  BY <1>0, PathAside
<1>5. failed \subseteq failed' /\ Socket(q)' = Socket(q) /\ (Socket(q) \in failed' <=> Socket(q) \in failed)
  BY <1>1, FailuresStay DEF Socket
<1>6. phase[q] \in {"socket", "bind", "up"} => q \in Living
  BY DEF Living
<1> QED BY <1>1, <1>2, <1>3, <1>4, <1>5, <1>6 DEF Takeover

LEMMA TakeoverProcess ==
  ASSUME LocalAssumption, Inv, NEW p \in Processes, Takeover(p), Begin(p) \/ Crash(p) \/ Owner(p)
  PROVE  Takeover(p)'
<1>0. TypeOK /\ Tidy(p) /\ End(p) \in {"parent", "child"} /\ Socket(p) = <<p, objects[p]>>
  BY TidyAll, Ends DEF Inv, Socket
<1> USE DEF Takeover, TypeOK, Living, kernel, history, threads
<1>1. CASE Begin(p)
  BY <1>0, <1>1 DEF Begin, Tidy
<1>2. CASE Crash(p)
  BY <1>0, <1>2 DEF Crash
<1>3. CASE Unlink(p)
  <2>1. /\ phase'[p] = "socket" /\ objects'[p] = objects[p] + 1 /\ path'[End(p)] = Free
        /\ reader'[p] = "off" /\ table'[p] = table[p] /\ alone'[p] = alone[p] /\ failed' = failed
    BY <1>0, <1>3 DEF Unlink, Tidy
  <2>2. objects[p] \in Nat /\ \A s \in failed : s[2] \in Nat
    BY <1>0 DEF Sockets, LocalAssumption
  <2>3. p \in Living
    BY <1>3 DEF Unlink
  <2> QED BY <1>0, <2>1, <2>2, <2>3
<1>4. CASE Stop(p)
  BY <1>0, <1>4 DEF Stop, Socket
<1>5. CASE DestroyClose(p)
  <2>1. Close(p, {m_fd[p]}) /\ phase[p] = "up" /\ reader[p] = "off" /\ p \in Living
    BY <1>5 DEF DestroyClose
  <2>2. \A d \in 0 .. 1 : table'[p][d] = IF d = m_fd[p] THEN Free ELSE table[p][d]
    BY <1>0, <2>1, ClosesOne
  <2>3. /\ phase'[p] = "unlinking" /\ objects'[p] = objects[p] /\ reader'[p] = "off"
        /\ alone'[p] = alone[p] /\ failed' = failed
    BY <1>0, <1>5, <2>1 DEF DestroyClose
  <2>4. ASSUME alone[p], table'[p][0] # Stdin
        PROVE  \E s \in failed : s[1] = p /\ (s[2] < objects[p] \/ s[2] = objects[p])
    <3>1. CASE table[p][0] # Stdin
      BY <2>1, <2>4, <3>1
    <3>2. CASE table[p][0] = Stdin
      <4>1. m_fd[p] = 0
        BY <2>2, <2>4, <3>2
      <4>2. Socket(p) \in failed
        <5>1. Socket(p) \in Sockets
          BY <1>0, <2>1 DEF Tidy, Sockets
        <5> QED BY <2>1, <2>4, <3>2, <4>1, <5>1, NoSockets
      <4>3. Socket(p)[1] = p /\ Socket(p)[2] = objects[p]
        BY <1>0
      <4> QED BY <4>2, <4>3
    <3> QED BY <3>1, <3>2
  <2> QED BY <2>3, <2>4
<1>6. CASE DestroyUnlink(p)
  BY <1>0, <1>6 DEF DestroyUnlink, Tidy
<1> QED BY <1>1, <1>2, <1>3, <1>4, <1>5, <1>6 DEF Owner

LEMMA TakeoverConstructor ==
  ASSUME LocalAssumption, Inv, NEW p \in Processes, Takeover(p), Constructor(p)
  PROVE  Takeover(p)'
<1>0. TypeOK /\ Tidy(p) /\ End(p) \in {"parent", "child"} /\ Socket(p)' = Socket(p) /\ Socket(p) \in Sockets
  <2>1. TypeOK /\ Tidy(p) /\ End(p) \in {"parent", "child"}
    BY TidyAll, Ends DEF Inv
  <2>2. objects[p] > 0 /\ UNCHANGED objects
    BY <2>1 DEF Tidy, Constructor, OpenSocket, Bind
  <2>3. objects[p] \in 1 .. MaxObjects
    BY <2>1, <2>2 DEF TypeOK, LocalAssumption
  <2> QED BY <2>1, <2>2, <2>3 DEF Socket, Sockets
<1> USE DEF Takeover, TypeOK, Living, kernel, history, threads
<1>1. CASE OpenSocket(p)
  <2>1. PICK d \in 0 .. 1 : d = NewDescriptor(p)
    BY DEF NewDescriptor
  <2>2. /\ phase[p] = "socket" /\ p \in Living /\ path' = path /\ alone' = alone /\ UNCHANGED objects
        /\ reader[p] = "off"
    BY <1>0, <1>1 DEF OpenSocket, Tidy
  <2>3. CASE /\ table' = [table EXCEPT ![p][d] = Socket(p)] /\ m_fd' = [m_fd EXCEPT ![p] = d]
             /\ phase' = [phase EXCEPT ![p] = "bind"] /\ UNCHANGED <<threads, failed>>
    <3>1. \A e \in 0 .. 1 : table'[p][e] = IF e = d THEN Socket(p) ELSE table[p][e]
      BY <1>0, <2>3
    <3>2. m_fd'[p] = d /\ phase'[p] = "bind" /\ reader'[p] = "off" /\ failed' = failed
      BY <1>0, <2>2, <2>3
    <3>3. ASSUME table'[p][0] # Stdin PROVE table[p][0] # Stdin
      BY <2>1, <3>1, <3>3, NoSockets DEF NewDescriptor
    <3> QED BY <1>0, <2>2, <3>1, <3>2, <3>3
  <2>4. CASE /\ UNCHANGED <<next, table>> /\ StartWorker(p)
             /\ failed' = failed \cup {Socket(p)}
    <3>1. /\ table'[p] = table[p] /\ phase'[p] = "up" /\ reader'[p] = "recv" /\ Socket(p) \in failed'
          /\ failed \subseteq failed'
      BY <1>0, <2>4 DEF StartWorker
    <3> QED BY <1>0, <2>2, <3>1
  <2> QED BY <1>1, <2>1, <2>3, <2>4 DEF OpenSocket
<1>2. CASE Bind(p)
  <2>1. /\ phase[p] = "bind" /\ p \in Living /\ alone' = alone /\ UNCHANGED objects
        /\ phase'[p] = "up" /\ reader'[p] = "recv"
    BY <1>0, <1>2 DEF Bind, StartWorker
  <2>2. CASE path' = [path EXCEPT ![End(p)] = Socket(p)] /\ UNCHANGED <<m_fd, table, failed>>
    BY <1>0, <2>1, <2>2
  <2>3. CASE /\ Close(p, {m_fd[p]}) /\ UNCHANGED path
             /\ path[End(p)] = Free => failed' = failed \cup {Socket(p)}
             /\ path[End(p)] # Free => failed' = failed
    <3>1. \A d \in 0 .. 1 : table'[p][d] = IF d = m_fd[p] THEN Free ELSE table[p][d]
      BY <1>0, <2>3, ClosesOne
    <3>2. table'[p][0] # Stdin => table[p][0] # Stdin
      BY <1>0, <2>1, <3>1, NoSockets
    <3>3. alone[p] => Socket(p) \in failed'
      BY <2>1, <2>3
    <3>4. failed \subseteq failed'
      BY <2>3
    <3> QED BY <1>0, <2>1, <3>2, <3>3, <3>4
  <2> QED BY <1>2, <2>2, <2>3 DEF Bind
<1> QED BY <1>1, <1>2 DEF Constructor

LEMMA TakeoverThreads ==
  ASSUME LocalAssumption, Inv, NEW p \in Processes, Takeover(p), Reader(p) \/ Writer(p)
  PROVE  Takeover(p)'
<1>0. TypeOK /\ Tidy(p) /\ phase[p] = "up" /\ p \in Living
  <2>1. TypeOK /\ Tidy(p)
    BY TidyAll DEF Inv
  <2>2. phase[p] = "up"
    BY <2>1 DEF Tidy, Reader, Writer, ReadEnd, ReadData, ReadError, ReadClose, ReadClear, Reads,
                WriteHead, WriteTest, WriteError, WriteRefused, WriteData
  <2> QED BY <2>1, <2>2 DEF Living
<1> USE DEF Takeover, TypeOK, Living, Socket, kernel, history, threads
<1>1. CASE ReadEnd(p) \/ ReadData(p)
  BY <1>0, <1>1 DEF ReadEnd, ReadData, Reads
<1>2. CASE ReadError(p)
  BY <1>0, <1>2 DEF ReadError
<1>3. CASE ReadClose(p)
  <2>1. Close(p, {m_fd[p]}) /\ reader[p] = "close" /\ reader'[p] = "clear" /\ m_fd[p] # 0
    BY <1>0, <1>3 DEF ReadClose, Tidy
  <2>2. \A d \in 0 .. 1 : table'[p][d] = IF d = m_fd[p] THEN Free ELSE table[p][d]
    BY <1>0, <2>1, ClosesOne
  <2>3. UNCHANGED <<phase, objects, m_fd, path, alone, failed>>
    BY <1>3 DEF ReadClose
  <2> QED BY <1>0, <2>1, <2>2, <2>3
<1>4. CASE ReadClear(p)
  <2>1. reader[p] = "clear" /\ reader'[p] = "off" /\ UNCHANGED <<phase, objects, table, path, alone, failed>>
    BY <1>0, <1>4 DEF ReadClear
  <2> QED BY <1>0, <2>1
<1>5. CASE WriteHead(p) \/ WriteTest(p) \/ WriteRefused(p) \/ WriteData(p)
  BY <1>0, <1>5 DEF WriteHead, WriteTest, WriteRefused, WriteData
<1>6. CASE WriteError(p)
  BY <1>0, <1>6 DEF WriteError
<1> QED BY <1>1, <1>2, <1>3, <1>4, <1>5, <1>6 DEF Reader, Writer

LEMMA TakeStep ==
  ASSUME LocalAssumption, Inv, AloneInv, TakeInv, NEW p \in Processes, Step(p)
  PROVE  TakeInv'
<1>1. Takeover(p)'
  BY TakeoverProcess, TakeoverConstructor, TakeoverThreads DEF TakeInv, Step
<1>2. ASSUME NEW q \in Processes, q # p PROVE Takeover(q)'
  BY <1>2, TakeoverAside DEF TakeInv
<1> QED BY <1>1, <1>2 DEF TakeInv

-----------------------------------------------------------------------------
(***************************************************************************)
(* The inductive invariant, and what it shows.                             *)
(***************************************************************************)
IInv == Inv /\ NoTwins /\ PlaceInv /\ OrderInv /\ AloneInv /\ TakeInv

LEMMA IInvInit == LocalAssumption /\ Init => IInv
<1> SUFFICES ASSUME LocalAssumption, Init PROVE IInv
  OBVIOUS
<1>1. TypeOK
  BY TypeInit
<1>2. /\ \A p \in Processes :
           /\ phase[p] = "unborn" /\ objects[p] = 0 /\ reader[p] = "off" /\ writer[p] = "off"
           /\ table[p][0] = Stdin /\ table[p][1] = Free /\ next[p] = 1
      /\ \A e \in {"parent", "child"} : path[e] = Free
      /\ \A s \in Sockets : queue[s] = <<>>
      /\ \A q, p \in Processes : got[q][p] = <<>>
      /\ lost = {}
  BY DEF Init
<1>3. DOMAIN <<>> = {} /\ \A x : x \notin ToSet(<<>>)
  BY DEF ToSet
<1>4. ThreadInv /\ NoLeak
  BY <1>2, NoSockets DEF ThreadInv, NoLeak, Opened
<1>5. PathInv /\ QueueInv /\ NoTwins
  BY <1>2, <1>3 DEF PathInv, QueueInv, NoTwins, Waits
<1>6. PlaceInv
  <2> SUFFICES ASSUME NEW d \in Dgrams
               PROVE  /\ ~(d[2] < next[d[1]]) /\ d \notin lost
                      /\ \A q \in Processes : ~Got(q, d)
                      /\ \A s \in Sockets : ~Waits(s, d)
    BY DEF PlaceInv
  <2>1. d[1] \in Processes /\ d[2] \in 1 .. MaxDatagrams
    BY DEF Dgrams
  <2>2. ~(d[2] < next[d[1]])
    BY <1>2, <2>1 DEF LocalAssumption
  <2> QED BY <1>2, <1>3, <2>1, <2>2 DEF Got, Waits
<1>7. OrderInv
  <2>1. \A q \in Processes : Others(q) \subseteq Processes
    BY DEF Others, Processes
  <2> QED BY <1>2, <1>3, <2>1 DEF OrderInv
<1>8. AloneInv /\ TakeInv
  BY <1>2 DEF AloneInv, TakeInv, Takeover, Living
<1> QED BY <1>1, <1>4, <1>5, <1>6, <1>7, <1>8 DEF IInv, Inv

LEMMA IInvStep == LocalAssumption /\ IInv /\ [Next]_vars => IInv'
<1> SUFFICES ASSUME LocalAssumption, IInv, [Next]_vars PROVE IInv'
  OBVIOUS
<1>1. ASSUME NEW p \in Processes, Step(p) PROVE IInv'
  <2>1. TypeOK'
    BY <1>1, StepTypes DEF IInv, Next, Step
  <2>2. (ThreadInv /\ NoLeak)' /\ PathInv' /\ QueueInv'
    BY <1>1, TidyStep, PathStep, QueueStep DEF IInv
  <2>3. NoTwins' /\ PlaceInv' /\ OrderInv'
    BY <1>1, NoTwinsStep, PlaceStep, OrderStep DEF IInv
  <2>4. AloneInv' /\ TakeInv'
    BY <1>1, AloneStep, TakeStep DEF IInv, Inv
  <2> QED BY <2>1, <2>2, <2>3, <2>4 DEF IInv, Inv
<1>2. CASE UNCHANGED vars
  <2> USE <1>2 DEF vars, kernel, history, threads, IInv, Inv
  <2>1. TypeOK' /\ ThreadInv'
    BY DEF TypeOK, ThreadInv, Opened, Shut
  <2>2. NoLeak' /\ PathInv'
    BY DEF NoLeak, PathInv, Opened, Socket
  <2>3. QueueInv' /\ NoTwins' /\ PlaceInv'
    BY DEF QueueInv, NoTwins, PlaceInv, Waits, IsOpen, Got
  <2>4. OrderInv'
    BY DEF OrderInv
  <2>5. AloneInv' /\ TakeInv'
    BY DEF AloneInv, TakeInv, Takeover, Living, Socket
  <2> QED BY <2>1, <2>2, <2>3, <2>4, <2>5
<1> QED BY <1>1, <1>2 DEF Next, Step

LEMMA SpecIInv == ASSUME LocalAssumption PROVE Spec => []IInv
BY IInvInit, IInvStep, PTL DEF Spec

\* Every variable of the two ends keeps its type: m_fd is 0 or a descriptor,
\* a thread stands at one of its steps, and queues hold datagrams.
THEOREM TypeCorrect == Spec => []TypeOK
<1>1. IInv => TypeOK
  BY DEF IInv, Inv
<1> QED BY <1>1, LocalAssumption, SpecIInv, PTL

\* Whichever of init_socket, read() and the destructor closes a socket, none
\* stays open behind the back of m_fd.
THEOREM NoDescriptorLeaks == Spec => []NoLeak
<1>1. IInv => NoLeak
  BY DEF IInv, Inv
<1> QED BY <1>1, LocalAssumption, SpecIInv, PTL

\* What write() reported as sent was received once, waits once, or was lost
\* with the socket it waited in; what it did not is nowhere.
THEOREM EachDatagramInOnePlace == Spec => []OnePlace
<1>1. IInv => OnePlace
  BY PlacesCount DEF IInv
<1> QED BY <1>1, LocalAssumption, SpecIInv, PTL

\* A receiver gets the datagrams of a sender in the order they were put.
THEOREM ReceivedInOrder == Spec => []InOrder
<1>1. IInv => InOrder
  BY OrderShows DEF IInv, Inv
<1> QED BY <1>1, LocalAssumption, SpecIInv, PTL

\* A process that has its end to itself gets the path its predecessor left.
THEOREM PathIsTakenOver == Spec => []TakesOver
<1>1. LocalAssumption /\ IInv => TakesOver
  BY TakeoverShows DEF IInv, Inv
<1> QED BY <1>1, LocalAssumption, SpecIInv, PTL
=============================================================================

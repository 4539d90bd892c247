---------------------------- MODULE LocalSocket ----------------------------
(***************************************************************************)
(* Two ends of a pair of Unix datagram sockets: parent processes and child *)
(* processes, each with a LocalSocket that reads at the path of its end    *)
(* and writes to the path of the other.  A process may be killed and       *)
(* another one take over its end, at once or while the first still runs.   *)
(* In a process the owner creates a LocalSocket, a LocalSocketWorker's     *)
(* read and write thread call it, and the owner destroys it when both      *)
(* threads have ended, and may then create the next.                       *)
(*                                                                         *)
(* reader[p] and writer[p] are where the threads stand:                    *)
(*   off    not running                                                    *)
(*   recv   in the loop around read()                                      *)
(*   close, clear   in the error path of read()                            *)
(*   head   at the condition of the write thread's loop                    *)
(*   test, send   in write(), at its test of m_fd and at sendto            *)
(***************************************************************************)
EXTENDS Naturals, Sequences, FiniteSets, SequencesExt

CONSTANTS
  Parents, Children, (* the processes of the two ends                      *)
  Senders,           (* bound: the owner of one of them puts datagrams     *)
  MaxDatagrams,      (* bound: how many                                    *)
  QueueLength,       (* of a socket in the kernel (max_dgram_qlen)         *)
  MaxObjects,        (* bound: LocalSockets created                        *)
  MaxUpsets,         (* bound: processes killed, workers asked to stop and *)
                     (* calls that fail without the peer's doing           *)
  Free, Stdin        (* descriptors: not open, and the standard input      *)

Processes == Parents \cup Children
Others(p) == IF p \in Parents THEN Children ELSE Parents
Same(p, q) == q \notin Others(p)

\* The k-th socket of process p.
Sockets == Processes \X (1 .. MaxObjects)

ASSUME LocalAssumption ==
  /\ Parents \cap Children = {} /\ IsFiniteSet(Processes)
  /\ Senders \subseteq Processes
  /\ {MaxDatagrams, MaxUpsets} \subseteq Nat
  /\ {QueueLength, MaxObjects} \subseteq Nat \ {0}
  /\ Free # Stdin /\ {Free, Stdin} \cap Sockets = {}

VARIABLES
  phase,    (* of the process: "unborn", "idle" (without a LocalSocket), the *)
            (* steps of init_socket, "up", "unlinking", "dead"             *)
  objects,  (* LocalSockets it has created                                 *)
  m_fd,
  reader, writer,
  m_stop_asked,
  next,     (* the front of its queue for writing, datagrams 1 to          *)
            (* MaxDatagrams                                                *)
  table,    (* kernel: the descriptors of a process                        *)
  path,     (* kernel: the socket a process of this end has bound last, or *)
            (* Free without a file                                         *)
  queue,    (* kernel: what waits in a socket                              *)
  upsets,
  got,      (* got[q][p]: what q has received from p                       *)
  lost,     (* what was in a queue when its socket was closed              *)
  alone,    (* no other process of the end lived beside this one           *)
  failed,   (* the sockets a call of which has failed                      *)
  sender    (* the process whose owner puts datagrams                      *)

kernel == <<table, path, queue>>
history == <<got, lost, alone, failed, sender>>
threads == <<reader, writer, m_stop_asked, next>>
vars == <<phase, objects, m_fd, threads, kernel, upsets, history>>

End(p) == IF p \in Parents THEN "parent" ELSE "child"
OtherEnd(p) == IF p \in Parents THEN "child" ELSE "parent"

Init ==
  /\ phase = [p \in Processes |-> "unborn"]
  /\ objects = [p \in Processes |-> 0]
  /\ m_fd = [p \in Processes |-> 0]
  /\ reader = [p \in Processes |-> "off"]
  /\ writer = [p \in Processes |-> "off"]
  /\ m_stop_asked = [p \in Processes |-> FALSE]
  /\ next = [p \in Processes |-> 1]
  /\ table = [p \in Processes |-> [d \in 0 .. 1 |-> IF d = 0 THEN Stdin ELSE Free]]
  /\ path = [e \in {"parent", "child"} |-> Free]
  /\ queue = [s \in Sockets |-> <<>>]
  /\ upsets = 0
  /\ got = [q \in Processes |-> [p \in Processes |-> <<>>]]
  /\ lost = {}
  /\ alone = [p \in Processes |-> TRUE]
  /\ failed = {}
  /\ sender \in Senders

-----------------------------------------------------------------------------
(***************************************************************************)
(* The kernel.  A closed socket takes what waits in it along, but not its  *)
(* file: a path may lead to a socket that is no more.                      *)
(***************************************************************************)
Socket(p) == <<p, objects[p]>>
IsOpen(s) == s \in Sockets /\ \E d \in 0 .. 1 : table[s[1]][d] = s
Opened(p, d) == table[p][d] \in Sockets

\* The lowest free descriptor.
NewDescriptor(p) == IF table[p][0] = Free THEN 0 ELSE 1

Close(p, D) ==
  LET closed == {table[p][d] : d \in D} \cap Sockets IN
  /\ table' = [table EXCEPT ![p] = [d \in 0 .. 1 |-> IF d \in D THEN Free ELSE @[d]]]
  /\ queue' = [s \in Sockets |-> IF s \in closed THEN <<>> ELSE queue[s]]
  /\ lost' = lost \cup UNION {ToSet(queue[s]) : s \in closed}

Upset == upsets < MaxUpsets /\ upsets' = upsets + 1

-----------------------------------------------------------------------------
(***************************************************************************)
(* Processes.  A killed one, or a subprocess that leaves by exit(0), runs  *)
(* no destructor: its path stays.                                          *)
(***************************************************************************)
Living == {p \in Processes : phase[p] \notin {"unborn", "dead"}}

Begin(p) ==
  /\ phase[p] = "unborn"
  /\ phase' = [phase EXCEPT ![p] = "idle"]
  /\ LET twins == {q \in Living : Same(p, q)} IN
     alone' = [q \in Processes |-> alone[q] /\ ~(twins # {} /\ q \in twins \cup {p})]
  /\ UNCHANGED <<objects, m_fd, threads, kernel, upsets, got, lost, failed, sender>>

Crash(p) ==
  /\ p \in Living
  /\ Upset
  /\ phase' = [phase EXCEPT ![p] = "dead"]
  /\ reader' = [reader EXCEPT ![p] = "off"]
  /\ writer' = [writer EXCEPT ![p] = "off"]
  /\ Close(p, 0 .. 1)
  /\ UNCHANGED <<objects, m_fd, m_stop_asked, next, path, got, alone, failed, sender>>

-----------------------------------------------------------------------------
(***************************************************************************)
(* init_socket, and the start of the worker behind it.                     *)
(***************************************************************************)
Created == {s \in Sockets : s[2] <= objects[s[1]]}

\* Mutant: the path of an earlier process is left alone.
UnlinkNot(p) ==
  /\ phase[p] = "idle"
  /\ Cardinality(Created) < MaxObjects
  /\ objects' = [objects EXCEPT ![p] = @ + 1]
  /\ phase' = [phase EXCEPT ![p] = "socket"]
  /\ UNCHANGED <<m_fd, threads, kernel, upsets, history>>

Unlink(p) ==
  /\ phase[p] = "idle"
  /\ Cardinality(Created) < MaxObjects
  /\ objects' = [objects EXCEPT ![p] = @ + 1]
  /\ path' = [path EXCEPT ![End(p)] = Free]
  /\ phase' = [phase EXCEPT ![p] = "socket"]
  /\ UNCHANGED <<m_fd, threads, table, queue, upsets, history>>

StartWorker(p) ==
  /\ phase' = [phase EXCEPT ![p] = "up"]
  /\ reader' = [reader EXCEPT ![p] = "recv"]
  /\ writer' = [writer EXCEPT ![p] = "head"]
  /\ m_stop_asked' = [m_stop_asked EXCEPT ![p] = FALSE]

\* Mutant: m_fd keeps what socket() returned, no descriptor.
OpenSocketKeeps(p) ==
  /\ phase[p] = "socket"
  /\ \/ /\ m_fd' = [m_fd EXCEPT ![p] = NewDescriptor(p)]
        /\ table' = [table EXCEPT ![p][NewDescriptor(p)] = Socket(p)]
        /\ phase' = [phase EXCEPT ![p] = "bind"]
        /\ UNCHANGED <<threads, upsets, failed>>
     \/ /\ Upset
        /\ m_fd' = [m_fd EXCEPT ![p] = 2]
        /\ failed' = failed \cup {Socket(p)}
        /\ StartWorker(p)
        /\ UNCHANGED <<next, table>>
  /\ UNCHANGED <<objects, path, queue, got, lost, alone, sender>>

OpenSocket(p) ==
  /\ phase[p] = "socket"
  /\ \/ /\ m_fd' = [m_fd EXCEPT ![p] = NewDescriptor(p)]
        /\ table' = [table EXCEPT ![p][NewDescriptor(p)] = Socket(p)]
        /\ phase' = [phase EXCEPT ![p] = "bind"]
        /\ UNCHANGED <<threads, upsets, failed>>
     \/ /\ Upset
        /\ m_fd' = [m_fd EXCEPT ![p] = 0]
        /\ failed' = failed \cup {Socket(p)}
        /\ StartWorker(p)
        /\ UNCHANGED <<next, table>>
  /\ UNCHANGED <<objects, path, queue, got, lost, alone, sender>>

\* Mutant: a socket that is not bound is forgotten, not closed.
BindForgets(p) ==
  /\ phase[p] = "bind"
  /\ \/ /\ path[End(p)] = Free
        /\ path' = [path EXCEPT ![End(p)] = Socket(p)]
        /\ UNCHANGED <<m_fd, table, queue, upsets, lost, failed>>
     \/ /\ IF path[End(p)] = Free
           THEN Upset /\ failed' = failed \cup {Socket(p)}
           ELSE UNCHANGED <<upsets, failed>>
        /\ Close(p, {})
        /\ m_fd' = [m_fd EXCEPT ![p] = 0]
        /\ UNCHANGED path
  /\ StartWorker(p)
  /\ UNCHANGED <<objects, next, got, alone, sender>>

\* bind makes the file; one that is already there is an error.
Bind(p) ==
  /\ phase[p] = "bind"
  /\ \/ /\ path[End(p)] = Free
        /\ path' = [path EXCEPT ![End(p)] = Socket(p)]
        /\ UNCHANGED <<m_fd, table, queue, upsets, lost, failed>>
     \/ /\ IF path[End(p)] = Free
           THEN Upset /\ failed' = failed \cup {Socket(p)}
           ELSE UNCHANGED <<upsets, failed>>
        /\ Close(p, {m_fd[p]})
        /\ m_fd' = [m_fd EXCEPT ![p] = 0]
        /\ UNCHANGED path
  /\ StartWorker(p)
  /\ UNCHANGED <<objects, next, got, alone, sender>>

\* The owner asks the worker to stop.
Stop(p) ==
  /\ phase[p] = "up"
  /\ ~m_stop_asked[p]
  /\ Upset
  /\ m_stop_asked' = [m_stop_asked EXCEPT ![p] = TRUE]
  /\ UNCHANGED <<phase, objects, m_fd, reader, writer, next, kernel, history>>

(***************************************************************************)
(* The destructor closes m_fd whatever it holds and unlinks the path       *)
(* whoever has bound it.                                                   *)
(***************************************************************************)
DestroyClose(p) ==
  /\ phase[p] = "up"
  /\ reader[p] = "off" /\ writer[p] = "off"
  /\ Close(p, {m_fd[p]})
  /\ phase' = [phase EXCEPT ![p] = "unlinking"]
  /\ UNCHANGED <<objects, m_fd, threads, path, upsets, got, alone, failed, sender>>

DestroyUnlink(p) ==
  /\ phase[p] = "unlinking"
  /\ path' = [path EXCEPT ![End(p)] = Free]
  /\ phase' = [phase EXCEPT ![p] = "idle"]
  /\ m_fd' = [m_fd EXCEPT ![p] = 0]
  /\ UNCHANGED <<objects, threads, table, queue, upsets, history>>

-----------------------------------------------------------------------------
(***************************************************************************)
(* The read thread; only it changes m_fd while the threads run.            *)
(***************************************************************************)
\* The loop ends, or read() finds no socket.
ReadEnd(p) ==
  /\ reader[p] = "recv"
  /\ writer[p] = "off" \/ m_stop_asked[p] \/ m_fd[p] = 0
  /\ reader' = [reader EXCEPT ![p] = "off"]
  /\ UNCHANGED <<phase, objects, m_fd, writer, m_stop_asked, next, kernel, upsets, history>>

Reads(p) == reader[p] = "recv" /\ writer[p] # "off" /\ ~m_stop_asked[p] /\ m_fd[p] # 0

\* (recvfrom that gives up after 20 microseconds is no error, and no step.)
ReadData(p) ==
  /\ Reads(p)
  /\ queue[Socket(p)] # <<>>
  /\ LET d == Head(queue[Socket(p)]) IN
     got' = [got EXCEPT ![p][d[1]] = Append(@, d[2])]
  /\ queue' = [queue EXCEPT ![Socket(p)] = Tail(@)]
  /\ UNCHANGED <<phase, objects, m_fd, reader, writer, m_stop_asked, next, table, path, upsets,
                 lost, alone, failed, sender>>

\* Any other errno.
\* Mutant: the socket is kept.
ReadErrorKeeps(p) ==
  /\ Reads(p)
  /\ Upset
  /\ failed' = failed \cup {Socket(p)}
  /\ reader' = [reader EXCEPT ![p] = "off"]
  /\ UNCHANGED <<phase, objects, m_fd, writer, m_stop_asked, next, kernel, got, lost, alone, sender>>

ReadError(p) ==
  /\ Reads(p)
  /\ Upset
  /\ failed' = failed \cup {Socket(p)}
  /\ reader' = [reader EXCEPT ![p] = "close"]
  /\ UNCHANGED <<phase, objects, m_fd, writer, m_stop_asked, next, kernel, got, lost, alone, sender>>

ReadClose(p) ==
  /\ reader[p] = "close"
  /\ Close(p, {m_fd[p]})
  /\ reader' = [reader EXCEPT ![p] = "clear"]
  /\ UNCHANGED <<phase, objects, m_fd, writer, m_stop_asked, next, path, upsets, got,
                 alone, failed, sender>>

ReadClear(p) ==
  /\ reader[p] = "clear"
  /\ m_fd' = [m_fd EXCEPT ![p] = 0]
  /\ reader' = [reader EXCEPT ![p] = "off"]
  /\ UNCHANGED <<phase, objects, writer, m_stop_asked, next, kernel, upsets, history>>

(***************************************************************************)
(* The write thread repeats write() while it returns 0 and looks at        *)
(* nothing else; it takes the datagram from the queue when write() has     *)
(* returned its size, and ends when it is negative.                        *)
(***************************************************************************)
WriteHead(p) ==
  /\ writer[p] = "head"
  /\ \/ /\ reader[p] = "off" \/ m_stop_asked[p]
        /\ writer' = [writer EXCEPT ![p] = "off"]
     \/ /\ reader[p] # "off" /\ ~m_stop_asked[p]
        /\ p = sender /\ next[p] <= MaxDatagrams
        /\ writer' = [writer EXCEPT ![p] = "test"]
  /\ UNCHANGED <<phase, objects, m_fd, reader, m_stop_asked, next, kernel, upsets, history>>

WriteTest(p) ==
  /\ writer[p] = "test"
  /\ writer' = [writer EXCEPT ![p] = IF m_fd[p] = 0 THEN "off" ELSE "send"]
  /\ UNCHANGED <<phase, objects, m_fd, reader, m_stop_asked, next, kernel, upsets, history>>

Target(p) == path[OtherEnd(p)]

\* m_fd is read again: it may have been closed, or be 0 and no socket.
WriteError(p) ==
  /\ writer[p] = "send"
  /\ \/ ~Opened(p, m_fd[p]) /\ UNCHANGED <<upsets, failed>>
     \/ Opened(p, m_fd[p]) /\ Upset /\ failed' = failed \cup {Socket(p)}
  /\ writer' = [writer EXCEPT ![p] = "off"]
  /\ UNCHANGED <<phase, objects, m_fd, reader, m_stop_asked, next, kernel, got, lost, alone, sender>>

\* ENOENT, ECONNREFUSED or EAGAIN: the datagram is kept and 0 returned.
Refused(p) == ~(IsOpen(Target(p)) /\ Len(queue[Target(p)]) < QueueLength)

\* Mutant: the datagram is given up.
WriteRefusedDrops(p) ==
  /\ writer[p] = "send"
  /\ Opened(p, m_fd[p])
  /\ Refused(p)
  /\ next' = [next EXCEPT ![p] = @ + 1]
  /\ writer' = [writer EXCEPT ![p] = "head"]
  /\ UNCHANGED <<phase, objects, m_fd, reader, m_stop_asked, kernel, upsets, history>>

\* Mutant: the buffer is cleared all the same, and what is written again and
\* again has no bytes.
WriteRefusedClears(p) ==
  /\ writer[p] = "send"
  /\ Opened(p, m_fd[p])
  /\ Refused(p)
  /\ writer' = [writer EXCEPT ![p] = "cleared"]
  /\ UNCHANGED <<phase, objects, m_fd, reader, m_stop_asked, next, kernel, upsets, history>>

WriteRefused(p) ==
  /\ writer[p] = "send"
  /\ Opened(p, m_fd[p])
  /\ Refused(p)
  /\ writer' = [writer EXCEPT ![p] = "test"]
  /\ UNCHANGED <<phase, objects, m_fd, reader, m_stop_asked, next, kernel, upsets, history>>

\* Mutant: the datagram stays in the queue.
WriteDataKeeps(p) ==
  /\ writer[p] = "send"
  /\ Opened(p, m_fd[p])
  /\ ~Refused(p)
  /\ queue' = [queue EXCEPT ![Target(p)] = Append(@, <<p, next[p]>>)]
  /\ writer' = [writer EXCEPT ![p] = "head"]
  /\ UNCHANGED <<phase, objects, m_fd, reader, m_stop_asked, next, table, path, upsets, history>>

WriteData(p) ==
  /\ writer[p] = "send"
  /\ Opened(p, m_fd[p])
  /\ ~Refused(p)
  /\ queue' = [queue EXCEPT ![Target(p)] = Append(@, <<p, next[p]>>)]
  /\ next' = [next EXCEPT ![p] = @ + 1]
  /\ writer' = [writer EXCEPT ![p] = "head"]
  /\ UNCHANGED <<phase, objects, m_fd, reader, m_stop_asked, table, path, upsets, history>>

Constructor(p) == OpenSocket(p) \/ Bind(p)
Reader(p) ==
  \/ ReadEnd(p) \/ ReadData(p)
  \/ ReadError(p) \/ ReadClose(p) \/ ReadClear(p)
Writer(p) == WriteHead(p) \/ WriteTest(p) \/ WriteError(p) \/ WriteRefused(p) \/ WriteData(p)
Owner(p) == Unlink(p) \/ Stop(p) \/ DestroyClose(p) \/ DestroyUnlink(p)

Next == \E p \in Processes :
  Begin(p) \/ Crash(p) \/ Owner(p) \/ Constructor(p) \/ Reader(p) \/ Writer(p)

(***************************************************************************)
(* The threads of a living process run, and their calls come back after at *)
(* most 20 microseconds; no process need start, end or destroy anything.   *)
(***************************************************************************)
Fairness == \A p \in Processes :
  WF_vars(Constructor(p)) /\ WF_vars(Reader(p)) /\ WF_vars(Writer(p))

Spec == Init /\ [][Next]_vars /\ Fairness

-----------------------------------------------------------------------------
(***************************************************************************)
(* Type correctness: m_fd is a descriptor, and 0 when socket() gave none.  *)
(***************************************************************************)
TypeOK ==
  /\ phase \in [Processes -> {"unborn", "idle", "socket", "bind", "up", "unlinking", "dead"}]
  /\ objects \in [Processes -> 0 .. MaxObjects]
  /\ m_fd \in [Processes -> 0 .. 1]
  /\ reader \in [Processes -> {"off", "recv", "close", "clear"}]
  /\ writer \in [Processes -> {"off", "head", "test", "send"}]
  /\ m_stop_asked \in [Processes -> BOOLEAN] /\ alone \in [Processes -> BOOLEAN]
  /\ next \in [Processes -> 1 .. MaxDatagrams + 1]
  /\ table \in [Processes -> [0 .. 1 -> Sockets \cup {Free, Stdin}]]
  /\ path \in [{"parent", "child"} -> Sockets \cup {Free}]
  /\ queue \in [Sockets -> Seq(Processes \X (1 .. MaxDatagrams))]
  /\ upsets \in 0 .. MaxUpsets
  /\ failed \subseteq Sockets
  /\ got \in [Processes -> [Processes -> Seq(1 .. MaxDatagrams)]]
  /\ lost \subseteq Processes \X (1 .. MaxDatagrams)

(***************************************************************************)
(* Through failing calls, a read error under the write thread's hands and  *)
(* the destructor, the one socket a process has open is the one of the     *)
(* LocalSocket that lives, where its m_fd says.                            *)
(***************************************************************************)
NoLeak == \A p \in Processes, d \in 0 .. 1 :
  Opened(p, d) =>
    table[p][d] = Socket(p) /\ d = m_fd[p] /\ phase[p] \in {"bind", "up"}

(***************************************************************************)
(* A datagram that write() reported as sent is in one place: a receiver    *)
(* has got it, it waits in the queue of a socket, or it was lost with a    *)
(* socket it waited in.  One that was not is nowhere.  So a receiver that  *)
(* is killed, restarted, late or not there yet costs no other datagram,    *)
(* and brings none twice.                                                  *)
(***************************************************************************)
Holders(d) == Cardinality({q \in Others(d[1]) : d[2] \in ToSet(got[q][d[1]])})
            + Cardinality({s \in Sockets : d \in ToSet(queue[s])})
            + (IF d \in lost THEN 1 ELSE 0)

OnePlace == \A d \in Processes \X (1 .. MaxDatagrams) :
  Holders(d) = IF d[2] < next[d[1]] THEN 1 ELSE 0

(***************************************************************************)
(* A receiver gets the datagrams of one sender in the order they were put, *)
(* over all the sockets the two use one after the other.                   *)
(***************************************************************************)
InOrder == \A q \in Processes : \A p \in Others(q) :
  LET have == got[q][p]
      wait == IF objects[q] = 0 THEN <<>> ELSE queue[Socket(q)]
  IN /\ \A i, j \in DOMAIN have : i < j => have[i] < have[j]
     /\ \A i \in DOMAIN have, k \in DOMAIN wait : wait[k][1] = p => have[i] < wait[k][2]
     /\ \A k, l \in DOMAIN wait :
          k < l /\ wait[k][1] = p /\ wait[l][1] = p => wait[k][2] < wait[l][2]

(***************************************************************************)
(* A process that has its end to itself finds the path free whatever its   *)
(* predecessor left there, and gets a socket the other end reaches.  (Not  *)
(* beside a process of the same end, whose init_socket or destructor       *)
(* unlinks the path of this one; and once the destructor of a LocalSocket  *)
(* that failed has closed descriptor 0, the next socket gets that number   *)
(* and is taken for none.)                                                 *)
(***************************************************************************)
TakesOver == \A p \in Processes :
  phase[p] = "up" /\ alone[p] /\ Socket(p) \notin failed =>
    /\ path[End(p)] = Socket(p) /\ IsOpen(Socket(p))
    /\ m_fd[p] # 0 \/ \E s \in failed : s[1] = p /\ s[2] < objects[p]

(***************************************************************************)
(* While two workers are up and reach each other, what the one has to send *)
(* gets to the other: writes repeat until the queue has room, and a sender *)
(* that was there first, or saw the receiver restart, does not give up.    *)
(***************************************************************************)
Works(p) ==
  /\ phase[p] = "up" /\ ~m_stop_asked[p] /\ m_fd[p] # 0
  /\ reader[p] # "off" /\ writer[p] # "off"
Linked(p, q) == Works(p) /\ Works(q) /\ Target(p) = Socket(q)

DeliveredInTheEnd == \A p \in Processes : \A q \in Others(p) :
  <>[]Linked(p, q) => <>[](/\ p = sender => next[p] > MaxDatagrams
                             /\ \A s \in Sockets : s[1] = q => queue[s] = <<>>)

(***************************************************************************)
(* A LocalSocket a call of which has failed ends both threads of the       *)
(* worker, also when the write thread repeats a write to nobody: read()    *)
(* closes the socket and the write finds m_fd 0.                           *)
(***************************************************************************)
FailureEndsWorker == \A p \in Processes :
  (phase[p] = "up" /\ Socket(p) \in failed) ~> ( reader[p] = "off" /\ writer[p] = "off")
=============================================================================

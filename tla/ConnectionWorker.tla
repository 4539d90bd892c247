-------------------------- MODULE ConnectionWorker --------------------------
(***************************************************************************)
(* Class ConnectionWorker: a read thread that moves what it reads from a   *)
(* source (a socket) through a parser to a queue, a write thread that      *)
(* moves datagrams from another queue to the source, a guard thread that   *)
(* joins the two and then calls the postmortem callback, and the           *)
(* destructor, which the owner or that callback runs.                      *)
(*                                                                         *)
(* Datagrams of each direction are numbered in the order the source, or    *)
(* the owner, produced them.  The queues refuse what does not fit and      *)
(* return 0 when empty, at once or after their timeout (module QueueStack  *)
(* is about them); both are set.  What a read or a write returns is up to  *)
(* the source: an error, nothing for now (0), or success.  The parser cuts *)
(* a chunk into any number of datagrams up to MaxChunk.                    *)
(*                                                                         *)
(* The three flags are atomic and, once the threads run, each changes only *)
(* one way, so a loop condition that reads two of them is one step.        *)
(***************************************************************************)
EXTENDS Naturals, Sequences

CONSTANTS
  Deleters,  (* who may delete the worker, see MayDelete                   *)
  QueueSize, (* capacity of either queue                                   *)
  MaxRead,   (* bound: datagrams the source sends                          *)
  MaxWrite,  (* bound: datagrams the owner wants to send                   *)
  MaxChunk   (* bound: datagrams one read yields                           *)

DeleterKinds == {"callback", "owner_when_stopped", "owner_anytime", "nobody"}

ASSUME WorkerAssumption ==
  /\ Deleters \subseteq DeleterKinds
  /\ QueueSize \in Nat \ {0}
  /\ MaxRead \in Nat /\ MaxWrite \in Nat /\ MaxChunk \in Nat

VARIABLES
  m_read_thread_alive, m_write_thread_alive, m_stop_asked, m_stopped,
  t_guard,    (* "empty", "joinable" or "released"                         *)
  has_parser, (* whether set_parser was called before start                *)
  deleter,    (* who deletes the worker in this run                        *)
  object,     (* how far the destructors have come: "alive", "derived_gone"*)
              (* (socket destroyed), "joining" (in ~ConnectionWorker),     *)
              (* "dead"                                                    *)
  broken,     (* the source has reported an error                          *)
  pc,         (* where the four threads stand                              *)
  batch,      (* what the read thread has read and not yet put             *)
  put_ok,     (* put_status > 0                                            *)
  rq,         (* *m_queue_for_reading_data_from_source                     *)
  received,   (* what the owner took from rq                               *)
  wq,         (* *m_queue_for_writing_data_to_source                       *)
  sent,       (* what the source accepted                                  *)
  read_count, (* datagrams that came from the source                       *)
  put_count   (* datagrams the owner put to wq                             *)

flags == <<m_read_thread_alive, m_write_thread_alive, m_stop_asked, m_stopped>>
life  == <<t_guard, has_parser, deleter, object>>
input == <<batch, put_ok, rq, received, read_count>>
output == <<wq, sent, put_count>>
vars == <<flags, life, broken, pc, input, output>>

Goto(th, l) == pc' = [pc EXCEPT ![th] = l]
At(th, l) == pc[th] = l

Init ==
  /\ m_read_thread_alive = FALSE /\ m_write_thread_alive = FALSE
  /\ m_stop_asked = FALSE /\ m_stopped = FALSE
  /\ t_guard = "empty"
  /\ has_parser \in BOOLEAN
  /\ deleter \in Deleters
  /\ object = "alive"
  /\ broken = FALSE
  /\ pc = [owner |-> "idle", guard |-> "none", reader |-> "none", writer |-> "none"]
  /\ batch = <<>> /\ put_ok = FALSE
  /\ rq = <<>> /\ received = <<>> /\ read_count = 0
  /\ wq = <<>> /\ sent = <<>> /\ put_count = 0

(***************************************************************************)
(* The owner.  start() is called once; run() creates the guard thread      *)
(* first and assigns it to t_guard afterwards.                             *)
(***************************************************************************)
\* Mutant: the write thread sets its own flag.
StartOneFlag ==
  /\ At("owner", "idle")
  /\ m_read_thread_alive' = TRUE
  /\ m_stop_asked' = FALSE
  /\ pc' = [pc EXCEPT !["owner"] = "assign", !["guard"] = "spawn_read"]
  /\ UNCHANGED <<m_write_thread_alive, m_stopped, life, broken, input, output>>

Start ==
  /\ At("owner", "idle")
  /\ m_read_thread_alive' = TRUE
  /\ m_write_thread_alive' = TRUE
  /\ m_stop_asked' = FALSE
  /\ pc' = [pc EXCEPT !["owner"] = "assign", !["guard"] = "spawn_read"]
  /\ UNCHANGED <<m_stopped, life, broken, input, output>>

AssignGuard ==
  /\ At("owner", "assign")
  /\ t_guard' = "joinable"
  /\ Goto("owner", "ready")
  /\ UNCHANGED <<flags, has_parser, deleter, object, broken, input, output>>

\* Calls on a worker the owner knows to be deleted are the owner's error.
Stop ==
  /\ pc["owner"] \in {"idle", "ready"}
  /\ object = "alive"
  /\ ~m_stop_asked
  /\ m_stop_asked' = TRUE
  /\ UNCHANGED <<m_read_thread_alive, m_write_thread_alive, m_stopped, life,
                 broken, pc, input, output>>

\* The queues belong to the owner as well and outlive the worker.
OwnerPut ==
  /\ put_count < MaxWrite
  /\ Len(wq) < QueueSize
  /\ put_count' = put_count + 1
  /\ wq' = Append(wq, put_count')
  /\ UNCHANGED <<flags, life, broken, pc, input, sent>>

OwnerGet ==
  /\ rq # <<>>
  /\ received' = Append(received, Head(rq))
  /\ rq' = Tail(rq)
  /\ UNCHANGED <<flags, life, broken, pc, batch, put_ok, read_count, output>>

(***************************************************************************)
(* The guard thread.                                                       *)
(***************************************************************************)
SpawnRead ==
  /\ At("guard", "spawn_read")
  /\ pc' = [pc EXCEPT !["guard"] = "spawn_write", !["reader"] = "test"]
  /\ UNCHANGED <<flags, life, broken, input, output>>

SpawnWrite ==
  /\ At("guard", "spawn_write")
  /\ pc' = [pc EXCEPT !["guard"] = "join_read", !["writer"] = "test"]
  /\ UNCHANGED <<flags, life, broken, input, output>>

JoinRead ==
  /\ At("guard", "join_read")
  /\ At("reader", "done")
  /\ Goto("guard", "join_write")
  /\ UNCHANGED <<flags, life, broken, input, output>>

JoinWrite ==
  /\ At("guard", "join_write")
  /\ At("writer", "done")
  /\ m_stopped' = TRUE
  /\ Goto("guard", "callback")
  /\ UNCHANGED <<m_read_thread_alive, m_write_thread_alive, m_stop_asked, life,
                 broken, input, output>>

\* m_postmortem_callback returns; the one that deletes has done so by then.
EndCallback ==
  /\ At("guard", "callback")
  /\ deleter = "callback" => object = "dead"
  /\ Goto("guard", "done")
  /\ UNCHANGED <<flags, life, broken, input, output>>

(***************************************************************************)
(* Deleting the worker.  The destructor of the derived class (TCPSocket-   *)
(* Worker, LocalSocketWorker) comes first and takes the socket with it,    *)
(* then ~ConnectionWorker asks the threads to stop and waits for the guard *)
(* thread, or lets go of it when it is itself that thread.                 *)
(***************************************************************************)
MayDelete ==
  \/ deleter = "callback" /\ At("guard", "callback")
  \/ deleter = "owner_when_stopped" /\ At("owner", "ready") /\ m_stopped
  \/ deleter = "owner_anytime" /\ At("owner", "ready")

DestroySocket ==
  /\ object = "alive"
  /\ MayDelete
  /\ object' = "derived_gone"
  /\ UNCHANGED <<flags, t_guard, has_parser, deleter, broken, pc, input, output>>

DestroyBase ==
  /\ object = "derived_gone"
  /\ m_stop_asked' = TRUE
  /\ object' = "joining"
  /\ UNCHANGED <<m_read_thread_alive, m_write_thread_alive, m_stopped, t_guard,
                 has_parser, deleter, broken, pc, input, output>>

\* Mutant: the guard thread is never waited for.
ReleaseAtOnce ==
  /\ object = "joining"
  /\ t_guard' = IF t_guard = "joinable" THEN "released" ELSE t_guard
  /\ object' = "dead"
  /\ UNCHANGED <<flags, has_parser, deleter, broken, pc, input, output>>

\* Mutant: it is waited for by itself, too.
ReleaseAfterJoin ==
  /\ object = "joining"
  /\ t_guard = "joinable" => At("guard", "done")
  /\ t_guard' = IF t_guard = "joinable" THEN "released" ELSE t_guard
  /\ object' = "dead"
  /\ UNCHANGED <<flags, has_parser, deleter, broken, pc, input, output>>

ReleaseGuard ==
  /\ object = "joining"
  /\ t_guard = "joinable" /\ deleter # "callback" => At("guard", "done")
  /\ t_guard' = IF t_guard = "joinable" THEN "released" ELSE t_guard
  /\ object' = "dead"
  /\ UNCHANGED <<flags, has_parser, deleter, broken, pc, input, output>>

(***************************************************************************)
(* thread_read_from_source.                                                *)
(***************************************************************************)
ReaderMayRun == m_write_thread_alive /\ ~m_stop_asked

ReadTest ==
  /\ At("reader", "test")
  /\ Goto("reader", IF ReaderMayRun THEN "read" ELSE "end")
  /\ UNCHANGED <<flags, life, broken, input, output>>

ReadError ==
  /\ At("reader", "read")
  /\ broken' = TRUE
  /\ Goto("reader", "end")
  /\ UNCHANGED <<flags, life, input, output>>

ReadNothing ==
  /\ At("reader", "read")
  /\ Goto("reader", "check")
  /\ UNCHANGED <<flags, life, broken, input, output>>

\* Without a parser the chunk is the datagram.
Chunks ==
  {n \in 0 .. MaxChunk : read_count + n <= MaxRead /\ (~has_parser => n = 1)}

ReadData ==
  /\ At("reader", "read")
  /\ \E n \in Chunks :
       /\ batch' = [k \in 1 .. n |-> read_count + k]
       /\ read_count' = read_count + n
  /\ Goto("reader", "check")
  /\ UNCHANGED <<flags, life, broken, put_ok, rq, received, output>>

\* The flags are looked at again after the read: what was read is dropped.
ReadCheck ==
  /\ At("reader", "check")
  /\ IF ~ReaderMayRun
     THEN batch' = <<>> /\ Goto("reader", "end")
     ELSE batch' = batch /\ Goto("reader", IF batch = <<>> THEN "test" ELSE "put")
  /\ UNCHANGED <<flags, life, broken, put_ok, rq, received, read_count, output>>

\* Mutant: off by one at the full queue.
ReadPutOffByOne ==
  /\ At("reader", "put")
  /\ put_ok' = (Len(rq) <= QueueSize)
  /\ rq' = IF put_ok' THEN Append(rq, Head(batch)) ELSE rq
  /\ IF has_parser
     THEN batch' = batch /\ Goto("reader", "put_check")
     ELSE batch' = <<>> /\ Goto("reader", "test")
  /\ UNCHANGED <<flags, life, broken, received, read_count, output>>

ReadPut ==
  /\ At("reader", "put")
  /\ put_ok' = (Len(rq) < QueueSize)
  /\ rq' = IF put_ok' THEN Append(rq, Head(batch)) ELSE rq
  /\ IF has_parser
     THEN batch' = batch /\ Goto("reader", "put_check")
     ELSE batch' = <<>> /\ Goto("reader", "test")
  /\ UNCHANGED <<flags, life, broken, received, read_count, output>>

\* Mutant: a refused datagram is not put again.
ReadPutCheckOnce ==
  /\ At("reader", "put_check")
  /\ batch' = IF ~ReaderMayRun THEN <<>> ELSE Tail(batch)
  /\ Goto("reader", IF batch' = <<>> THEN "test" ELSE "put")
  /\ UNCHANGED <<flags, life, broken, put_ok, rq, received, read_count, output>>

\* Mutant: it is put again whatever the flags say.
ReadPutCheckForever ==
  /\ At("reader", "put_check")
  /\ batch' = IF put_ok THEN Tail(batch) ELSE batch
  /\ Goto("reader", IF batch' = <<>> THEN "test" ELSE "put")
  /\ UNCHANGED <<flags, life, broken, put_ok, rq, received, read_count, output>>

\* A parsed datagram is put again until it fits or the worker must end.
ReadPutCheck ==
  /\ At("reader", "put_check")
  /\ batch' = IF ~ReaderMayRun THEN <<>> ELSE IF put_ok THEN Tail(batch) ELSE batch
  /\ Goto("reader", IF batch' = <<>> THEN "test" ELSE "put")
  /\ UNCHANGED <<flags, life, broken, put_ok, rq, received, read_count, output>>

ReadEnd ==
  /\ At("reader", "end")
  /\ m_read_thread_alive' = FALSE
  /\ Goto("reader", "done")
  /\ UNCHANGED <<m_write_thread_alive, m_stop_asked, m_stopped, life, broken,
                 input, output>>

(***************************************************************************)
(* thread_write_to_source.  A datagram is peeked, written, and only then   *)
(* taken from the queue.                                                   *)
(***************************************************************************)
WriterMayRun == m_read_thread_alive /\ ~m_stop_asked

WriteTest ==
  /\ At("writer", "test")
  /\ Goto("writer", IF WriterMayRun THEN "peek" ELSE "end")
  /\ UNCHANGED <<flags, life, broken, input, output>>

\* The datagram peeked stays the first of wq: nobody else takes from wq.
WritePeek ==
  /\ At("writer", "peek")
  /\ Goto("writer", IF wq = <<>> THEN "check_empty" ELSE "check")
  /\ UNCHANGED <<flags, life, broken, input, output>>

WriteCheck ==
  /\ pc["writer"] \in {"check", "check_empty"}
  /\ Goto("writer", IF ~WriterMayRun THEN "end"
                    ELSE IF At("writer", "check") THEN "write" ELSE "test")
  /\ UNCHANGED <<flags, life, broken, input, output>>

(***************************************************************************)
(* write_data_to_source.  While it returns 0 it is called again, whatever  *)
(* the flags say; such a call changes nothing.                             *)
(***************************************************************************)
WriteAccepted ==
  /\ At("writer", "write")
  /\ sent' = Append(sent, Head(wq))
  /\ Goto("writer", "get")
  /\ UNCHANGED <<flags, life, broken, input, wq, put_count>>

\* Mutant: no break, the refused datagram is taken from the queue.
WriteErrorTakes ==
  /\ At("writer", "write")
  /\ broken' = TRUE
  /\ Goto("writer", "get")
  /\ UNCHANGED <<flags, life, input, output>>

WriteError ==
  /\ At("writer", "write")
  /\ broken' = TRUE
  /\ Goto("writer", "end")
  /\ UNCHANGED <<flags, life, input, output>>

WriteGet ==
  /\ At("writer", "get")
  /\ wq' = Tail(wq)
  /\ Goto("writer", "test")
  /\ UNCHANGED <<flags, life, broken, input, sent, put_count>>

WriteEnd ==
  /\ At("writer", "end")
  /\ m_write_thread_alive' = FALSE
  /\ Goto("writer", "done")
  /\ UNCHANGED <<m_read_thread_alive, m_stop_asked, m_stopped, life, broken,
                 input, output>>

Owner == Start \/ AssignGuard \/ Stop \/ OwnerPut \/ OwnerGet
Guard == SpawnRead \/ SpawnWrite \/ JoinRead \/ JoinWrite \/ EndCallback
Destructor == DestroySocket \/ DestroyBase \/ ReleaseGuard
Reader ==
  \/ ReadTest \/ ReadError \/ ReadNothing \/ ReadData
  \/ ReadCheck \/ ReadPut \/ ReadPutCheck \/ ReadEnd
Writer ==
  \/ WriteTest \/ WritePeek \/ WriteCheck
  \/ WriteAccepted \/ WriteError \/ WriteGet \/ WriteEnd

Next == Owner \/ Guard \/ Destructor \/ Reader \/ Writer

(***************************************************************************)
(* The scheduler runs the threads.  A read returns (the sockets have       *)
(* receive timeouts), and a write that is tried again and again is in the  *)
(* end accepted or refused: this the code leaves to the peer.  A start     *)
(* that was begun and a destructor that was begun go on; the owner need    *)
(* not do anything else.                                                   *)
(***************************************************************************)
Fairness ==
  /\ WF_vars(AssignGuard) /\ WF_vars(Guard) /\ WF_vars(Reader) /\ WF_vars(Writer)
  /\ WF_vars(DestroyBase) /\ WF_vars(ReleaseGuard)

Spec == Init /\ [][Next]_vars /\ Fairness

-----------------------------------------------------------------------------
Upto(n) == [k \in 1 .. n |-> k]
IsPrefixOf(s, t) == Len(s) <= Len(t) /\ \A k \in DOMAIN s : s[k] = t[k]

TypeOK ==
  /\ {m_read_thread_alive, m_write_thread_alive, m_stop_asked, m_stopped,
      has_parser, broken, put_ok} \subseteq BOOLEAN
  /\ t_guard \in {"empty", "joinable", "released"}
  /\ deleter \in Deleters
  /\ object \in {"alive", "derived_gone", "joining", "dead"}
  /\ pc \in [owner : {"idle", "assign", "ready"},
             guard : {"none", "spawn_read", "spawn_write", "join_read",
                      "join_write", "callback", "done"},
             reader : {"none", "test", "read", "check", "put", "put_check",
                       "end", "done"},
             writer : {"none", "test", "peek", "check", "check_empty", "write",
                       "get", "end", "done"}]
  /\ {batch, rq, received, wq, sent} \subseteq Seq(Nat)
  /\ Len(rq) <= QueueSize /\ Len(wq) <= QueueSize
  /\ read_count \in 0 .. MaxRead /\ put_count \in 0 .. MaxWrite

(***************************************************************************)
(* What the owner put is sent once and in order, whatever errors and stops *)
(* come in between: a datagram leaves the queue only after the source      *)
(* accepted it, and it always does then.                                   *)
(***************************************************************************)
WriteExactlyOnce ==
  sent \o (IF At("writer", "get") THEN Tail(wq) ELSE wq) = Upto(put_count)

(***************************************************************************)
(* With a parser nothing that was read is lost, doubled or reordered on    *)
(* its way to the owner, however full the queue, until the worker has a    *)
(* reason to end; what arrives is then still a prefix of what was read.    *)
(***************************************************************************)
Unput == IF At("reader", "put_check") /\ put_ok THEN Tail(batch) ELSE batch

ParserDeliversAll ==
  has_parser =>
    /\ IsPrefixOf(received \o rq, Upto(read_count))
    /\ ReaderMayRun => received \o rq \o Unput = Upto(read_count)

(***************************************************************************)
(* The threads end only when the source failed or somebody asked for it;   *)
(* in particular no thread takes a partner that has not started yet for    *)
(* one that has ended.                                                     *)
(***************************************************************************)
EndsForCause ==
  pc["reader"] \in {"end", "done"} \/ pc["writer"] \in {"end", "done"}
    => m_stop_asked \/ broken

(***************************************************************************)
(* "here the object must be dead" (ConnectionWorker.cpp:119): no thread of *)
(* the worker uses it once it is dead, though m_stopped is set, and the    *)
(* owner may start to delete, before the guard thread has finished.        *)
(***************************************************************************)
NoUseAfterDestroy ==
  object = "dead" =>
    /\ pc["reader"] \in {"none", "done"} /\ pc["writer"] \in {"none", "done"}
    /\ pc["guard"] \in {"none", "done"} \/ (deleter = "callback" /\ At("guard", "callback"))

(***************************************************************************)
(* A worker that is asked to stop, or one of whose threads has ended, does *)
(* stop and calls the postmortem callback, even with a full queue nobody   *)
(* reads.                                                                  *)
(***************************************************************************)
MustEnd ==
  /\ pc["guard"] # "none"
  /\ m_stop_asked \/ At("reader", "done") \/ At("writer", "done")

EndsInTheEnd == MustEnd ~> m_stopped /\ pc["guard"] \in {"callback", "done"}

(***************************************************************************)
(* Deleting the worker comes to an end, from the callback on the guard     *)
(* thread too, which must not wait for itself.                             *)
(***************************************************************************)
DeleteCompletes == object # "alive" ~> object = "dead"

(***************************************************************************)
(* "need for correct delete object" (ConnectionWorker.cpp:123): the source *)
(* a thread reads or writes lives as long as the call.                     *)
(***************************************************************************)
SocketOutlivesThreads ==
  object = "derived_gone" => ~At("reader", "read") /\ ~At("writer", "write")

(***************************************************************************)
(* start() ends on an object nobody has begun to destroy.                  *)
(***************************************************************************)
StartOnLiveObject == At("owner", "assign") => object = "alive"
=============================================================================

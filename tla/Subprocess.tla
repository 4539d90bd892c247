----------------------------- MODULE Subprocess -----------------------------
(***************************************************************************)
(* A subprocess (AbstractSubprocess and its instances): the read thread of *)
(* its worker puts what the parent process sends into the reading queue,   *)
(* and the loop of the main thread takes it out and processes it, until    *)
(* the parent has ended.  The queue is QueueStack's: a blocking put over   *)
(* an unlocked get, with the read thread as producer and the main thread   *)
(* as consumer.  The constructor starts the worker before the derived      *)
(* constructor sets its parser.                                            *)
(*                                                                         *)
(* A chunk read holds one datagram.  The socket does not fail here, see    *)
(* ConnectionWorker and LocalSocket.                                       *)
(***************************************************************************)
EXTENDS QueueStack

CONSTANTS
  Reader, (* the read thread, the one of the Producers                     *)
  Main    (* the one of the Consumers                                      *)

VARIABLES
  m_parser, (* whether it is set                                           *)
  parent,   (* whether the parent process lives                            *)
  loop,     (* the main thread: "construct", "test", "size", "got", "get"  *)
            (* in the queue, "exited"                                      *)
  reading,  (* the datagram the read thread has in hand, or NoData         *)
  parsed,   (* whether it came through the parser                          *)
  received, processed

process == <<m_parser, parent, loop, reading, parsed, received, processed>>
Alive == loop # "exited"

SubprocessInit ==
  /\ Init
  /\ m_parser = FALSE /\ parent = TRUE /\ loop = "construct"
  /\ reading = NoData /\ parsed = FALSE
  /\ received = {} /\ processed = {}

ParentEnds ==
  /\ parent' = FALSE
  /\ UNCHANGED <<vars, m_parser, loop, reading, parsed, received, processed>>

(***************************************************************************)
(* The main thread: set_parser and start, and the loop.                    *)
(***************************************************************************)
SetParser ==
  /\ loop = "construct"
  /\ m_parser' = TRUE
  /\ loop' = "test"
  /\ UNCHANGED <<vars, parent, reading, parsed, received, processed>>

TestParent ==
  /\ loop = "test"
  /\ loop' = IF parent THEN "size" ELSE "exited"
  /\ UNCHANGED <<vars, m_parser, parent, reading, parsed, received, processed>>

Get ==
  /\ Enter(Main, "get", NoData)
  /\ loop' = "get"

TestSize ==
  /\ loop = "size"
  /\ IF HasDatagram THEN Get ELSE loop' = "test" /\ UNCHANGED vars
  /\ UNCHANGED <<m_parser, parent, reading, parsed, received, processed>>

\* datagram_processor, and the next get.
Process ==
  /\ loop = "got"
  /\ Get
  /\ UNCHANGED <<m_parser, parent, reading, parsed, received, processed>>

GetReturns ==
  /\ At(Main, "unlock")
  /\ Return(Main)
  /\ IF res[Main] = "ok"
     THEN loop' = "got" /\ processed' = processed \cup {buf[Main]}
     ELSE loop' = "test" /\ UNCHANGED processed
  /\ UNCHANGED <<m_parser, parent, reading, parsed, received>>

(***************************************************************************)
(* The read thread: read_data_from_source, the parser if there is one, and *)
(* put, again and again for a parsed datagram the queue refuses.           *)
(***************************************************************************)
Receive ==
  /\ Alive /\ reading = NoData
  /\ \E d \in Datagrams \ received :
       reading' = d /\ received' = received \cup {d}
  /\ parsed' = m_parser
  /\ UNCHANGED <<vars, m_parser, parent, loop, processed>>

Put ==
  /\ Alive /\ reading # NoData
  /\ Enter(Reader, "put", reading)
  /\ UNCHANGED process

PutReturns ==
  /\ Alive /\ At(Reader, "unlock")
  /\ Return(Reader)
  /\ reading' = IF parsed /\ res[Reader] = "zero" THEN reading ELSE NoData
  /\ UNCHANGED <<m_parser, parent, loop, parsed, received, processed>>

\* The steps inside put and get; exit() ends both threads.
Inside(t) == Alive /\ pc[t] # "unlock" /\ Run(t) /\ UNCHANGED process
Locks(t) == Alive /\ Acquire(t) /\ UNCHANGED process
Wakes(t) == Alive /\ SpuriousWakeup(t) /\ UNCHANGED process

MainThread == SetParser \/ TestParent \/ TestSize \/ Process \/ GetReturns \/ Inside(Main)
ReadThread == Put \/ PutReturns \/ Inside(Reader)

SubprocessNext ==
  \/ ParentEnds \/ Receive \/ MainThread \/ ReadThread
  \/ \E t \in Threads : Locks(t) \/ Wakes(t)

\* The scheduler runs both threads; nothing need arrive and the parent may live on.
SubprocessSpec ==
  /\ SubprocessInit /\ [][SubprocessNext]_<<vars, process>>
  /\ WF_<<vars, process>>(MainThread) /\ WF_<<vars, process>>(ReadThread)
  /\ \A t \in Threads : SF_<<vars, process>>(Locks(t))

(***************************************************************************)
(* "can process data here from arr" (instance_subprocess_1.cpp:15):        *)
(* datagram_processor is called with every datagram the process receives,  *)
(* as long as the process lives.                                           *)
(***************************************************************************)
ReceivedIsProcessed ==
  \A d \in Datagrams : d \in received ~> d \in processed \/ loop = "exited"
=============================================================================

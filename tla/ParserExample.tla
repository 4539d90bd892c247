--------------------------- MODULE ParserExample ---------------------------
(***************************************************************************)
(* Class ParserExample: a stream of bytes arrives in chunks; put appends a *)
(* chunk to m_parsing_buffer and runs the state machine of _parse_data,    *)
(* one action per turn of its loop, which cuts out the datagrams it finds  *)
(* and skips what belongs to none.  The sender makes datagrams with        *)
(* prepare_data_for_sending; other bytes may stand between them.           *)
(*                                                                         *)
(* A header is WordLen bytes Mark (the main word ff ff ff ff) and one byte *)
(* for the size field, which counts the header; msg_type, msg_ver and      *)
(* reserv, which the parser never looks at, are left out.  Mark as a size  *)
(* is the greatest one, as ff ff is of the two bytes of the field.         *)
(***************************************************************************)
EXTENDS Naturals, Sequences

CONSTANTS
  Mark,
  WordLen,     (* sizeof(main_word)                                        *)
  PointerSize, (* sizeof(head) of _receiving_header, head being a pointer  *)
  Garbage,     (* bytes that may stand between datagrams                   *)
  Payloads,    (* data handed to prepare_data_for_sending                  *)
  MaxStream    (* bound: bytes of the stream                               *)

HeadSize == WordLen + 1 \* sizeof(data_head)

ASSUME ParserAssumption ==
  /\ WordLen \in Nat \ {0}
  /\ PointerSize \in Nat /\ PointerSize <= HeadSize
  /\ Mark \in Nat /\ Mark > HeadSize
  /\ Garbage \subseteq 0 .. Mark
  /\ Payloads \subseteq Seq(0 .. Mark)
  /\ MaxStream \in Nat

VARIABLES
  m_parsing_buffer, m_state, m_tmp_dg_buf, dg_vector,
  pc,        (* "idle", "loop", "return", or "thrown": an exception left   *)
             (* put, which ends the process                                *)
  delivered, (* every datagram put has returned                            *)
  stream,    (* the bytes on their way; written before they are read       *)
  prepared,  (* the datagrams in stream                                    *)
  clean,     (* no Mark stands between them                                *)
  fed        (* how many bytes of stream have been put                     *)

parser == <<m_parsing_buffer, m_state, m_tmp_dg_buf, dg_vector>>
sender == <<stream, prepared, clean>>
vars == <<parser, pc, delivered, sender, fed>>

MainWord == [k \in 1 .. WordLen |-> Mark]
SizeField(s) == s[HeadSize]

Init ==
  /\ m_parsing_buffer = <<>> /\ m_tmp_dg_buf = <<>> /\ dg_vector = <<>>
  /\ m_state = "STATE_NODATA"
  /\ pc = "idle"
  /\ delivered = <<>>
  /\ stream = <<>> /\ prepared = <<>> /\ clean = TRUE
  /\ fed = 0

(***************************************************************************)
(* The sender.  The size of a datagram must fit the field.                 *)
(***************************************************************************)
PrepareDataForSending(data) ==
  IF Len(data) > Mark - HeadSize THEN <<>>
  ELSE Append(MainWord, HeadSize + Len(data)) \o data

SendDatagram ==
  /\ fed = 0
  /\ \E data \in Payloads :
       LET dg == PrepareDataForSending(data) IN
       /\ dg # <<>>
       /\ Len(stream) + Len(dg) <= MaxStream
       /\ stream' = stream \o dg
       /\ prepared' = Append(prepared, dg)
  /\ UNCHANGED <<parser, pc, delivered, clean, fed>>

SendGarbage ==
  /\ fed = 0
  /\ Len(stream) < MaxStream
  /\ \E b \in Garbage :
       /\ stream' = Append(stream, b)
       /\ clean' = (clean /\ b # Mark)
  /\ UNCHANGED <<parser, pc, delivered, prepared, fed>>

(***************************************************************************)
(* put, from its call to the loop.                                         *)
(***************************************************************************)
Put ==
  /\ pc = "idle"
  /\ \E n \in fed + 1 .. Len(stream) :
       /\ m_parsing_buffer' = m_parsing_buffer \o SubSeq(stream, fed + 1, n)
       /\ fed' = n
  /\ dg_vector' = <<>>
  /\ pc' = "loop"
  /\ UNCHANGED <<m_state, m_tmp_dg_buf, delivered, sender>>

(***************************************************************************)
(* The turns of the loop in _parse_data.                                   *)
(***************************************************************************)
Turn(state) == pc = "loop" /\ m_parsing_buffer # <<>> /\ m_state = state

NoData ==
  /\ Turn("STATE_NODATA")
  /\ IF Len(m_parsing_buffer) >= HeadSize
     THEN m_state' = "STATE_RECEIVING_HEADER" /\ UNCHANGED pc
     ELSE pc' = "return" /\ UNCHANGED m_state
  /\ UNCHANGED <<m_parsing_buffer, m_tmp_dg_buf, dg_vector, delivered, sender, fed>>

GoodHead(head) ==
  /\ SubSeq(head, 1, WordLen) = MainWord
  /\ SizeField(head) >= PointerSize

\* A wrong first byte is found before the header is copied.
ReceivingHeader ==
  /\ Turn("STATE_RECEIVING_HEADER")
  /\ IF m_parsing_buffer[1] # Mark
     THEN m_state' = "STATE_ERROR" /\ UNCHANGED m_tmp_dg_buf
     ELSE /\ m_tmp_dg_buf' = SubSeq(m_parsing_buffer, 1, HeadSize)
          /\ m_state' = IF GoodHead(m_tmp_dg_buf') THEN "STATE_RECEIVING_DATA"
                                                   ELSE "STATE_ERROR"
  /\ UNCHANGED <<m_parsing_buffer, dg_vector, pc, delivered, sender, fed>>

\* Mutant: the header of the datagram is taken a second time.
ReceivingDataTwice ==
  /\ Turn("STATE_RECEIVING_DATA")
  /\ LET size == SizeField(m_tmp_dg_buf) IN
     IF Len(m_parsing_buffer) < size
     THEN m_state' = "STATE_RECEIVING_WAIT_NEW_DATA" /\ UNCHANGED m_tmp_dg_buf
     ELSE /\ m_tmp_dg_buf' = m_tmp_dg_buf \o SubSeq(m_parsing_buffer, 1, size)
          /\ m_state' = "STATE_RECEIVING_COMPLETE"
  /\ UNCHANGED <<m_parsing_buffer, dg_vector, pc, delivered, sender, fed>>

(***************************************************************************)
(* insert(begin() + m_tmp_dg_buf.size(), begin() + head->size): a range    *)
(* that runs backwards is one of a length no vector can hold.              *)
(***************************************************************************)
ReceivingData ==
  /\ Turn("STATE_RECEIVING_DATA")
  /\ LET size == SizeField(m_tmp_dg_buf) IN
     IF Len(m_parsing_buffer) < size
     THEN /\ m_state' = "STATE_RECEIVING_WAIT_NEW_DATA"
          /\ UNCHANGED <<m_tmp_dg_buf, pc>>
     ELSE IF size < Len(m_tmp_dg_buf)
     THEN pc' = "thrown" /\ UNCHANGED <<m_state, m_tmp_dg_buf>>
     ELSE /\ m_tmp_dg_buf' =
               m_tmp_dg_buf \o SubSeq(m_parsing_buffer, Len(m_tmp_dg_buf) + 1, size)
          /\ m_state' = "STATE_RECEIVING_COMPLETE"
          /\ UNCHANGED pc
  /\ UNCHANGED <<m_parsing_buffer, dg_vector, delivered, sender, fed>>

\* Mutant: the header is read again with the next chunk, after what was seen.
WaitForgetsHead ==
  /\ Turn("STATE_RECEIVING_WAIT_NEW_DATA")
  /\ m_state' = "STATE_NODATA"
  /\ m_parsing_buffer' = SubSeq(m_parsing_buffer, HeadSize + 1, Len(m_parsing_buffer))
  /\ pc' = "return"
  /\ UNCHANGED <<m_tmp_dg_buf, dg_vector, delivered, sender, fed>>

WaitNewData ==
  /\ Turn("STATE_RECEIVING_WAIT_NEW_DATA")
  /\ m_state' = "STATE_RECEIVING_DATA"
  /\ pc' = "return"
  /\ UNCHANGED <<m_parsing_buffer, m_tmp_dg_buf, dg_vector, delivered, sender, fed>>

ReceivingComplete ==
  /\ Turn("STATE_RECEIVING_COMPLETE")
  /\ m_parsing_buffer' =
       SubSeq(m_parsing_buffer, Len(m_tmp_dg_buf) + 1, Len(m_parsing_buffer))
  /\ dg_vector' = Append(dg_vector, m_tmp_dg_buf)
  /\ m_tmp_dg_buf' = <<>>
  /\ m_state' = "STATE_NODATA"
  /\ UNCHANGED <<pc, delivered, sender, fed>>

\* Mutant: the byte that is not the start of a header stays.
ErrorKeepsByte ==
  /\ Turn("STATE_ERROR")
  /\ m_tmp_dg_buf' = <<>>
  /\ m_state' = "STATE_NODATA"
  /\ UNCHANGED <<m_parsing_buffer, dg_vector, pc, delivered, sender, fed>>

\* Mutant: the whole of the header is skipped.
ErrorSkipsHead ==
  /\ Turn("STATE_ERROR")
  /\ m_tmp_dg_buf' = <<>>
  /\ m_parsing_buffer' = SubSeq(m_parsing_buffer, HeadSize + 1, Len(m_parsing_buffer))
  /\ m_state' = "STATE_NODATA"
  /\ UNCHANGED <<dg_vector, pc, delivered, sender, fed>>

ErrorTurn ==
  /\ Turn("STATE_ERROR")
  /\ m_tmp_dg_buf' = <<>>
  /\ m_parsing_buffer' = Tail(m_parsing_buffer)
  /\ m_state' = "STATE_NODATA"
  /\ UNCHANGED <<dg_vector, pc, delivered, sender, fed>>

LoopEnd ==
  /\ pc = "loop" /\ m_parsing_buffer = <<>>
  /\ pc' = "return"
  /\ UNCHANGED <<parser, delivered, sender, fed>>

\* The caller takes the datagrams found.
Return ==
  /\ pc = "return"
  /\ delivered' = delivered \o dg_vector
  /\ pc' = "idle"
  /\ UNCHANGED <<parser, sender, fed>>

ParseData ==
  \/ NoData \/ ReceivingHeader \/ ReceivingData \/ WaitNewData
  \/ ReceivingComplete \/ ErrorTurn \/ LoopEnd

Next == SendDatagram \/ SendGarbage \/ Put \/ ParseData \/ Return

\* The thread that called put runs on.
Spec == Init /\ [][Next]_vars /\ WF_vars(ParseData) /\ WF_vars(Return)

-----------------------------------------------------------------------------
Bytes == 0 .. Mark
States == {"STATE_NODATA", "STATE_RECEIVING_HEADER", "STATE_RECEIVING_DATA",
           "STATE_RECEIVING_WAIT_NEW_DATA", "STATE_RECEIVING_COMPLETE", "STATE_ERROR"}

(***************************************************************************)
(* Type correctness.  The temporary buffer keeps within the 65535 bytes    *)
(* reserved for it, so that a datagram's size fits the uint16_t the read   *)
(* thread of ConnectionWorker passes on.                                   *)
(***************************************************************************)
TypeOK ==
  /\ {m_parsing_buffer, m_tmp_dg_buf, stream} \subseteq Seq(Bytes)
  /\ {dg_vector, delivered, prepared} \subseteq Seq(Seq(Bytes))
  /\ m_state \in States
  /\ Len(m_tmp_dg_buf) <= Mark
  /\ pc \in {"idle", "loop", "return", "thrown"}
  /\ clean \in BOOLEAN
  /\ fed \in 0 .. Len(stream)

(***************************************************************************)
(* The temporary buffer is a copy of the front of m_parsing_buffer while a *)
(* datagram is being received, over all the calls of put that may take:    *)
(* its header, and in the end the datagram whose size the header tells.    *)
(***************************************************************************)
Front(n) == n <= Len(m_parsing_buffer) /\ m_tmp_dg_buf = SubSeq(m_parsing_buffer, 1, n)

TmpIsFront ==
  /\ m_state \in {"STATE_RECEIVING_DATA", "STATE_RECEIVING_WAIT_NEW_DATA"} =>
       Front(HeadSize) /\ GoodHead(m_tmp_dg_buf)
  /\ m_state = "STATE_RECEIVING_COMPLETE" =>
       Front(Len(m_tmp_dg_buf)) /\ SizeField(m_tmp_dg_buf) = Len(m_tmp_dg_buf)

(***************************************************************************)
(* The datagrams of a stream, by definition: look for the next place where *)
(* a header stands; the datagram there, if complete, is the next one, and  *)
(* the search goes on behind it.                                           *)
(***************************************************************************)
HeadAt(s, i) ==
  /\ SubSeq(s, i, i + WordLen - 1) = MainWord
  /\ s[i + WordLen] >= HeadSize

Search(s, from, i) ==
  LET end == i + s[i + WordLen] - 1 IN
  IF i + WordLen > Len(s) THEN <<>>
  ELSE IF ~HeadAt(s, i) THEN from[i + 1]
  ELSE IF end > Len(s) THEN <<>>
  ELSE <<SubSeq(s, i, end)>> \o from[end + 1]

DatagramsFrom(s) ==
  LET from[i \in 1 .. Len(s) + 1] == Search(s, from, i) IN from

DatagramsOf(s) == DatagramsFrom(s)[1]

(***************************************************************************)
(* What put returns depends on the bytes and not on how they were cut into *)
(* chunks: after any call the datagrams returned are those of the bytes    *)
(* put so far.                                                             *)
(***************************************************************************)
ChunkingIrrelevant == pc = "idle" => delivered = DatagramsOf(SubSeq(stream, 1, fed))

(***************************************************************************)
(* Every datagram the sender prepared arrives, once, in order and whole,   *)
(* whatever its payload, when no Mark stands between datagrams to be taken *)
(* for the start of one.                                                   *)
(***************************************************************************)
PreparedArrive ==
  pc = "idle" /\ fed = Len(stream) /\ clean => delivered = prepared

(***************************************************************************)
(* put returns, whatever bytes it is given: every pass through the states  *)
(* takes a byte or a datagram from the buffer or leaves the loop.          *)
(***************************************************************************)
PutReturns == pc = "loop" ~> pc # "loop"

(***************************************************************************)
(* "parses binary data from buf with size size, and cut found datagrams to *)
(* for_parsed vector" (ParserBase.h:21): put returns, and by no exception, *)
(* whatever the size field of a header says.                               *)
(***************************************************************************)
NothingThrown == pc # "thrown"
=============================================================================

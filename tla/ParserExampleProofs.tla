------------------------ MODULE ParserExampleProofs ------------------------
(***************************************************************************)
(* ParserExample for headers of any length, any payloads, any bytes        *)
(* between the datagrams and any way of cutting the stream into chunks:    *)
(* what it keeps of a datagram it has begun, and that every datagram the   *)
(* sender prepared comes out again.                                        *)
(***************************************************************************)
EXTENDS ParserExample, SequenceTheorems, WellFoundedInduction, TLAPS

(***************************************************************************)
(* What the parser knows in each state of its machine, beyond TmpIsFront.  *)
(* Between two calls it waits for a header or for the rest of a datagram.  *)
(***************************************************************************)
Waits ==
  \/ m_state = "STATE_NODATA" /\ Len(m_parsing_buffer) < HeadSize
  \/ m_state = "STATE_RECEIVING_DATA"
       /\ Len(m_parsing_buffer) < SizeField(m_tmp_dg_buf)

StateInv ==
  /\ m_state \in {"STATE_RECEIVING_HEADER", "STATE_ERROR"} =>
       Len(m_parsing_buffer) >= HeadSize
  /\ m_state = "STATE_RECEIVING_WAIT_NEW_DATA" =>
       Len(m_parsing_buffer) < SizeField(m_tmp_dg_buf)
  /\ m_state = "STATE_RECEIVING_COMPLETE" =>
       /\ Len(m_tmp_dg_buf) >= HeadSize
       /\ \A i \in 1 .. WordLen : m_tmp_dg_buf[i] = Mark
  /\ m_state = "STATE_ERROR" =>
       \/ m_parsing_buffer[1] # Mark
       \/ ~GoodHead(SubSeq(m_parsing_buffer, 1, HeadSize))
  /\ pc \in {"idle", "return"} => Waits

(***************************************************************************)
(* The buffer holds the bytes of stream behind position Passed, up to the  *)
(* last one put.                                                           *)
(***************************************************************************)
Passed == fed - Len(m_parsing_buffer)

BufferInv ==
  /\ Len(m_parsing_buffer) <= fed
  /\ \A i \in 1 .. Len(m_parsing_buffer) :
       m_parsing_buffer[i] = stream[Passed + i]

(***************************************************************************)
(* What the sender makes: a header, with the size of the whole in it.      *)
(***************************************************************************)
Datagram(dg) ==
  /\ Len(dg) >= HeadSize
  /\ \A i \in 1 .. WordLen : dg[i] = Mark
  /\ SizeField(dg) = Len(dg)

PreparedInv == \A k \in 1 .. Len(prepared) : Datagram(prepared[k])

(***************************************************************************)
(* Where the datagrams of prepared stand in stream: start[k] is the place  *)
(* of the first byte of the k-th one.                                      *)
(***************************************************************************)
EndOf(start, k) == start[k] + Len(prepared[k]) - 1

Placed(start) ==
  /\ \A k \in 1 .. Len(prepared) :
       /\ EndOf(start, k) <= Len(stream)
       /\ \A i \in 1 .. Len(prepared[k]) :
            stream[start[k] + i - 1] = prepared[k][i]
  /\ \A k, l \in 1 .. Len(prepared) : k < l => EndOf(start, k) < start[l]

\* Where no Mark stands between them, every Mark is in a datagram.
Covered(start) ==
  \A i \in 1 .. Len(stream) :
    stream[i] = Mark =>
      \E k \in 1 .. Len(prepared) : start[k] <= i /\ i <= EndOf(start, k)

(***************************************************************************)
(* The datagrams found are the first ones of prepared, the parser has      *)
(* passed them, and it has not reached the next one.                       *)
(***************************************************************************)
Found == delivered \o (IF pc = "idle" THEN <<>> ELSE dg_vector)

Reached(start) ==
  /\ Len(Found) <= Len(prepared)
  /\ \A k \in 1 .. Len(Found) :
       Found[k] = prepared[k] /\ EndOf(start, k) <= Passed
  /\ \A k \in Len(Found) + 1 .. Len(prepared) : Passed < start[k]

Sound(start) == Placed(start) /\ Covered(start) /\ Reached(start)

FoundInv ==
  clean => \E start \in [1 .. Len(prepared) -> 1 .. Len(stream)] : Sound(start)

(***************************************************************************)
(* And against the definition of the datagrams of a stream, for every      *)
(* stream that begins with the bytes passed: those found, and then what    *)
(* the search finds from here on.                                          *)
(***************************************************************************)
UpTo(m) == SubSeq(stream, 1, m)

SearchInv ==
  /\ fed = 0 => Found = <<>>
  /\ \A m \in Passed .. Len(stream) :
       DatagramsOf(UpTo(m)) = Found \o DatagramsFrom(UpTo(m))[Passed + 1]

IInv ==
  /\ TypeOK /\ TmpIsFront /\ StateInv /\ BufferInv
  /\ PreparedInv /\ FoundInv
  /\ SearchInv

-----------------------------------------------------------------------------
(***************************************************************************)
(* The sizes, and the sequence operations of the parser byte by byte.      *)
(***************************************************************************)
LEMMA Sizes ==
  /\ WordLen \in Nat /\ WordLen >= 1
  /\ HeadSize \in Nat /\ HeadSize = WordLen + 1
  /\ PointerSize \in Nat /\ PointerSize <= HeadSize
  /\ Mark \in Nat /\ Mark > HeadSize
  BY ParserAssumption DEF ParserAssumption, HeadSize

LEMMA Taken ==
  ASSUME NEW S, NEW s \in Seq(S), NEW n \in Nat, n <= Len(s)
  PROVE  /\ SubSeq(s, 1, n) \in Seq(S)
         /\ Len(SubSeq(s, 1, n)) = n
         /\ \A i \in 1 .. n : SubSeq(s, 1, n)[i] = s[i]
  <1>1. \A i \in 1 .. n : s[i] \in S
    OBVIOUS
  <1>2. /\ SubSeq(s, 1, n) \in Seq(S)
        /\ Len(SubSeq(s, 1, n)) = IF 1 <= n THEN n - 1 + 1 ELSE 0
        /\ \A i \in 1 .. n - 1 + 1 : SubSeq(s, 1, n)[i] = s[1 + i - 1]
    BY <1>1, SubSeqProperties
  <1> QED
    BY <1>2

LEMMA Slice ==
  ASSUME NEW S, NEW s \in Seq(S), NEW m \in Nat, NEW n \in Nat, m <= n, n <= Len(s)
  PROVE  /\ SubSeq(s, m + 1, n) \in Seq(S)
         /\ Len(SubSeq(s, m + 1, n)) = n - m
         /\ \A i \in 1 .. n - m : SubSeq(s, m + 1, n)[i] = s[m + i]
  <1>1. \A i \in m + 1 .. n : s[i] \in S
    OBVIOUS
  <1>2. /\ SubSeq(s, m + 1, n) \in Seq(S)
        /\ Len(SubSeq(s, m + 1, n)) = IF m + 1 <= n THEN n - (m + 1) + 1 ELSE 0
        /\ \A i \in 1 .. n - (m + 1) + 1 : SubSeq(s, m + 1, n)[i] = s[m + 1 + i - 1]
    BY <1>1, SubSeqProperties
  <1> QED
    BY <1>2

LEMMA GoodHeadMeans ==
  ASSUME NEW head \in Seq(Bytes), Len(head) >= HeadSize
  PROVE  GoodHead(head) <=>
           /\ \A i \in 1 .. WordLen : head[i] = Mark
           /\ SizeField(head) >= PointerSize
  <1>1. WordLen <= Len(head) /\ WordLen \in Nat
    BY Sizes
  <1>2. /\ SubSeq(head, 1, WordLen) \in Seq(Bytes)
        /\ Len(SubSeq(head, 1, WordLen)) = WordLen
        /\ \A i \in 1 .. WordLen : SubSeq(head, 1, WordLen)[i] = head[i]
    BY <1>1, Taken
  <1>3. SubSeq(head, 1, WordLen) = MainWord
          <=> \A i \in 1 .. WordLen : head[i] = Mark
    BY <1>1, <1>2 DEF MainWord
  <1> QED
    BY <1>3 DEF GoodHead

\* What the sender makes for a payload that fits the size field.
LEMMA PrepareMakesDatagram ==
  ASSUME NEW data \in Payloads, PrepareDataForSending(data) # <<>>
  PROVE  /\ PrepareDataForSending(data) \in Seq(Bytes)
         /\ Datagram(PrepareDataForSending(data))
  <1>1. data \in Seq(Bytes)
    BY ParserAssumption DEF ParserAssumption, Bytes
  <1>2. Len(data) <= Mark - HeadSize /\ Len(data) \in Nat
    BY <1>1, Sizes DEF PrepareDataForSending
  <1>3. HeadSize + Len(data) \in Bytes /\ Mark \in Bytes
    BY <1>2, Sizes DEF Bytes
  <1> DEFINE head == Append(MainWord, HeadSize + Len(data))
  <1>4. MainWord \in Seq(Bytes) /\ Len(MainWord) = WordLen
    BY <1>3, Sizes DEF MainWord
  <1>5. /\ head \in Seq(Bytes) /\ Len(head) = HeadSize
        /\ \A i \in 1 .. WordLen : head[i] = Mark
        /\ head[HeadSize] = HeadSize + Len(data)
    BY <1>3, <1>4, Sizes DEF MainWord
  <1>6. PrepareDataForSending(data) = head \o data
    BY <1>2, Sizes DEF PrepareDataForSending
  <1> HIDE DEF head
  <1>7. /\ head \o data \in Seq(Bytes)
        /\ Len(head \o data) = HeadSize + Len(data)
        /\ \A i \in 1 .. HeadSize : (head \o data)[i] = head[i]
    <2>1. /\ head \o data \in Seq(Bytes)
          /\ Len(head \o data) = Len(head) + Len(data)
          /\ \A i \in 1 .. Len(head) + Len(data) :
               (head \o data)[i] = IF i <= Len(head) THEN head[i]
                                  ELSE data[i - Len(head)]
      BY <1>1, <1>5
    <2> QED
      BY <1>2, <1>5, <2>1, Sizes
  <1> QED
    BY <1>2, <1>5, <1>6, <1>7, Sizes DEF Datagram, SizeField

-----------------------------------------------------------------------------
(***************************************************************************)
(* Type correctness, with what the parser knows in each state.             *)
(***************************************************************************)
LEMMA StateInit == Init => TypeOK /\ TmpIsFront /\ StateInv
  BY Sizes DEF Init, TypeOK, TmpIsFront, StateInv, Waits, Bytes, States

\* m_tmp_dg_buf takes the bytes of a datagram that is complete.
LEMMA DataIsWhole ==
  ASSUME TypeOK, TmpIsFront, ReceivingData, m_state' = "STATE_RECEIVING_COMPLETE"
  PROVE  /\ SizeField(m_tmp_dg_buf) \in HeadSize .. Len(m_parsing_buffer)
         /\ m_tmp_dg_buf' = SubSeq(m_parsing_buffer, 1, SizeField(m_tmp_dg_buf))
         /\ pc' = pc
         /\ \A i \in 1 .. WordLen : m_tmp_dg_buf'[i] = Mark
         /\ SizeField(m_tmp_dg_buf') = Len(m_tmp_dg_buf')
         /\ m_tmp_dg_buf' \in Seq(Bytes)
         /\ Len(m_tmp_dg_buf') = SizeField(m_tmp_dg_buf)
  <1> DEFINE size == SizeField(m_tmp_dg_buf)
             buf == m_parsing_buffer
             tmp == m_tmp_dg_buf
  <1>1. buf \in Seq(Bytes) /\ tmp \in Seq(Bytes)
    BY DEF TypeOK
  <1>2. HeadSize <= Len(buf) /\ tmp = SubSeq(buf, 1, HeadSize) /\ GoodHead(tmp)
    BY DEF TmpIsFront, Front, ReceivingData, Turn
  <1>3. Len(tmp) = HeadSize /\ \A i \in 1 .. HeadSize : tmp[i] = buf[i]
    BY <1>1, <1>2, Sizes, Taken
  <1>4. \A i \in 1 .. WordLen : tmp[i] = Mark
    <2> HIDE DEF tmp, buf
    <2> Len(tmp) >= HeadSize
      BY <1>3, Sizes
    <2> QED
      BY <1>1, <1>2, GoodHeadMeans
  <1>5. size \in Nat
    BY <1>1, <1>3, Sizes DEF SizeField, Bytes
  <1>6. /\ size <= Len(buf) /\ HeadSize <= size /\ pc' = pc
        /\ m_tmp_dg_buf' = tmp \o SubSeq(buf, HeadSize + 1, size)
    BY <1>1, <1>3, <1>5, Sizes DEF ReceivingData, Turn
  <1>7. m_tmp_dg_buf' = SubSeq(buf, 1, size)
    <2>1. /\ SubSeq(buf, 1, size) \in Seq(Bytes)
          /\ Len(SubSeq(buf, 1, size)) = size
          /\ \A i \in 1 .. size : SubSeq(buf, 1, size)[i] = buf[i]
      BY <1>1, <1>5, <1>6, Taken
    <2> DEFINE rest == SubSeq(buf, HeadSize + 1, size)
    <2>3. /\ rest \in Seq(Bytes) /\ Len(rest) = size - HeadSize
          /\ \A i \in 1 .. size - HeadSize : rest[i] = buf[HeadSize + i]
      BY <1>1, <1>5, <1>6, Sizes, Slice
    <2> HIDE DEF rest
    <2>4. /\ tmp \o rest \in Seq(Bytes)
          /\ Len(tmp \o rest) = Len(tmp) + Len(rest)
          /\ \A i \in 1 .. Len(tmp) + Len(rest) : (tmp \o rest)[i] =
               IF i <= Len(tmp) THEN tmp[i] ELSE rest[i - Len(tmp)]
      BY <1>1, <2>3, ConcatProperties
    <2>5. Len(tmp \o rest) = size
      BY <1>3, <1>5, <1>6, <2>3, <2>4, Sizes
    <2>6. \A i \in 1 .. size : (tmp \o rest)[i] = buf[i]
      <3> TAKE i \in 1 .. size
      <3>1. (tmp \o rest)[i] = IF i <= HeadSize THEN tmp[i] ELSE rest[i - HeadSize]
        BY <1>3, <2>4, <2>5
      <3>2. CASE i <= HeadSize
        BY <1>3, <3>1, <3>2
      <3>3. CASE i > HeadSize
        <4>1. i - HeadSize \in 1 .. size - HeadSize /\ HeadSize + (i - HeadSize) = i
          BY <1>5, <3>3, Sizes
        <4>2. rest[i - HeadSize] = buf[i]
          BY <2>3, <4>1
        <4>3. ~(i <= HeadSize)
          BY <1>5, <3>3, Sizes
        <4> QED
          BY <3>1, <4>2, <4>3
      <3>4. i <= HeadSize \/ i > HeadSize
        BY <1>5, Sizes
      <3> QED
        BY <3>2, <3>3, <3>4
    <2> HIDE DEF buf, tmp, size
    <2>7. tmp \o rest = SubSeq(buf, 1, size)
      BY <2>1, <2>4, <2>5, <2>6
    <2> QED
      BY <1>6, <2>7 DEF rest
  <1>8. /\ SubSeq(buf, 1, size) \in Seq(Bytes)
        /\ Len(SubSeq(buf, 1, size)) = size
        /\ \A i \in 1 .. size : SubSeq(buf, 1, size)[i] = buf[i]
    BY <1>1, <1>5, <1>6, Taken
  <1>9. /\ \A i \in 1 .. WordLen : m_tmp_dg_buf'[i] = Mark
        /\ SizeField(m_tmp_dg_buf') = size
    <2>1. \A i \in 1 .. HeadSize : m_tmp_dg_buf'[i] = tmp[i]
      BY <1>3, <1>5, <1>6, <1>7, <1>8, Sizes
    <2> QED
      BY <1>4, <2>1, Sizes DEF SizeField
  <1>10. size \in HeadSize .. Len(buf)
    BY <1>1, <1>5, <1>6, Sizes
  <1> QED
    BY <1>6, <1>7, <1>8, <1>9, <1>10

Known == TypeOK /\ TmpIsFront /\ StateInv

\* The facts about a state's own sequences that the steps below share.
LEMMA KnownTypes ==
  ASSUME TypeOK
  PROVE  /\ m_parsing_buffer \in Seq(Bytes) /\ Len(m_parsing_buffer) \in Nat
         /\ m_tmp_dg_buf \in Seq(Bytes) /\ Len(m_tmp_dg_buf) \in Nat
         /\ stream \in Seq(Bytes) /\ Len(stream) \in Nat
         /\ dg_vector \in Seq(Seq(Bytes))
         /\ delivered \in Seq(Seq(Bytes))
         /\ prepared \in Seq(Seq(Bytes)) /\ Len(prepared) \in Nat
         /\ fed \in Nat /\ fed <= Len(stream)
  BY DEF TypeOK

\* The sender leaves the parser alone.
LEMMA SenderKnown == Known /\ (SendDatagram \/ SendGarbage) => Known'
  <1> SUFFICES ASSUME Known, SendDatagram \/ SendGarbage PROVE Known'
    OBVIOUS
  <1> USE DEF Known
  <1>1. /\ stream' \in Seq(Bytes) /\ Len(stream') >= Len(stream)
        /\ prepared' \in Seq(Seq(Bytes)) /\ clean' \in BOOLEAN
    <2>1. CASE SendDatagram
      <3>1. PICK data \in Payloads :
              LET dg == PrepareDataForSending(data) IN
              dg # <<>> /\ stream' = stream \o dg /\ prepared' = Append(prepared, dg)
        BY <2>1 DEF SendDatagram
      <3>2. PrepareDataForSending(data) \in Seq(Bytes)
        BY <3>1, PrepareMakesDatagram
      <3>3. clean' = clean /\ clean \in BOOLEAN
        BY <2>1 DEF SendDatagram, TypeOK
      <3> HIDE DEF Known
      <3> QED
        BY <3>1, <3>2, <3>3, KnownTypes DEF Known
    <2>2. CASE SendGarbage
      <3>1. PICK b \in Garbage : stream' = Append(stream, b) /\ clean' = (clean /\ b # Mark)
        BY <2>2 DEF SendGarbage
      <3>2. b \in Bytes
        BY ParserAssumption DEF ParserAssumption, Bytes
      <3>3. clean' \in BOOLEAN
        BY <3>1
      <3>4. prepared' = prepared
        BY <2>2 DEF SendGarbage
      <3> QED
        BY <3>1, <3>2, <3>3, <3>4, KnownTypes
    <2> QED
      BY <2>1, <2>2
  <1>2. UNCHANGED <<m_parsing_buffer, m_state, m_tmp_dg_buf, dg_vector, pc,
                    delivered, fed>>
    BY DEF SendDatagram, SendGarbage, parser
  <1>3. fed' \in 0 .. Len(stream')
    BY <1>1, <1>2, KnownTypes
  <1>4. TypeOK'
    BY <1>1, <1>2, <1>3 DEF TypeOK
  <1>5. TmpIsFront'
    BY <1>2 DEF TmpIsFront, Front
  <1>6. StateInv'
    BY <1>2 DEF StateInv, Waits
  <1> QED
    BY <1>4, <1>5, <1>6

\* A chunk goes behind what the buffer holds: its front stays.
LEMMA PutKnown == Known /\ Put => Known'
  <1> SUFFICES ASSUME Known, Put PROVE Known'
    OBVIOUS
  <1> USE DEF Known
  <1>1. PICK n \in fed + 1 .. Len(stream) :
          /\ m_parsing_buffer' = m_parsing_buffer \o SubSeq(stream, fed + 1, n)
          /\ fed' = n
    BY DEF Put
  <1>2. UNCHANGED <<m_state, m_tmp_dg_buf, delivered, stream, prepared, clean>>
        /\ pc = "idle" /\ pc' = "loop" /\ dg_vector' = <<>>
    BY DEF Put, sender
  <1> DEFINE chunk == SubSeq(stream, fed + 1, n)
  <1>3. /\ chunk \in Seq(Bytes) /\ Len(chunk) = n - fed
        /\ \A i \in 1 .. n - fed : chunk[i] = stream[fed + i]
    <2> HIDE DEF Known
    <2>1. /\ n \in Nat /\ fed \in Nat /\ fed <= n /\ n <= Len(stream)
          /\ stream \in Seq(Bytes)
      BY KnownTypes DEF Known
    <2> QED
      BY <2>1, Slice
  <1> HIDE DEF chunk
  <1>4. /\ m_parsing_buffer' \in Seq(Bytes)
        /\ Len(m_parsing_buffer') = Len(m_parsing_buffer) + (n - fed)
        /\ \A i \in 1 .. Len(m_parsing_buffer) :
             m_parsing_buffer'[i] = m_parsing_buffer[i]
    BY <1>1, <1>3, KnownTypes DEF chunk
  <1>5. TypeOK'
    <2>1. fed' \in 0 .. Len(stream')
      BY <1>1, <1>2, KnownTypes
    <2> QED
      BY <1>2, <1>4, <2>1 DEF TypeOK
  <1>6. Waits /\ m_state \in {"STATE_NODATA", "STATE_RECEIVING_DATA"}
    BY <1>2 DEF StateInv, Waits
  <1>7. TmpIsFront'
    <2>1. ASSUME m_state = "STATE_RECEIVING_DATA" PROVE Front(HeadSize)'
      <3>1. HeadSize <= Len(m_parsing_buffer)
            /\ m_tmp_dg_buf = SubSeq(m_parsing_buffer, 1, HeadSize)
        BY <2>1 DEF TmpIsFront, Front
      <3>2. HeadSize <= Len(m_parsing_buffer')
        BY <1>1, <1>4, <3>1, Sizes, KnownTypes
      <3>3. SubSeq(m_parsing_buffer', 1, HeadSize) = SubSeq(m_parsing_buffer, 1, HeadSize)
        <4>1. /\ Len(SubSeq(m_parsing_buffer, 1, HeadSize)) = HeadSize
              /\ \A i \in 1 .. HeadSize :
                   SubSeq(m_parsing_buffer, 1, HeadSize)[i] = m_parsing_buffer[i]
              /\ SubSeq(m_parsing_buffer, 1, HeadSize) \in Seq(Bytes)
          BY <3>1, Sizes, KnownTypes, Taken
        <4>2. /\ Len(SubSeq(m_parsing_buffer', 1, HeadSize)) = HeadSize
              /\ \A i \in 1 .. HeadSize :
                   SubSeq(m_parsing_buffer', 1, HeadSize)[i] = m_parsing_buffer'[i]
              /\ SubSeq(m_parsing_buffer', 1, HeadSize) \in Seq(Bytes)
          BY <1>4, <3>2, Sizes, Taken
        <4>3. \A i \in 1 .. HeadSize : i \in 1 .. Len(m_parsing_buffer)
          BY <3>1, Sizes, KnownTypes
        <4> QED
          BY <1>4, <4>1, <4>2, <4>3
      <3> QED
        BY <1>2, <3>1, <3>2, <3>3 DEF Front, HeadSize
    <2>2. m_state = "STATE_RECEIVING_DATA" => GoodHead(m_tmp_dg_buf)
      BY DEF TmpIsFront
    <2> QED
      BY <1>2, <1>6, <2>1, <2>2 DEF TmpIsFront, Front
  <1>8. StateInv'
    BY <1>2, <1>6 DEF StateInv
  <1> QED
    BY <1>5, <1>7, <1>8

\* The turns of the loop that leave the buffer as it is.
LEMMA TurnsKnown ==
  Known /\ (NoData \/ ReceivingHeader \/ WaitNewData \/ LoopEnd) => Known'
  <1> SUFFICES ASSUME Known, NoData \/ ReceivingHeader \/ WaitNewData \/ LoopEnd
               PROVE  Known'
    OBVIOUS
  <1> USE DEF Known
  <1>1. UNCHANGED <<m_parsing_buffer, dg_vector, delivered, stream, prepared, clean, fed>>
    BY DEF NoData, ReceivingHeader, WaitNewData, LoopEnd, parser, sender
  <1>2. CASE NoData
    <2>1. UNCHANGED m_tmp_dg_buf /\ m_state = "STATE_NODATA"
      BY <1>2 DEF NoData, Turn
    <2>2. \/ /\ m_state' = "STATE_RECEIVING_HEADER" /\ pc' = "loop"
             /\ Len(m_parsing_buffer) >= HeadSize
          \/ /\ m_state' = "STATE_NODATA" /\ pc' = "return"
             /\ Len(m_parsing_buffer) < HeadSize
      BY <1>2, <2>1, Sizes, KnownTypes DEF NoData, Turn
    <2>3. TypeOK'
      BY <1>1, <2>1, <2>2 DEF TypeOK, States
    <2> QED
      BY <1>1, <2>1, <2>2, <2>3 DEF TmpIsFront, StateInv, Waits
  <1>3. CASE ReceivingHeader
    <2> DEFINE head == SubSeq(m_parsing_buffer, 1, HeadSize)
    <2>1. m_state = "STATE_RECEIVING_HEADER" /\ pc = "loop" /\ pc' = "loop"
          /\ Len(m_parsing_buffer) >= HeadSize
      BY <1>3 DEF ReceivingHeader, Turn, StateInv
    <2>2. head \in Seq(Bytes) /\ Len(head) = HeadSize
      BY <2>1, Sizes, KnownTypes, Taken
    <2>3. \/ /\ m_parsing_buffer[1] # Mark
             /\ m_state' = "STATE_ERROR" /\ UNCHANGED m_tmp_dg_buf
          \/ /\ m_tmp_dg_buf' = head
             /\ \/ m_state' = "STATE_RECEIVING_DATA" /\ GoodHead(head)
                \/ m_state' = "STATE_ERROR" /\ ~GoodHead(head)
      BY <1>3 DEF ReceivingHeader
    <2>4. Len(m_tmp_dg_buf') <= Mark /\ m_tmp_dg_buf' \in Seq(Bytes)
      <3>1. Len(m_tmp_dg_buf) <= Mark
        BY DEF TypeOK
      <3> HIDE DEF head
      <3> QED
        BY <2>2, <2>3, <3>1, Sizes, KnownTypes
    <2>5. TypeOK'
      BY <1>1, <2>1, <2>3, <2>4 DEF TypeOK, States
    <2>6. TmpIsFront'
      BY <1>1, <2>1, <2>3, Sizes, KnownTypes DEF TmpIsFront, Front
    <2>7. StateInv'
      BY <1>1, <2>1, <2>3 DEF StateInv
    <2> QED
      BY <2>5, <2>6, <2>7
  <1>4. CASE WaitNewData
    <2>1. /\ m_state = "STATE_RECEIVING_WAIT_NEW_DATA"
          /\ m_state' = "STATE_RECEIVING_DATA" /\ pc' = "return"
          /\ UNCHANGED m_tmp_dg_buf
      BY <1>4 DEF WaitNewData, Turn
    <2>2. TypeOK'
      BY <1>1, <2>1 DEF TypeOK, States
    <2>3. TmpIsFront' /\ StateInv'
      BY <1>1, <2>1 DEF TmpIsFront, Front, StateInv, Waits
    <2> QED
      BY <2>2, <2>3
  <1>5. CASE LoopEnd
    <2>1. /\ m_parsing_buffer = <<>> /\ Len(m_parsing_buffer) = 0 /\ pc' = "return"
          /\ UNCHANGED <<m_tmp_dg_buf, m_state>>
      BY <1>5 DEF LoopEnd, parser
    <2>2. m_state = "STATE_NODATA"
      <3>1. m_state \in States
        BY DEF TypeOK
      <3>2. m_state \notin {"STATE_RECEIVING_HEADER", "STATE_ERROR"}
        BY <2>1, Sizes DEF StateInv
      <3>3. m_state \notin {"STATE_RECEIVING_DATA", "STATE_RECEIVING_WAIT_NEW_DATA"}
        <4>1. ~Front(HeadSize)
          BY <2>1, Sizes DEF Front
        <4> QED
          BY <4>1 DEF TmpIsFront
      <3>4. m_state # "STATE_RECEIVING_COMPLETE"
        <4> SUFFICES ASSUME m_state = "STATE_RECEIVING_COMPLETE" PROVE FALSE
          OBVIOUS
        <4>1. Len(m_tmp_dg_buf) <= Len(m_parsing_buffer)
          BY DEF TmpIsFront, Front
        <4>2. Len(m_tmp_dg_buf) >= HeadSize
          BY DEF StateInv
        <4> QED
          BY <2>1, <4>1, <4>2, Sizes, KnownTypes
      <3> QED
        BY <3>1, <3>2, <3>3, <3>4 DEF States
    <2>3. TypeOK'
      BY <1>1, <2>1 DEF TypeOK
    <2>4. TmpIsFront' /\ StateInv'
      BY <1>1, <2>1, <2>2, Sizes DEF TmpIsFront, StateInv, Waits
    <2> QED
      BY <2>3, <2>4
  <1> QED
    BY <1>2, <1>3, <1>4, <1>5

LEMMA DataKnown == Known /\ ReceivingData => Known'
  <1> SUFFICES ASSUME Known, ReceivingData PROVE Known'
    OBVIOUS
  <1> USE DEF Known
  <1>1. UNCHANGED <<m_parsing_buffer, dg_vector, delivered, stream, prepared, clean, fed>>
        /\ m_state = "STATE_RECEIVING_DATA" /\ pc = "loop"
    BY DEF ReceivingData, Turn, sender
  <1>2. CASE m_state' = "STATE_RECEIVING_WAIT_NEW_DATA"
    <2>1. UNCHANGED <<m_tmp_dg_buf, pc>>
          /\ Len(m_parsing_buffer) < SizeField(m_tmp_dg_buf)
      BY <1>1, <1>2 DEF ReceivingData
    <2>2. TypeOK'
      BY <1>1, <1>2, <2>1 DEF TypeOK, States
    <2> QED
      BY <1>1, <1>2, <2>1, <2>2 DEF TmpIsFront, Front, StateInv
  <1>3. CASE m_state' = "STATE_RECEIVING_COMPLETE"
    <2> DEFINE size == SizeField(m_tmp_dg_buf)
    <2>1. /\ size \in HeadSize .. Len(m_parsing_buffer)
          /\ m_tmp_dg_buf' = SubSeq(m_parsing_buffer, 1, size)
          /\ pc' = pc /\ \A i \in 1 .. WordLen : m_tmp_dg_buf'[i] = Mark
          /\ SizeField(m_tmp_dg_buf') = Len(m_tmp_dg_buf')
          /\ m_tmp_dg_buf' \in Seq(Bytes)
          /\ Len(m_tmp_dg_buf') = size
      BY <1>3, DataIsWhole
    <2>2. size \in Bytes
      <3>1. HeadSize \in 1 .. Len(m_tmp_dg_buf')
        BY <2>1, Sizes, KnownTypes
      <3>2. m_tmp_dg_buf'[HeadSize] \in Bytes
        BY <2>1, <3>1
      <3> QED
        BY <2>1, <3>2 DEF SizeField
    <2> HIDE DEF size
    <2>3. TypeOK'
      BY <1>1, <1>3, <2>1, <2>2, Sizes DEF TypeOK, States, Bytes
    <2>4. TmpIsFront'
      <3>1. Front(Len(m_tmp_dg_buf))'
        BY <1>1, <2>1, Sizes, KnownTypes DEF Front
      <3> QED
        BY <1>3, <2>1, <3>1 DEF TmpIsFront
    <2>5. StateInv'
      <3>1. Len(m_tmp_dg_buf') >= HeadSize
        BY <2>1, Sizes
      <3> QED
        BY <1>1, <1>3, <2>1, <3>1 DEF StateInv
    <2> QED
      BY <2>3, <2>4, <2>5
  <1>4. CASE pc' = "thrown" /\ UNCHANGED <<m_state, m_tmp_dg_buf>>
    BY <1>1, <1>4 DEF TypeOK, TmpIsFront, Front, StateInv, Waits
  <1> QED
    BY <1>2, <1>3, <1>4 DEF ReceivingData

\* The turns that take bytes from the front of the buffer.
LEMMA CompleteShortens ==
  ASSUME TypeOK, TmpIsFront, ReceivingComplete
  PROVE  /\ m_parsing_buffer' \in Seq(Bytes)
         /\ Len(m_tmp_dg_buf) <= Len(m_parsing_buffer)
         /\ Len(m_parsing_buffer') = Len(m_parsing_buffer) - Len(m_tmp_dg_buf)
         /\ \A i \in 1 .. Len(m_parsing_buffer') :
              m_parsing_buffer'[i] = m_parsing_buffer[Len(m_tmp_dg_buf) + i]
         /\ \A i \in 1 .. Len(m_tmp_dg_buf) : m_tmp_dg_buf[i] = m_parsing_buffer[i]
  <1>1. /\ Len(m_tmp_dg_buf) <= Len(m_parsing_buffer)
        /\ m_tmp_dg_buf = SubSeq(m_parsing_buffer, 1, Len(m_tmp_dg_buf))
    BY DEF ReceivingComplete, Turn, TmpIsFront, Front
  <1>2. m_parsing_buffer' =
          SubSeq(m_parsing_buffer, Len(m_tmp_dg_buf) + 1, Len(m_parsing_buffer))
    BY DEF ReceivingComplete
  <1> DEFINE n == Len(m_tmp_dg_buf)
  <1>3. n \in Nat
    BY KnownTypes
  <1> HIDE DEF n
  <1>4. /\ SubSeq(m_parsing_buffer, n + 1, Len(m_parsing_buffer)) \in Seq(Bytes)
        /\ Len(SubSeq(m_parsing_buffer, n + 1, Len(m_parsing_buffer)))
             = Len(m_parsing_buffer) - n
        /\ \A i \in 1 .. Len(m_parsing_buffer) - n :
             SubSeq(m_parsing_buffer, n + 1, Len(m_parsing_buffer))[i]
               = m_parsing_buffer[n + i]
    BY <1>1, <1>3, KnownTypes, Slice DEF n
  <1>5. \A i \in 1 .. n : SubSeq(m_parsing_buffer, 1, n)[i] = m_parsing_buffer[i]
    BY <1>1, <1>3, KnownTypes, Taken DEF n
  <1> QED
    BY <1>1, <1>2, <1>4, <1>5 DEF n

LEMMA ShorterKnown == Known /\ (ReceivingComplete \/ ErrorTurn) => Known'
  <1> SUFFICES ASSUME Known, ReceivingComplete \/ ErrorTurn PROVE Known'
    OBVIOUS
  <1> USE DEF Known
  <1>1. /\ m_tmp_dg_buf' = <<>> /\ m_state' = "STATE_NODATA" /\ pc' = "loop"
        /\ UNCHANGED <<delivered, stream, prepared, clean, fed>>
    BY DEF ReceivingComplete, ErrorTurn, Turn, sender
  <1>2. m_parsing_buffer' \in Seq(Bytes) /\ dg_vector' \in Seq(Seq(Bytes))
    <2>1. CASE ReceivingComplete
      BY <2>1, CompleteShortens, KnownTypes DEF ReceivingComplete
    <2>2. CASE ErrorTurn
      BY <2>2, KnownTypes DEF ErrorTurn, Turn
    <2> QED
      BY <2>1, <2>2
  <1>3. TypeOK'
    BY <1>1, <1>2, Sizes DEF TypeOK, States
  <1> QED
    BY <1>1, <1>3 DEF TmpIsFront, StateInv

LEMMA StateNext == Known /\ [Next]_vars => Known'
  <1> SUFFICES ASSUME Known, [Next]_vars PROVE Known'
    OBVIOUS
  <1>1. CASE Return
    <2>1. /\ UNCHANGED <<parser, sender, fed>> /\ pc = "return" /\ pc' = "idle"
          /\ delivered' = delivered \o dg_vector
      BY <1>1 DEF Return
    <2>2. delivered' \in Seq(Seq(Bytes))
      BY <2>1, KnownTypes DEF Known
    <2>3. TypeOK'
      BY <2>1, <2>2 DEF Known, TypeOK, parser, sender
    <2> QED
      BY <2>1, <2>3 DEF Known, TmpIsFront, Front, StateInv, Waits, parser, sender
  <1>2. CASE UNCHANGED vars
    BY <1>2 DEF vars, parser, sender, Known, TypeOK, TmpIsFront, Front, StateInv, Waits
  <1> QED
    BY <1>1, <1>2, SenderKnown, PutKnown, TurnsKnown, DataKnown, ShorterKnown
       DEF Next, ParseData

-----------------------------------------------------------------------------
(***************************************************************************)
(* The buffer is a piece of the stream, and the turns of the loop move its *)
(* beginning by what they take from it.                                    *)
(***************************************************************************)
LEMMA BufferInit == Init => BufferInv
  BY DEF Init, BufferInv, Passed

\* Steps that leave bytes, stream and position alone.
LEMMA BufferStays ==
  ASSUME TypeOK, BufferInv,
         UNCHANGED <<m_parsing_buffer, fed>>,
         \A i \in 1 .. Len(stream) : stream'[i] = stream[i]
  PROVE  BufferInv' /\ Passed' = Passed
  <1>1. \A i \in 1 .. Len(m_parsing_buffer) : Passed + i \in 1 .. Len(stream)
    BY KnownTypes DEF BufferInv, Passed
  <1>2. Passed' = Passed
    BY DEF Passed
  <1> QED
    BY <1>1, <1>2 DEF BufferInv

LEMMA PutKeepsBuffer ==
  ASSUME TypeOK, BufferInv, Put
  PROVE  BufferInv' /\ Passed' = Passed
  <1>1. PICK n \in fed + 1 .. Len(stream) :
          /\ m_parsing_buffer' = m_parsing_buffer \o SubSeq(stream, fed + 1, n)
          /\ fed' = n
    BY DEF Put
  <1>2. stream' = stream
    BY DEF Put, sender
  <1> DEFINE chunk == SubSeq(stream, fed + 1, n)
             len == Len(m_parsing_buffer)
  <1>3. n \in Nat /\ fed \in Nat /\ len \in Nat /\ fed <= n /\ n <= Len(stream)
    BY KnownTypes
  <1>4. /\ chunk \in Seq(Bytes)
        /\ Len(chunk) = n - fed
        /\ \A i \in 1 .. n - fed : chunk[i] = stream[fed + i]
    <2>1. stream \in Seq(Bytes)
      BY KnownTypes
    <2> HIDE DEF len
    <2> QED
      BY <1>3, <2>1, Slice
  <1> HIDE DEF chunk
  <1>5. /\ m_parsing_buffer' = m_parsing_buffer \o chunk
        /\ Len(m_parsing_buffer') = len + (n - fed)
        /\ \A i \in 1 .. len + (n - fed) :
             m_parsing_buffer'[i] = IF i <= len THEN m_parsing_buffer[i]
                                    ELSE chunk[i - len]
    <2>1. m_parsing_buffer \in Seq(Bytes)
      BY KnownTypes
    <2>2. /\ Len(m_parsing_buffer \o chunk) = len + Len(chunk)
          /\ \A i \in 1 .. len + Len(chunk) :
               (m_parsing_buffer \o chunk)[i] =
                 IF i <= len THEN m_parsing_buffer[i] ELSE chunk[i - len]
      BY <1>4, <2>1, ConcatProperties
    <2>3. m_parsing_buffer' = m_parsing_buffer \o chunk
      BY <1>1 DEF chunk
    <2> HIDE DEF len
    <2> QED
      BY <1>4, <2>2, <2>3
  <1>6. Passed' = Passed
    BY <1>1, <1>3, <1>5 DEF Passed
  <1>7. len <= fed /\ \A i \in 1 .. len : m_parsing_buffer[i] = stream[fed - len + i]
    BY DEF BufferInv, Passed
  <1> HIDE DEF len
  <1>8. \A i \in 1 .. len + (n - fed) : m_parsing_buffer'[i] = stream[fed - len + i]
    <2> TAKE i \in 1 .. len + (n - fed)
    <2>1. CASE i <= len
      <3>1. i \in 1 .. len /\ m_parsing_buffer'[i] = m_parsing_buffer[i]
        BY <1>3, <1>5, <2>1
      <3> QED
        BY <1>7, <3>1
    <2>2. CASE i > len
      <3>1. i - len \in 1 .. n - fed /\ fed + (i - len) = fed - len + i
        BY <1>3, <2>2
      <3> QED
        BY <1>3, <1>4, <1>5, <2>2, <3>1
    <2> QED
      BY <1>3, <2>1, <2>2
  <1>9. Len(m_parsing_buffer') <= fed'
    BY <1>1, <1>3, <1>5, <1>7
  <1> QED
    BY <1>2, <1>5, <1>6, <1>8, <1>9 DEF BufferInv, Passed, len

\* n bytes are taken from the front.
LEMMA ShorterBuffer ==
  ASSUME TypeOK, BufferInv, UNCHANGED <<stream, fed>>,
         NEW n \in Nat, n <= Len(m_parsing_buffer),
         Len(m_parsing_buffer') = Len(m_parsing_buffer) - n,
         \A i \in 1 .. Len(m_parsing_buffer') :
           m_parsing_buffer'[i] = m_parsing_buffer[n + i]
  PROVE  BufferInv' /\ Passed' = Passed + n
  <1>1. Passed' = Passed + n /\ Len(m_parsing_buffer') <= fed'
    BY KnownTypes DEF Passed, BufferInv
  <1>2. \A i \in 1 .. Len(m_parsing_buffer') :
          m_parsing_buffer'[i] = stream[Passed + n + i]
    <2> TAKE i \in 1 .. Len(m_parsing_buffer')
    <2>1. n + i \in 1 .. Len(m_parsing_buffer) /\ Passed + (n + i) = Passed + n + i
      BY KnownTypes DEF Passed
    <2> QED
      BY <2>1 DEF BufferInv
  <1> QED
    BY <1>1, <1>2 DEF BufferInv

LEMMA ErrorTakesOne ==
  ASSUME TypeOK, BufferInv, ErrorTurn
  PROVE  /\ Len(m_parsing_buffer) >= 1
         /\ BufferInv' /\ Passed' = Passed + 1
  <1>1. m_parsing_buffer # <<>> /\ m_parsing_buffer' = Tail(m_parsing_buffer)
        /\ UNCHANGED <<stream, fed>>
    BY DEF ErrorTurn, Turn, sender
  <1>2. /\ Len(m_parsing_buffer) >= 1
        /\ Len(m_parsing_buffer') = Len(m_parsing_buffer) - 1
        /\ \A i \in 1 .. Len(m_parsing_buffer') :
             m_parsing_buffer'[i] = m_parsing_buffer[i + 1]
    BY <1>1, KnownTypes
  <1>3. \A i \in 1 .. Len(m_parsing_buffer') :
             m_parsing_buffer'[i] = m_parsing_buffer[1 + i]
    BY <1>2
  <1> QED
    BY <1>1, <1>2, <1>3, ShorterBuffer

LEMMA CompleteTakesDatagram ==
  ASSUME TypeOK, TmpIsFront, BufferInv, ReceivingComplete
  PROVE  BufferInv' /\ Passed' = Passed + Len(m_tmp_dg_buf)
  <1>1. UNCHANGED <<stream, fed>>
    BY DEF ReceivingComplete, sender
  <1> QED
    BY <1>1, CompleteShortens, ShorterBuffer, KnownTypes

(***************************************************************************)
(* The sender adds to the end of stream.                                   *)
(***************************************************************************)
LEMMA StreamGrows ==
  ASSUME TypeOK, SendDatagram \/ SendGarbage
  PROVE  /\ Len(stream') \in Nat /\ Len(stream) <= Len(stream')
         /\ \A i \in 1 .. Len(stream) : stream'[i] = stream[i]
  <1>1. CASE SendDatagram
    <2>1. PICK data \in Payloads :
            LET dg == PrepareDataForSending(data) IN
            dg # <<>> /\ stream' = stream \o dg
      BY <1>1 DEF SendDatagram
    <2>2. PrepareDataForSending(data) \in Seq(Bytes)
      BY <2>1, PrepareMakesDatagram
    <2> QED
      BY <2>1, <2>2, KnownTypes
  <1>2. CASE SendGarbage
    <2>1. PICK b \in Garbage : stream' = Append(stream, b)
      BY <1>2 DEF SendGarbage
    <2> QED
      BY <2>1, KnownTypes
  <1> QED
    BY <1>1, <1>2

(***************************************************************************)
(* PreparedInv, and the places of the datagrams while the stream is made.  *)
(***************************************************************************)
LEMMA PreparedInit == Init => PreparedInv
  BY DEF Init, PreparedInv

LEMMA PreparedNext ==
  ASSUME TypeOK, PreparedInv, SendDatagram \/ UNCHANGED prepared
  PROVE  PreparedInv'
  <1>1. CASE SendDatagram
    <2>1. PICK data \in Payloads :
            LET dg == PrepareDataForSending(data) IN
            dg # <<>> /\ prepared' = Append(prepared, dg)
      BY <1>1 DEF SendDatagram
    <2> DEFINE dg == PrepareDataForSending(data)
    <2>2. dg \in Seq(Bytes) /\ Datagram(dg)
      BY <2>1, PrepareMakesDatagram
    <2> HIDE DEF dg
    <2>3. /\ Len(prepared') = Len(prepared) + 1
          /\ prepared'[Len(prepared) + 1] = dg
          /\ \A k \in 1 .. Len(prepared) : prepared'[k] = prepared[k]
      BY <2>1, <2>2, KnownTypes DEF dg
    <2>4. \A k \in 1 .. Len(prepared') : k \in 1 .. Len(prepared) \/ k = Len(prepared) + 1
      BY <2>3, KnownTypes
    <2> QED
      BY <2>2, <2>3, <2>4 DEF PreparedInv
  <1>2. CASE UNCHANGED prepared
    BY <1>2 DEF PreparedInv
  <1> QED
    BY <1>1, <1>2

LEMMA Places ==
  ASSUME TypeOK, PreparedInv,
         NEW start \in [1 .. Len(prepared) -> 1 .. Len(stream)], Placed(start),
         NEW k \in 1 .. Len(prepared)
  PROVE  /\ Len(prepared[k]) \in Nat /\ Len(prepared[k]) >= HeadSize
         /\ start[k] \in Nat /\ start[k] >= 1
         /\ EndOf(start, k) = start[k] + Len(prepared[k]) - 1
         /\ EndOf(start, k) \in Nat /\ EndOf(start, k) <= Len(stream)
         /\ \A i \in 1 .. Len(prepared[k]) : start[k] + i - 1 \in 1 .. Len(stream)
  <1>1. prepared[k] \in Seq(Bytes) /\ Len(prepared[k]) \in Nat
    BY KnownTypes
  <1>2. Len(prepared[k]) >= HeadSize
    BY DEF PreparedInv, Datagram
  <1>3. start[k] \in 1 .. Len(stream)
    OBVIOUS
  <1>4. EndOf(start, k) <= Len(stream)
    BY DEF Placed
  <1>5. EndOf(start, k) = start[k] + Len(prepared[k]) - 1
    BY DEF EndOf
  <1> DEFINE n == Len(prepared[k])
             p == start[k]
             len == Len(stream)
  <1>6. len \in Nat
    BY KnownTypes
  <1> HIDE DEF n, p, len
  <1>7. /\ n \in Nat /\ n >= HeadSize /\ p \in 1 .. len /\ p + n - 1 <= len
    BY <1>1, <1>2, <1>3, <1>4, <1>5 DEF n, p, len
  <1>8. /\ p \in Nat /\ p >= 1 /\ p + n - 1 \in Nat
        /\ \A i \in 1 .. n : p + i - 1 \in 1 .. len
    BY <1>6, <1>7, Sizes
  <1> QED
    BY <1>1, <1>2, <1>4, <1>5, <1>8 DEF n, p, len

LEMMA FoundInit == Init => FoundInv
  <1> SUFFICES ASSUME Init PROVE FoundInv
    OBVIOUS
  <1>1. /\ prepared = <<>> /\ stream = <<>> /\ delivered = <<>> /\ pc = "idle"
        /\ Len(prepared) = 0 /\ Len(stream) = 0
    BY DEF Init
  <1> DEFINE start == [k \in 1 .. Len(prepared) |-> k]
  <1>2. start \in [1 .. Len(prepared) -> 1 .. Len(stream)]
    BY <1>1
  <1>3. Found = <<>> /\ Len(Found) = 0
    BY <1>1 DEF Found
  <1>4. Sound(start)
    BY <1>1, <1>3 DEF Sound, Placed, Covered, Reached
  <1> QED
    BY <1>2, <1>4 DEF FoundInv

\* Found does not change by what the sender does.
LEMMA SenderFound ==
  ASSUME SendDatagram \/ SendGarbage
  PROVE  /\ Found' = Found /\ UNCHANGED <<m_parsing_buffer, fed>>
         /\ fed = 0
  BY DEF SendDatagram, SendGarbage, Found, parser

LEMMA GarbageFound ==
  ASSUME TypeOK, BufferInv, PreparedInv, FoundInv, SendGarbage
  PROVE  FoundInv'
  <1> SUFFICES ASSUME clean'
               PROVE  \E start \in [1 .. Len(prepared') -> 1 .. Len(stream')] :
                        Sound(start)'
    BY DEF FoundInv
  <1>1. PICK b \in Garbage : stream' = Append(stream, b) /\ b # Mark /\ clean
    BY DEF SendGarbage
  <1>2. prepared' = prepared
    BY DEF SendGarbage
  <1>3. PICK start \in [1 .. Len(prepared) -> 1 .. Len(stream)] : Sound(start)
    BY <1>1 DEF FoundInv
  <1>4. b \in Bytes
    BY ParserAssumption DEF ParserAssumption, Bytes
  <1>5. /\ Len(stream') = Len(stream) + 1 /\ stream'[Len(stream) + 1] = b
        /\ \A i \in 1 .. Len(stream) : stream'[i] = stream[i]
    BY <1>1, <1>4, KnownTypes
  <1>6. /\ Found' = Found /\ Passed' = Passed
    BY SenderFound DEF Passed
  <1>7. start \in [1 .. Len(prepared') -> 1 .. Len(stream')]
    BY <1>2, <1>3, <1>5, KnownTypes
  <1>8. Placed(start)'
    <2>1. Placed(start)
      BY <1>3 DEF Sound
    <2>2. \A k \in 1 .. Len(prepared) :
            /\ EndOf(start, k) <= Len(stream')
            /\ \A i \in 1 .. Len(prepared[k]) : start[k] + i - 1 \in 1 .. Len(stream)
      <3> TAKE k \in 1 .. Len(prepared)
      <3>1. EndOf(start, k) \in Nat /\ EndOf(start, k) <= Len(stream)
        BY <1>3, <2>1, Places
      <3>2. \A i \in 1 .. Len(prepared[k]) : start[k] + i - 1 \in 1 .. Len(stream)
        BY <1>3, <2>1, Places
      <3> QED
        BY <1>5, <3>1, <3>2, KnownTypes
    <2>3. \A k \in 1 .. Len(prepared) : \A i \in 1 .. Len(prepared[k]) :
            stream'[start[k] + i - 1] = prepared[k][i]
      BY <1>5, <2>1, <2>2 DEF Placed
    <2>4. \A k, l \in 1 .. Len(prepared) : k < l => EndOf(start, k) < start[l]
      BY <2>1 DEF Placed
    <2>5. /\ \A k \in 1 .. Len(prepared') :
               /\ start[k] + Len(prepared'[k]) - 1 <= Len(stream')
               /\ \A i \in 1 .. Len(prepared'[k]) :
                    stream'[start[k] + i - 1] = prepared'[k][i]
          /\ \A k, l \in 1 .. Len(prepared') : 
            k < l => start[k] + Len(prepared'[k]) - 1 < start[l]
      BY <1>2, <2>2, <2>3, <2>4 DEF EndOf
    <2> QED
      BY <2>5 DEF Placed, EndOf
  <1>9. Covered(start)'
    <2>1. \A i \in 1 .. Len(stream') : stream'[i] = Mark => i \in 1 .. Len(stream)
      BY <1>1, <1>5, KnownTypes
    <2> QED
      BY <1>2, <1>3, <1>5, <2>1 DEF Sound, Covered, EndOf
  <1>10. Reached(start)'
    BY <1>2, <1>3, <1>6 DEF Sound, Reached, EndOf
  <1> QED
    BY <1>7, <1>8, <1>9, <1>10 DEF Sound

LEMMA DatagramFound ==
  ASSUME TypeOK, BufferInv, PreparedInv, FoundInv, SendDatagram
  PROVE  FoundInv'
  <1> SUFFICES ASSUME clean'
               PROVE  \E start \in [1 .. Len(prepared') -> 1 .. Len(stream')] :
                        Sound(start)'
    BY DEF FoundInv
  <1>1. PICK data \in Payloads :
          LET dg == PrepareDataForSending(data) IN
          dg # <<>> /\ stream' = stream \o dg /\ prepared' = Append(prepared, dg)
    BY DEF SendDatagram
  <1> DEFINE dg == PrepareDataForSending(data)
             n == Len(prepared)
             s == Len(stream)
  <1>2. dg \in Seq(Bytes) /\ Datagram(dg) /\ Len(dg) \in Nat /\ Len(dg) >= HeadSize
    BY <1>1, PrepareMakesDatagram DEF Datagram
  <1> HIDE DEF dg
  <1>3. /\ n \in Nat /\ s \in Nat
        /\ Len(prepared') = n + 1 /\ prepared'[n + 1] = dg
        /\ \A k \in 1 .. n : prepared'[k] = prepared[k]
    BY <1>1, <1>2, KnownTypes DEF dg
  <1>4. /\ Len(stream') = s + Len(dg)
        /\ \A i \in 1 .. s : stream'[i] = stream[i]
        /\ \A i \in 1 .. Len(dg) : stream'[s + i] = dg[i]
    <2>1. stream' = stream \o dg
      BY <1>1 DEF dg
    <2>2. /\ Len(stream \o dg) = Len(stream) + Len(dg)
          /\ \A i \in 1 .. Len(stream) + Len(dg) : (stream \o dg)[i] =
               IF i <= Len(stream) THEN stream[i] ELSE dg[i - Len(stream)]
      BY <1>2, KnownTypes, ConcatProperties
    <2> HIDE DEF dg
    <2>3. \A i \in 1 .. Len(dg) : s + i \in 1 .. s + Len(dg) /\ ~(s + i <= s) /\ s + i - s = i
      BY <1>2, <1>3
    <2>4. \A i \in 1 .. s : i \in 1 .. s + Len(dg) /\ i <= s
      BY <1>2, <1>3
    <2> QED
      BY <2>1, <2>2, <2>3, <2>4
  <1>5. PICK old \in [1 .. n -> 1 .. s] : Sound(old)
    BY DEF FoundInv, SendDatagram
  <1> DEFINE places == [k \in 1 .. n + 1 |-> IF k = n + 1 THEN s + 1 ELSE old[k]]
  <1>6. Placed(old) /\ Covered(old) /\ Reached(old)
    BY <1>5 DEF Sound
  <1>7. PICK start : start = places
    OBVIOUS
  <1>8. /\ start[n + 1] = s + 1
        /\ \A k \in 1 .. n : start[k] = old[k]
    BY <1>3, <1>7
  <1>range. start \in [1 .. Len(prepared') -> 1 .. Len(stream')]
    <2>1. \A k \in 1 .. n + 1 : start[k] \in 1 .. s + Len(dg)
      <3> TAKE k \in 1 .. n + 1
      <3>1. s + 1 \in 1 .. s + Len(dg)
        BY <1>2, <1>3, Sizes
      <3>2. CASE k # n + 1
        <4>1. k \in 1 .. n
          BY <1>3, <3>2
        <4>2. old[k] \in 1 .. s
          BY <1>5, <4>1
        <4> QED
          BY <1>2, <1>3, <1>8, <4>1, <4>2
      <3> QED
        BY <1>3, <1>8, <3>1, <3>2
    <2> QED
      BY <1>3, <1>4, <1>7, <2>1
  <1> HIDE DEF places
  <1> DEFINE end(k) == start[k] + Len(prepared'[k]) - 1
  <1>9. /\ end(n + 1) = s + Len(dg)
        /\ \A k \in 1 .. n : end(k) = EndOf(old, k)
    BY <1>2, <1>3, <1>8 DEF EndOf
  <1> HIDE DEF end
  <1>10. \A k \in 1 .. n :
           /\ old[k] \in Nat /\ EndOf(old, k) \in Nat /\ EndOf(old, k) <= s
           /\ \A i \in 1 .. Len(prepared[k]) : old[k] + i - 1 \in 1 .. s
    BY <1>5, <1>6, Places
  <1>11. \A k \in 1 .. n + 1 : k \in 1 .. n \/ k = n + 1
    BY <1>3
  <1>12. Placed(start)'
    <2>1. \A k \in 1 .. n + 1 : end(k) <= Len(stream')
      <3>1. end(n + 1) <= s + Len(dg)
        BY <1>2, <1>3, <1>9
      <3>2. \A k \in 1 .. n : end(k) <= s + Len(dg)
        BY <1>2, <1>3, <1>9, <1>10
      <3> QED
        BY <1>4, <1>11, <3>1, <3>2
    <2>2. \A k \in 1 .. n + 1 : \A i \in 1 .. Len(prepared'[k]) :
            stream'[start[k] + i - 1] = prepared'[k][i]
      <3> TAKE k \in 1 .. n + 1
      <3> TAKE i \in 1 .. Len(prepared'[k])
      <3>1. CASE k \in 1 .. n
        <4>1. i \in 1 .. Len(prepared[k]) /\ start[k] = old[k]
          BY <1>3, <1>8, <3>1
        <4>2. stream[old[k] + i - 1] = prepared[k][i] /\ old[k] + i - 1 \in 1 .. s
          BY <1>6, <1>10, <3>1, <4>1 DEF Placed
        <4> QED
          BY <1>3, <1>4, <3>1, <4>1, <4>2
      <3>2. CASE k = n + 1
        <4>1. i \in 1 .. Len(dg) /\ s + 1 + i - 1 = s + i
          BY <1>2, <1>3, <3>2
        <4> QED
          BY <1>3, <1>4, <1>8, <3>2, <4>1
      <3> QED
        BY <1>11, <3>1, <3>2
    <2>3. \A k, l \in 1 .. n + 1 : k < l => end(k) < start[l]
      <3> SUFFICES ASSUME NEW k \in 1 .. n + 1, NEW l \in 1 .. n + 1, k < l
                   PROVE  end(k) < start[l]
        OBVIOUS
      <3>1. k \in 1 .. n
        BY <1>3
      <3>2. CASE l \in 1 .. n
        BY <1>6, <1>8, <1>9, <3>1, <3>2 DEF Placed
      <3>3. CASE l = n + 1
        BY <1>3, <1>8, <1>9, <1>10, <3>1, <3>3
      <3> QED
        BY <1>11, <3>2, <3>3
    <2> QED
      BY <1>3, <2>1, <2>2, <2>3 DEF Placed, EndOf, end
  <1>13. Covered(start)'
    <2> SUFFICES ASSUME NEW i \in 1 .. s + Len(dg), stream'[i] = Mark
                 PROVE  \E k \in 1 .. n + 1 : start[k] <= i /\ i <= end(k)
      BY <1>3, <1>4 DEF Covered, EndOf, end
    <2>1. CASE i <= s
      <3>1. i \in 1 .. s
        BY <1>3, <2>1
      <3>2. PICK k \in 1 .. n : old[k] <= i /\ i <= EndOf(old, k)
        BY <1>4, <1>6, <3>1 DEF Covered
      <3> QED
        BY <1>3, <1>8, <1>9, <3>2
    <2>2. CASE i > s
      BY <1>2, <1>3, <1>8, <1>9, <2>2
    <2> QED
      BY <1>3, <2>1, <2>2
  <1>14. Reached(start)'
    <2>1. Found' = Found /\ Passed' = Passed /\ fed = 0
      BY SenderFound DEF Passed
    <2>2. Passed = 0 /\ Len(Found) \in Nat
      <3>1. Passed = 0
        BY <2>1, KnownTypes DEF BufferInv, Passed
      <3>2. Found \in Seq(Seq(Bytes))
        BY KnownTypes DEF Found
      <3> QED
        BY <3>1, <3>2
    <2>3. Len(Found) <= n
      BY <1>6 DEF Reached
    <2>4. \A k \in 1 .. Len(Found) : Found[k] = prepared'[k] /\ end(k) <= Passed
      BY <1>3, <1>6, <1>9, <2>2, <2>3 DEF Reached
    <2>5. \A k \in Len(Found) + 1 .. n + 1 : Passed < start[k]
      <3> TAKE k \in Len(Found) + 1 .. n + 1
      <3>1. CASE k = n + 1
        BY <1>3, <1>8, <2>2, <3>1
      <3>2. CASE k # n + 1
        <4>1. k \in Len(Found) + 1 .. n /\ k \in 1 .. n
          BY <1>3, <2>2, <3>2
        <4> QED
          BY <1>6, <1>8, <4>1 DEF Reached
      <3> QED
        BY <3>1, <3>2
    <2> QED
      BY <1>3, <2>1, <2>2, <2>3, <2>4, <2>5 DEF Reached, EndOf, end
  <1> QED
    BY <1>range, <1>12, <1>13, <1>14 DEF Sound

-----------------------------------------------------------------------------
(***************************************************************************)
(* The turns of the loop.  A Mark at the front of the buffer is the first  *)
(* byte of the datagram that comes next: it is in a datagram, and in none  *)
(* that has been passed.                                                   *)
(***************************************************************************)
LEMMA FoundTypes ==
  ASSUME TypeOK, BufferInv
  PROVE  /\ Found \in Seq(Seq(Bytes)) /\ Len(Found) \in Nat
         /\ Passed \in Nat /\ Passed + Len(m_parsing_buffer) = fed
         /\ Passed + Len(m_parsing_buffer) <= Len(stream)
  <1>1. Found \in Seq(Seq(Bytes))
    BY KnownTypes DEF Found
  <1>2. Passed \in Nat /\ Passed + Len(m_parsing_buffer) = fed
        /\ Passed + Len(m_parsing_buffer) <= Len(stream)
    BY KnownTypes DEF BufferInv, Passed
  <1> QED
    BY <1>1, <1>2

LEMMA MarkStartsNext ==
  ASSUME TypeOK, BufferInv, PreparedInv,
         NEW start \in [1 .. Len(prepared) -> 1 .. Len(stream)], Sound(start),
         Len(m_parsing_buffer) >= 1, m_parsing_buffer[1] = Mark
  PROVE  /\ Len(Found) + 1 \in 1 .. Len(prepared)
         /\ start[Len(Found) + 1] = Passed + 1
  <1>1. Placed(start) /\ Covered(start) /\ Reached(start)
    BY DEF Sound
  <1>2. Passed + 1 \in 1 .. Len(stream) /\ stream[Passed + 1] = Mark
    BY FoundTypes, KnownTypes DEF BufferInv
  <1>3. PICK k \in 1 .. Len(prepared) : start[k] <= Passed + 1 /\ Passed + 1 <= EndOf(start, k)
    BY <1>1, <1>2 DEF Covered
  <1>4. start[k] \in Nat /\ EndOf(start, k) \in Nat
    BY <1>1, Places
  <1>5. ~(k \in 1 .. Len(Found))
    <2> SUFFICES ASSUME k \in 1 .. Len(Found) PROVE FALSE
      OBVIOUS
    <2>1. EndOf(start, k) <= Passed
      BY <1>1 DEF Reached
    <2> QED
      BY <1>3, <1>4, <2>1, FoundTypes
  <1>6. k \in Len(Found) + 1 .. Len(prepared)
    BY <1>5, FoundTypes, KnownTypes
  <1>7. Passed < start[k]
    BY <1>1, <1>6 DEF Reached
  <1>8. start[k] = Passed + 1
    BY <1>3, <1>4, <1>7, FoundTypes
  <1>9. Len(Found) + 1 \in 1 .. Len(prepared)
        /\ Len(Found) + 1 \in Len(Found) + 1 .. Len(prepared)
    BY <1>6, FoundTypes, KnownTypes
  <1> DEFINE j == Len(Found) + 1
  <1>10. j = k
    <2> SUFFICES ASSUME j # k PROVE FALSE
      OBVIOUS
    <2>1. j \in 1 .. Len(prepared) /\ j < k
      BY <1>6, <1>9, FoundTypes
    <2>2. EndOf(start, j) < start[k]
      BY <1>1, <2>1 DEF Placed
    <2>3. Passed < start[j]
      BY <1>1, <1>9 DEF Reached
    <2>4. /\ Len(prepared[j]) \in Nat /\ Len(prepared[j]) >= HeadSize
          /\ start[j] \in Nat
          /\ EndOf(start, j) = start[j] + Len(prepared[j]) - 1
      BY <1>1, <2>1, Places
    <2> HIDE DEF j
    <2> QED
      BY <1>8, <2>2, <2>3, <2>4, FoundTypes, Sizes
  <1> QED
    BY <1>8, <1>9, <1>10

\* Where the next datagram stands, a good head stands, and it tells the size.
LEMMA NextHasHead ==
  ASSUME TypeOK, BufferInv, PreparedInv,
         NEW start \in [1 .. Len(prepared) -> 1 .. Len(stream)], Placed(start),
         NEW k \in 1 .. Len(prepared), start[k] = Passed + 1
  PROVE  \A i \in 1 .. Len(m_parsing_buffer) :
           i <= Len(prepared[k]) => m_parsing_buffer[i] = prepared[k][i]
  <1> SUFFICES ASSUME NEW i \in 1 .. Len(m_parsing_buffer), i <= Len(prepared[k])
               PROVE  m_parsing_buffer[i] = prepared[k][i]
    OBVIOUS
  <1>1. i \in 1 .. Len(prepared[k])
    BY Places, KnownTypes
  <1>2. start[k] + i - 1 = Passed + i
    BY FoundTypes
  <1>3. stream[Passed + i] = prepared[k][i]
    BY <1>1, <1>2 DEF Placed
  <1> QED
    BY <1>3 DEF BufferInv

\* So the byte that the error state drops starts no datagram.
LEMMA ErrorDropsNoStart ==
  ASSUME Known, BufferInv, PreparedInv, ErrorTurn,
         NEW start \in [1 .. Len(prepared) -> 1 .. Len(stream)], Placed(start),
         NEW k \in 1 .. Len(prepared)
  PROVE  start[k] # Passed + 1
  <1> SUFFICES ASSUME start[k] = Passed + 1 PROVE FALSE
    OBVIOUS
  <1> USE DEF Known
  <1>1. /\ Len(m_parsing_buffer) >= HeadSize
        /\ \/ m_parsing_buffer[1] # Mark
           \/ ~GoodHead(SubSeq(m_parsing_buffer, 1, HeadSize))
    BY DEF ErrorTurn, Turn, StateInv
  <1>2. /\ Len(prepared[k]) \in Nat /\ Len(prepared[k]) >= HeadSize
        /\ \A i \in 1 .. WordLen : prepared[k][i] = Mark
        /\ prepared[k][HeadSize] = Len(prepared[k])
    BY Places DEF PreparedInv, Datagram, SizeField
  <1>3. \A i \in 1 .. HeadSize : m_parsing_buffer[i] = prepared[k][i]
    <2> TAKE i \in 1 .. HeadSize
    <2>1. i \in 1 .. Len(m_parsing_buffer) /\ i <= Len(prepared[k])
      BY <1>1, <1>2, Sizes, KnownTypes
    <2> QED
      BY <2>1, NextHasHead
  <1> DEFINE head == SubSeq(m_parsing_buffer, 1, HeadSize)
  <1>4. /\ head \in Seq(Bytes) /\ Len(head) = HeadSize
        /\ \A i \in 1 .. HeadSize : head[i] = m_parsing_buffer[i]
    BY <1>1, Sizes, KnownTypes, Taken
  <1> HIDE DEF head
  <1>5. /\ \A i \in 1 .. WordLen : head[i] = Mark
        /\ SizeField(head) >= PointerSize
    BY <1>2, <1>3, <1>4, Sizes DEF SizeField
  <1>6. GoodHead(head)
    <2>1. Len(head) >= HeadSize
      BY <1>4, Sizes
    <2> QED
      BY <1>4, <1>5, <2>1, GoodHeadMeans
  <1>7. m_parsing_buffer[1] = Mark
    BY <1>2, <1>3, Sizes
  <1> QED
    BY <1>1, <1>6, <1>7 DEF head

LEMMA PlacesStay ==
  ASSUME UNCHANGED <<stream, prepared>>, NEW start, Sound(start)
  PROVE  Placed(start)' /\ Covered(start)'
  BY DEF Sound, Placed, Covered, EndOf

LEMMA ErrorFound ==
  ASSUME Known, BufferInv, PreparedInv, FoundInv, ErrorTurn
  PROVE  FoundInv'
  <1>1. UNCHANGED <<stream, prepared, clean>> /\ Found' = Found
    BY DEF ErrorTurn, Turn, Found, sender
  <1>2. Passed' = Passed + 1
    BY ErrorTakesOne DEF Known
  <1> SUFFICES ASSUME NEW start \in [1 .. Len(prepared) -> 1 .. Len(stream)], Sound(start)
               PROVE  Sound(start)'
    BY <1>1 DEF FoundInv
  <1>3. /\ Len(Found) <= Len(prepared)
        /\ \A k \in 1 .. Len(Found) : Found[k] = prepared[k] /\ EndOf(start, k) <= Passed
        /\ \A k \in Len(Found) + 1 .. Len(prepared) : Passed < start[k]
    BY DEF Sound, Reached
  <1>4. \A k \in 1 .. Len(Found) : EndOf(start, k) <= Passed + 1
    <2> TAKE k \in 1 .. Len(Found)
    <2>1. k \in 1 .. Len(prepared)
      BY <1>3, FoundTypes, KnownTypes DEF Known
    <2>2. EndOf(start, k) \in Nat
      BY <2>1, Places DEF Known, Sound
    <2> QED
      BY <1>3, <2>2, FoundTypes DEF Known
  <1>5. \A k \in Len(Found) + 1 .. Len(prepared) : Passed + 1 < start[k]
    <2> TAKE k \in Len(Found) + 1 .. Len(prepared)
    <2>1. k \in 1 .. Len(prepared)
      BY FoundTypes DEF Known
    <2>2. start[k] \in Nat /\ start[k] # Passed + 1
      BY <2>1, ErrorDropsNoStart, Places DEF Known, Sound
    <2> QED
      BY <1>3, <2>2, FoundTypes DEF Known
  <1>6. Reached(start)'
    BY <1>1, <1>2, <1>3, <1>4, <1>5 DEF Reached, EndOf
  <1> QED
    BY <1>1, <1>6, PlacesStay DEF Sound

\* What is complete is the next datagram, and its size is the true one.
LEMMA CompleteIsNext ==
  ASSUME Known, BufferInv, PreparedInv, ReceivingComplete,
         NEW start \in [1 .. Len(prepared) -> 1 .. Len(stream)], Sound(start)
  PROVE  /\ Len(Found) + 1 \in 1 .. Len(prepared)
         /\ start[Len(Found) + 1] = Passed + 1
         /\ m_tmp_dg_buf = prepared[Len(Found) + 1]
  <1> USE DEF Known
  <1>1. /\ Len(m_tmp_dg_buf) >= HeadSize
        /\ \A i \in 1 .. WordLen : m_tmp_dg_buf[i] = Mark
        /\ SizeField(m_tmp_dg_buf) = Len(m_tmp_dg_buf)
    BY DEF ReceivingComplete, Turn, StateInv, TmpIsFront
  <1>2. /\ Len(m_tmp_dg_buf) <= Len(m_parsing_buffer)
        /\ \A i \in 1 .. Len(m_tmp_dg_buf) : m_tmp_dg_buf[i] = m_parsing_buffer[i]
    BY CompleteShortens
  <1>3. Len(m_parsing_buffer) >= 1 /\ m_parsing_buffer[1] = Mark
    BY <1>1, <1>2, Sizes, KnownTypes
  <1> DEFINE j == Len(Found) + 1
  <1>4. j \in 1 .. Len(prepared) /\ start[j] = Passed + 1
    BY <1>3, MarkStartsNext
  <1> HIDE DEF j
  <1>5. \A i \in 1 .. Len(m_parsing_buffer) :
          i <= Len(prepared[j]) => m_parsing_buffer[i] = prepared[j][i]
    BY <1>4, NextHasHead DEF Sound
  <1>6. Len(prepared[j]) \in Nat /\ Len(prepared[j]) >= HeadSize
        /\ prepared[j] \in Seq(Bytes)
    <2>1. Len(prepared[j]) \in Nat /\ Len(prepared[j]) >= HeadSize
      BY <1>4, Places DEF Sound
    <2>2. prepared \in Seq(Seq(Bytes))
      BY KnownTypes
    <2> QED
      BY <1>4, <2>1, <2>2
  <1>7. Len(m_tmp_dg_buf) = Len(prepared[j])
    <2>1. prepared[j][HeadSize] = Len(prepared[j])
      BY <1>4 DEF PreparedInv, Datagram, SizeField
    <2>2. HeadSize \in 1 .. Len(m_tmp_dg_buf) /\ HeadSize \in 1 .. Len(m_parsing_buffer)
          /\ HeadSize <= Len(prepared[j])
      BY <1>1, <1>2, <1>6, Sizes, KnownTypes
    <2>3. m_tmp_dg_buf[HeadSize] = prepared[j][HeadSize]
      BY <1>2, <1>5, <2>2
    <2> QED
      BY <1>1, <2>1, <2>3 DEF SizeField
  <1>8. \A i \in 1 .. Len(m_tmp_dg_buf) : m_tmp_dg_buf[i] = prepared[j][i]
    <2> TAKE i \in 1 .. Len(m_tmp_dg_buf)
    <2>1. i \in 1 .. Len(m_parsing_buffer) /\ i <= Len(prepared[j])
      BY <1>2, <1>7, KnownTypes
    <2> QED
      BY <1>2, <1>5, <2>1
  <1>9. m_tmp_dg_buf = prepared[j]
    <2> HIDE DEF Known
    <2>1. m_tmp_dg_buf \in Seq(Bytes)
      BY KnownTypes DEF Known
    <2> QED
      BY <1>6, <1>7, <1>8, <2>1
  <1> QED
    BY <1>4, <1>9 DEF j

LEMMA CompleteFound ==
  ASSUME Known, BufferInv, PreparedInv, FoundInv, ReceivingComplete
  PROVE  FoundInv'
  <1>1. UNCHANGED <<stream, prepared, clean>>
        /\ Found = delivered \o dg_vector
        /\ Found' = delivered \o Append(dg_vector, m_tmp_dg_buf)
    BY DEF ReceivingComplete, Turn, Found, sender
  <1>2. Passed' = Passed + Len(m_tmp_dg_buf)
    BY CompleteTakesDatagram DEF Known
  <1> SUFFICES ASSUME NEW start \in [1 .. Len(prepared) -> 1 .. Len(stream)], Sound(start)
               PROVE  Sound(start)'
    BY <1>1 DEF FoundInv
  <1> DEFINE n == Len(Found)
             j == n + 1
  <1>3. n \in Nat /\ Len(prepared) \in Nat
    BY FoundTypes, KnownTypes DEF Known
  <1>4. /\ j \in 1 .. Len(prepared) /\ start[j] = Passed + 1
        /\ m_tmp_dg_buf = prepared[j]
    BY CompleteIsNext
  <1>5. Len(Found') = n + 1 /\ Found'[j] = prepared[j]
        /\ \A k \in 1 .. n : Found'[k] = Found[k]
    <2>1. m_tmp_dg_buf \in Seq(Bytes)
      BY KnownTypes DEF Known
    <2>2. Found' = Append(Found, m_tmp_dg_buf)
      <3> HIDE DEF n, j
      <3> QED
        BY <1>1, <2>1, KnownTypes DEF Known
    <2>3. Found \in Seq(Seq(Bytes))
      BY FoundTypes DEF Known
    <2> QED
      BY <1>4, <2>1, <2>2, <2>3
  <1>6. /\ Len(Found) <= Len(prepared)
        /\ \A k \in 1 .. n : Found[k] = prepared[k] /\ EndOf(start, k) <= Passed
        /\ \A k \in n + 1 .. Len(prepared) : Passed < start[k]
    BY DEF Sound, Reached
  <1>7. \A k \in 1 .. Len(prepared) :
          /\ start[k] \in Nat /\ EndOf(start, k) \in Nat
          /\ EndOf(start, k) = start[k] + Len(prepared[k]) - 1
    BY Places DEF Known, Sound
  <1>8. Passed' = EndOf(start, j) /\ Passed <= EndOf(start, j)
    BY <1>2, <1>4, <1>7, FoundTypes, Places, Sizes DEF Known, Sound
  <1> HIDE DEF n, j
  <1>9. \A k \in 1 .. n + 1 : Found'[k] = prepared[k] /\ EndOf(start, k) <= Passed'
    <2> TAKE k \in 1 .. n + 1
    <2>1. CASE k = n + 1
      BY <1>4, <1>5, <1>7, <1>8, <2>1 DEF j
    <2>2. CASE k # n + 1
      <3>1. k \in 1 .. n /\ k \in 1 .. Len(prepared)
        BY <1>3, <1>4, <2>2 DEF j
      <3>2. Found'[k] = prepared[k] /\ EndOf(start, k) <= Passed
        BY <1>5, <1>6, <3>1
      <3> QED
        BY <1>4, <1>7, <1>8, <3>1, <3>2, FoundTypes DEF Known
    <2> QED
      BY <2>1, <2>2
  <1>10. \A k \in n + 1 + 1 .. Len(prepared) : Passed' < start[k]
    <2> TAKE k \in n + 1 + 1 .. Len(prepared)
    <2>1. j \in 1 .. Len(prepared) /\ k \in 1 .. Len(prepared) /\ j < k
      BY <1>3, <1>4 DEF j
    <2> QED
      BY <1>8, <2>1 DEF Sound, Placed
  <1>11. Reached(start)'
    <2>1. n + 1 <= Len(prepared)
      BY <1>4 DEF j
    <2> QED
      BY <1>1, <1>5, <1>9, <1>10, <2>1 DEF Reached, EndOf
  <1> QED
    BY <1>1, <1>11, PlacesStay DEF Sound

\* The steps that move neither Passed nor Found.
LEMMA StaysFound ==
  ASSUME FoundInv, UNCHANGED <<stream, prepared, clean>>, Passed' = Passed, Found' = Found
  PROVE  FoundInv'
  BY DEF FoundInv, Sound, Placed, Covered, Reached, EndOf

\* Of the steps of the parser only ErrorTurn and ReceivingComplete move them.
LEMMA OthersStay ==
  ASSUME Known, BufferInv, [Next]_vars,
         ~(SendDatagram \/ SendGarbage) /\ ~ErrorTurn /\ ~ReceivingComplete
  PROVE  BufferInv' /\ UNCHANGED <<stream, prepared, clean>>
         /\ Passed' = Passed /\ Found' = Found
  <1>1. CASE Put
    <2>1. BufferInv' /\ Passed' = Passed
      BY <1>1, PutKeepsBuffer DEF Known
    <2>2. /\ UNCHANGED <<stream, prepared, clean, delivered>>
          /\ pc = "idle" /\ pc' = "loop" /\ dg_vector' = <<>>
      BY <1>1 DEF Put, sender
    <2> QED
      BY <2>1, <2>2 DEF Found
  <1>2. CASE ~Put
    <2>1. UNCHANGED <<m_parsing_buffer, fed, stream, prepared, clean>>
      BY <1>2 DEF Next, ParseData, NoData, ReceivingHeader, ReceivingData, WaitNewData,
                  LoopEnd, Return, vars, parser, sender
    <2>2. Found' = Found
      <3>1. CASE Return
        <4>1. delivered' = delivered \o dg_vector /\ pc = "return" /\ pc' = "idle"
          BY <3>1 DEF Return
        <4>2. delivered' \in Seq(Seq(Bytes))
          BY <4>1, KnownTypes DEF Known
        <4>3. delivered' \o <<>> = delivered'
          BY <4>2
        <4> QED
          BY <4>1, <4>3 DEF Found
      <3>2. CASE ~Return
        <4>1. UNCHANGED <<delivered, dg_vector>> /\ (pc' = "idle" <=> pc = "idle")
          BY <1>2, <3>2 DEF Next, ParseData, NoData, ReceivingHeader, ReceivingData,
                            WaitNewData, LoopEnd, Turn, vars, parser
        <4> QED
          BY <4>1 DEF Found
      <3> QED
        BY <3>1, <3>2
    <2>3. BufferInv' /\ Passed' = Passed
      BY <2>1, BufferStays DEF Known
    <2> QED
      BY <2>1, <2>2, <2>3
  <1> QED
    BY <1>1, <1>2

LEMMA FoundNext ==
  Known /\ BufferInv /\ PreparedInv /\ FoundInv /\ [Next]_vars
    => BufferInv' /\ PreparedInv' /\ FoundInv'
  <1> SUFFICES ASSUME Known, BufferInv, PreparedInv, FoundInv, [Next]_vars
               PROVE  BufferInv' /\ PreparedInv' /\ FoundInv'
    OBVIOUS
  <1>1. PreparedInv'
    <2>1. SendDatagram \/ UNCHANGED prepared
      BY DEF Next, ParseData, SendGarbage, Put, NoData, ReceivingHeader, ReceivingData,
             WaitNewData, ReceivingComplete, ErrorTurn, LoopEnd, Return, vars, sender
    <2> QED
      BY <2>1, PreparedNext DEF Known
  <1>2. CASE SendDatagram \/ SendGarbage
    <2>1. BufferInv'
      BY <1>2, StreamGrows, SenderFound, BufferStays DEF Known
    <2>2. FoundInv'
      BY <1>2, DatagramFound, GarbageFound DEF Known
    <2> QED
      BY <1>1, <2>1, <2>2
  <1>3. CASE ErrorTurn
    BY <1>1, <1>3, ErrorTakesOne, ErrorFound DEF Known
  <1>4. CASE ReceivingComplete
    BY <1>1, <1>4, CompleteTakesDatagram, CompleteFound DEF Known
  <1>5. CASE ~(SendDatagram \/ SendGarbage) /\ ~ErrorTurn /\ ~ReceivingComplete
    BY <1>1, <1>5, OthersStay, StaysFound
  <1> QED
    BY <1>2, <1>3, <1>4, <1>5

\* When put has returned and all has been put, no datagram is still to come.
LEMMA AllFound == IInv => PreparedArrive
  <1> SUFFICES ASSUME IInv, pc = "idle", fed = Len(stream), clean
               PROVE  delivered = prepared
    BY DEF PreparedArrive
  <1>1. Known /\ BufferInv /\ PreparedInv /\ FoundInv
    BY DEF IInv, Known
  <1>2. PICK start \in [1 .. Len(prepared) -> 1 .. Len(stream)] : Sound(start)
    BY <1>1 DEF FoundInv
  <1>3. Placed(start) /\ Reached(start)
    BY <1>2 DEF Sound
  <1>4. Found = delivered
    BY <1>1, KnownTypes DEF Found, Known
  <1>5. Len(Found) = Len(prepared)
    <2> DEFINE j == Len(Found) + 1
               len == Len(m_parsing_buffer)
    <2> SUFFICES ASSUME Len(Found) # Len(prepared) PROVE FALSE
      OBVIOUS
    <2>1. j \in Len(Found) + 1 .. Len(prepared) /\ j \in 1 .. Len(prepared)
      BY <1>1, <1>3, FoundTypes, KnownTypes DEF Reached, Known
    <2>2. Passed < start[j]
      BY <1>3, <2>1 DEF Reached
    <2>3. /\ Len(prepared[j]) \in Nat /\ Len(prepared[j]) >= HeadSize
          /\ start[j] \in Nat
          /\ start[j] + Len(prepared[j]) - 1 <= Len(stream)
      BY <1>1, <1>2, <1>3, <2>1, Places DEF Known
    <2>4. /\ Passed \in Nat /\ len \in Nat /\ Passed + len = Len(stream)
      BY <1>1, FoundTypes, KnownTypes DEF Known
    <2> HIDE DEF j, len
    <2>5. len >= HeadSize /\ len >= Len(prepared[j])
      BY <2>2, <2>3, <2>4, Sizes
    <2>6. m_state = "STATE_RECEIVING_DATA" /\ len < SizeField(m_tmp_dg_buf)
      BY <1>1, <2>4, <2>5, Sizes DEF Known, StateInv, Waits, len
    <2>7. /\ HeadSize <= len /\ GoodHead(m_tmp_dg_buf)
          /\ m_tmp_dg_buf = SubSeq(m_parsing_buffer, 1, HeadSize)
      BY <1>1, <2>6 DEF Known, TmpIsFront, Front, len
    <2>8. Len(m_tmp_dg_buf) = HeadSize
          /\ \A i \in 1 .. HeadSize : m_tmp_dg_buf[i] = m_parsing_buffer[i]
      BY <1>1, <2>7, Sizes, KnownTypes, Taken DEF Known, len
    <2>9. m_parsing_buffer[1] = Mark /\ len >= 1
      <3>1. Len(m_tmp_dg_buf) >= HeadSize /\ m_tmp_dg_buf \in Seq(Bytes)
        BY <1>1, <2>8, Sizes, KnownTypes DEF Known
      <3>2. \A i \in 1 .. WordLen : m_tmp_dg_buf[i] = Mark
        BY <2>7, <3>1, GoodHeadMeans
      <3> QED
        BY <2>4, <2>5, <2>8, <3>2, Sizes
    <2>10. start[j] = Passed + 1
      BY <1>1, <1>2, <2>9, MarkStartsNext DEF Known, j, len
    <2>11. m_parsing_buffer[HeadSize] = prepared[j][HeadSize]
      <3>1. HeadSize \in 1 .. len /\ HeadSize <= Len(prepared[j])
        BY <2>3, <2>4, <2>5, Sizes
      <3> QED
        BY <1>1, <1>2, <1>3, <2>1, <2>10, <3>1, NextHasHead DEF Known, len
    <2>12. SizeField(m_tmp_dg_buf) = Len(prepared[j])
      BY <1>1, <2>1, <2>8, <2>11, Sizes DEF SizeField, PreparedInv, Datagram
    <2> QED
      BY <2>3, <2>4, <2>5, <2>6, <2>12
  <1>6. \A k \in 1 .. Len(Found) : Found[k] = prepared[k]
    BY <1>3 DEF Reached
  <1> QED
    <2>1. delivered \in Seq(Seq(Bytes)) /\ prepared \in Seq(Seq(Bytes))
      BY <1>1, KnownTypes DEF Known
    <2>2. Len(delivered) = Len(prepared) /\ \A k \in 1 .. Len(delivered) : delivered[k] = prepared[k]
      BY <1>4, <1>5, <1>6
    <2> DEFINE S == Seq(Bytes)
    <2> HIDE DEF S
    <2>3. /\ delivered \in [1 .. Len(delivered) -> S]
          /\ prepared \in [1 .. Len(prepared) -> S]
      BY <2>1, LenProperties DEF S
    <2> QED
      BY <2>2, <2>3

-----------------------------------------------------------------------------
(***************************************************************************)
(* The definition of the datagrams of a stream.  DatagramsFrom(s) is a     *)
(* recursive function: that there is a function with that equation is      *)
(* shown from the end of s, and so is the type of its values, each time by *)
(* the least counterexample.                                               *)
(***************************************************************************)
LEMMA LeastNatural ==
  ASSUME NEW T \in SUBSET Nat, T # {}
  PROVE  \E x \in T : \A y \in T : x <= y
  <1> DEFINE R == OpToRel(<, Nat)
  <1>1. IsWellFoundedOn(R, Nat)
    BY NatLessThanWellFounded
  <1>2. \A x, y \in Nat : x < y => <<x, y>> \in R
    BY DEF OpToRel
  <1> HIDE DEF R
  <1>3. \E x \in T : \A y \in T : ~ (<<y, x>> \in R)
    BY <1>1, WFMin
  <1>4. PICK x \in T : \A y \in T : ~ (<<y, x>> \in R)
    BY <1>3
  <1>5. \A y \in T : ~(y < x)
    BY <1>2, <1>4
  <1> QED
    BY <1>5

LEMMA HeadAtMeans ==
  ASSUME NEW s \in Seq(Bytes), NEW i \in Nat \ {0}, i + WordLen <= Len(s)
  PROVE  /\ HeadAt(s, i) <=>
              /\ \A k \in 1 .. WordLen : s[i + k - 1] = Mark
              /\ s[i + WordLen] >= HeadSize
         /\ s[i + WordLen] \in Nat
  <1>1. /\ i - 1 \in Nat /\ i + WordLen - 1 \in Nat /\ Len(s) \in Nat
        /\ i - 1 <= i + WordLen - 1 /\ i + WordLen - 1 <= Len(s)
        /\ i - 1 + 1 = i /\ i + WordLen - 1 - (i - 1) = WordLen
        /\ \A k \in Nat : i - 1 + k = i + k - 1
    BY Sizes
  <1> DEFINE word == SubSeq(s, i, i + WordLen - 1)
  <1>2. word = SubSeq(s, i - 1 + 1, i + WordLen - 1)
    BY <1>1
  <1> HIDE DEF word
  <1>3. /\ word \in Seq(Bytes) /\ Len(word) = WordLen
        /\ \A k \in 1 .. WordLen : word[k] = s[i + k - 1]
    <2> DEFINE m == i - 1
               n == i + WordLen - 1
    <2>1. /\ m \in Nat /\ n \in Nat /\ m <= n /\ n <= Len(s) /\ n - m = WordLen
          /\ \A k \in Nat : m + k = i + k - 1
      BY <1>1, Sizes
    <2>2. word = SubSeq(s, m + 1, n)
      BY <1>2
    <2> HIDE DEF m, n
    <2>3. /\ word \in Seq(Bytes) /\ Len(word) = n - m
          /\ \A k \in 1 .. n - m : word[k] = s[m + k]
      BY <2>1, <2>2, Slice
    <2>4. \A k \in 1 .. WordLen : word[k] = s[i + k - 1]
      <3> TAKE k \in 1 .. WordLen
      <3>1. k \in 1 .. n - m /\ m + k = i + k - 1
        BY <2>1, Sizes
      <3>2. word[k] = s[m + k]
        BY <2>3, <3>1
      <3> QED
        BY <3>1, <3>2
    <2> QED
      BY <2>1, <2>3, <2>4
  <1>4. word = MainWord <=> \A k \in 1 .. WordLen : word[k] = Mark
    BY <1>3, Sizes DEF MainWord
  <1>5. s[i + WordLen] \in Nat
    <2>1. i + WordLen \in 1 .. Len(s)
      BY <1>1, Sizes
    <2> QED
      BY <2>1, Sizes DEF Bytes
  <1> QED
    BY <1>3, <1>4, <1>5 DEF HeadAt, word

\* The search looks behind the place where it stands.
LEMMA SearchLooksAhead ==
  ASSUME NEW s \in Seq(Bytes), NEW i \in 1 .. Len(s) + 1, NEW f, NEW g,
         \A k \in i + 1 .. Len(s) + 1 : f[k] = g[k]
  PROVE  Search(s, f, i) = Search(s, g, i)
  <1>1. CASE i + WordLen > Len(s)
    BY <1>1 DEF Search
  <1>2. CASE ~(i + WordLen > Len(s))
    <2>1. i \in Nat \ {0} /\ Len(s) \in Nat /\ i + WordLen <= Len(s)
      BY <1>2, Sizes
    <2>2. f[i + 1] = g[i + 1]
      BY <2>1, Sizes
    <2>3. ASSUME HeadAt(s, i), ~(i + s[i + WordLen] - 1 > Len(s))
          PROVE  f[i + s[i + WordLen] - 1 + 1] = g[i + s[i + WordLen] - 1 + 1]
      <3>1. s[i + WordLen] >= HeadSize /\ s[i + WordLen] \in Nat
        BY <2>1, <2>3, HeadAtMeans
      <3>2. i + s[i + WordLen] - 1 + 1 \in i + 1 .. Len(s) + 1
        BY <2>1, <2>3, <3>1, Sizes
      <3> QED
        BY <3>2
    <2> QED
      BY <1>2, <2>2, <2>3 DEF Search
  <1> QED
    BY <1>1, <1>2

\* The search can be defined from the last k places on.
Defined(s, k) ==
  \E f : \A i \in Len(s) + 2 - k .. Len(s) + 1 : f[i] = Search(s, f, i)

LEMMA DefinedOneMore ==
  ASSUME NEW s \in Seq(Bytes), NEW k \in 1 .. Len(s) + 1, Defined(s, k - 1)
  PROVE  Defined(s, k)
  <1> DEFINE n == Len(s) + 1
             a == n + 1 - k
  <1>1. n \in Nat /\ k \in Nat /\ a \in 1 .. n /\ Len(s) + 2 - (k - 1) = a + 1
        /\ Len(s) + 2 - k = a
    OBVIOUS
  <1>2. PICK g : \A i \in a + 1 .. n : g[i] = Search(s, g, i)
    BY <1>1 DEF Defined
  <1>3. PICK f : f = [i \in a .. n |-> IF i = a THEN Search(s, g, a) ELSE g[i]]
    OBVIOUS
  <1> HIDE DEF a, n
  <1>4. f[a] = Search(s, g, a) /\ \A i \in a + 1 .. n : f[i] = g[i]
    BY <1>1, <1>3
  <1>5. \A i \in a .. n : Search(s, f, i) = Search(s, g, i)
    <2> TAKE i \in a .. n
    <2>1. i \in 1 .. Len(s) + 1 /\ \A j \in i + 1 .. Len(s) + 1 : f[j] = g[j]
      BY <1>1, <1>4 DEF n
    <2> QED
      BY <2>1, SearchLooksAhead
  <1>6. \A i \in a .. n : f[i] = Search(s, f, i)
    <2> TAKE i \in a .. n
    <2>1. CASE i = a
      BY <1>4, <1>5, <2>1
    <2>2. CASE i # a
      <3>1. i \in a + 1 .. n
        BY <1>1, <2>2
      <3> QED
        BY <1>2, <1>4, <1>5, <3>1
    <2> QED
      BY <2>1, <2>2
  <1> QED
    BY <1>1, <1>6 DEF Defined, n

LEMMA DefinedEverywhere ==
  ASSUME NEW s \in Seq(Bytes)
  PROVE  Defined(s, Len(s) + 1)
  <1> DEFINE T == {k \in 0 .. Len(s) + 1 : ~Defined(s, k)}
  <1> SUFFICES ASSUME T # {} PROVE FALSE
    BY DEF T
  <1>1. T \in SUBSET Nat
    OBVIOUS
  <1>2. PICK k \in T : \A y \in T : k <= y
    BY <1>1, LeastNatural
  <1>3. CASE k = 0
    <2>1. \A i \in Len(s) + 2 - 0 .. Len(s) + 1 : FALSE
      OBVIOUS
    <2>2. Defined(s, 0)
      BY <2>1 DEF Defined
    <2> QED
      BY <1>2, <1>3, <2>2
  <1>4. CASE k # 0
    <2>1. k \in 1 .. Len(s) + 1 /\ k - 1 \in 0 .. Len(s) + 1 /\ ~(k <= k - 1)
      BY <1>2, <1>4
    <2>2. Defined(s, k - 1)
      BY <1>2, <2>1
    <2> QED
      BY <1>2, <2>1, <2>2, DefinedOneMore
  <1> QED
    BY <1>3, <1>4

\* The equation of the recursive function.
LEMMA SearchEquation ==
  ASSUME NEW s \in Seq(Bytes), NEW i \in 1 .. Len(s) + 1
  PROVE  DatagramsFrom(s)[i] = Search(s, DatagramsFrom(s), i)
  <1> DEFINE n == Len(s) + 1
  <1>1. n \in Nat /\ Len(s) + 2 - n = 1
    OBVIOUS
  <1>2. PICK f : \A j \in 1 .. n : f[j] = Search(s, f, j)
    BY <1>1, DefinedEverywhere DEF Defined
  <1>3. PICK h : h = [j \in 1 .. n |-> f[j]]
    OBVIOUS
  <1>4. \A j \in 1 .. n : h[j] = Search(s, h, j)
    <2> TAKE j \in 1 .. n
    <2>1. \A l \in j + 1 .. Len(s) + 1 : f[l] = h[l]
      BY <1>3
    <2>2. Search(s, f, j) = Search(s, h, j)
      BY <2>1, SearchLooksAhead
    <2> QED
      BY <1>2, <1>3, <2>2
  <1>5. \E g : g = [j \in 1 .. Len(s) + 1 |-> Search(s, g, j)]
    <2>1. h = [j \in 1 .. n |-> Search(s, h, j)]
      BY <1>3, <1>4
    <2> QED
      BY <2>1
  <1> DEFINE from[j \in 1 .. Len(s) + 1] == Search(s, from, j)
  <1>6. from = [j \in 1 .. Len(s) + 1 |-> Search(s, from, j)]
    BY <1>5
  <1>7. DatagramsFrom(s) = from
    BY DEF DatagramsFrom
  <1> HIDE DEF from
  <1>8. from[i] = Search(s, from, i)
    BY <1>6
  <1> QED
    BY <1>7, <1>8

LEMMA SearchTypes ==
  ASSUME NEW s \in Seq(Bytes), NEW i \in 1 .. Len(s) + 1,
         \A k \in i + 1 .. Len(s) + 1 : DatagramsFrom(s)[k] \in Seq(Seq(Bytes))
  PROVE  DatagramsFrom(s)[i] \in Seq(Seq(Bytes))
  <1> DEFINE from == DatagramsFrom(s)
             size == s[i + WordLen]
  <1>1. from[i] = Search(s, from, i)
    BY SearchEquation
  <1> HIDE DEF from
  <1>2. i \in Nat \ {0} /\ Len(s) \in Nat
    OBVIOUS
  <1>3. CASE from[i] = <<>>
    BY <1>3 DEF from
  <1>4. CASE i + WordLen <= Len(s) /\ ~HeadAt(s, i)
    <2>1. from[i] = from[i + 1]
      BY <1>1, <1>2, <1>4, Sizes DEF Search
    <2>2. i + 1 \in i + 1 .. Len(s) + 1
      BY <1>2, <1>4, Sizes
    <2> QED
      BY <2>1, <2>2 DEF from
  <1>5. CASE i + WordLen <= Len(s) /\ HeadAt(s, i) /\ i + size - 1 <= Len(s)
    <2>1. size \in Nat /\ size >= HeadSize
      BY <1>2, <1>5, HeadAtMeans
    <2>2. ~(i + WordLen > Len(s)) /\ ~(i + size - 1 > Len(s))
      BY <1>2, <1>5, <2>1, Sizes
    <2>3. from[i] = <<SubSeq(s, i, i + size - 1)>> \o from[i + size - 1 + 1]
      BY <1>1, <1>5, <2>2 DEF Search
    <2>4. i + size - 1 + 1 \in i + 1 .. Len(s) + 1
      BY <1>2, <1>5, <2>1, Sizes
    <2>5. SubSeq(s, i, i + size - 1) \in Seq(Bytes)
      <3>1. \A k \in i .. i + size - 1 : s[k] \in Bytes
        BY <1>2, <1>5, <2>1
      <3>2. i \in Int /\ i + size - 1 \in Int
        BY <1>2, <2>1
      <3> HIDE DEF size
      <3> QED
        BY <3>1, <3>2, SubSeqProperties
    <2> HIDE DEF size
    <2>6. from[i + size - 1 + 1] \in Seq(Seq(Bytes))
      BY <2>4 DEF from
    <2>7. <<SubSeq(s, i, i + size - 1)>> \in Seq(Seq(Bytes))
      BY <2>5
    <2> QED
      BY <2>3, <2>6, <2>7 DEF from
  <1> QED
    <2> HIDE DEF size
    <2>1. \/ i + WordLen > Len(s)
          \/ i + WordLen <= Len(s) /\ ~HeadAt(s, i)
          \/ i + WordLen <= Len(s) /\ HeadAt(s, i)
      BY <1>2, Sizes
    <2>2. CASE i + WordLen > Len(s)
      BY <1>1, <1>3, <2>2 DEF Search
    <2>3. CASE i + WordLen <= Len(s) /\ HeadAt(s, i)
      <3>1. size \in Nat
        BY <1>2, <2>3, HeadAtMeans DEF size
      <3>2. CASE i + size - 1 > Len(s)
        BY <1>1, <1>2, <1>3, <2>3, <3>2, Sizes DEF Search, size
      <3>3. CASE ~(i + size - 1 > Len(s))
        BY <1>2, <1>5, <2>3, <3>1, <3>3
      <3> QED
        BY <3>2, <3>3
    <2> QED
      BY <1>4, <2>1, <2>2, <2>3

LEMMA DatagramsFromType ==
  ASSUME NEW s \in Seq(Bytes), NEW i \in 1 .. Len(s) + 1
  PROVE  DatagramsFrom(s)[i] \in Seq(Seq(Bytes))
  <1> DEFINE n == Len(s) + 1
             T == {k \in 0 .. Len(s) : DatagramsFrom(s)[n - k] \notin Seq(Seq(Bytes))}
  <1>1. n \in Nat /\ Len(s) \in Nat /\ n = Len(s) + 1
    OBVIOUS
  <1> HIDE DEF n
  <1>2. T = {}
    <2> SUFFICES ASSUME T # {} PROVE FALSE
      OBVIOUS
    <2>1. T \in SUBSET Nat
      OBVIOUS
    <2>2. PICK k \in T : \A y \in T : k <= y
      BY <2>1, LeastNatural
    <2>3. k \in 0 .. Len(s) /\ DatagramsFrom(s)[n - k] \notin Seq(Seq(Bytes))
      BY <2>2
    <2>4. \A j \in n - k + 1 .. Len(s) + 1 : DatagramsFrom(s)[j] \in Seq(Seq(Bytes))
      <3> TAKE j \in n - k + 1 .. Len(s) + 1
      <3>1. n - j \in 0 .. Len(s) /\ ~(k <= n - j) /\ n - (n - j) = j
        BY <1>1, <2>3
      <3> QED
        BY <2>2, <3>1
    <2>5. n - k \in 1 .. Len(s) + 1
      BY <1>1, <2>3
    <2> QED
      BY <2>3, <2>4, <2>5, SearchTypes
  <1>3. n - i \in 0 .. Len(s) /\ n - (n - i) = i
    BY <1>1
  <1> QED
    BY <1>2, <1>3

-----------------------------------------------------------------------------
(***************************************************************************)
(* SearchInv: the turns of the loop against that definition.               *)
(***************************************************************************)
LEMMA UpToBytes ==
  ASSUME TypeOK, NEW m \in 0 .. Len(stream)
  PROVE  /\ UpTo(m) \in Seq(Bytes) /\ Len(UpTo(m)) = m
         /\ \A k \in 1 .. m : UpTo(m)[k] = stream[k]
  BY KnownTypes, Taken DEF UpTo

LEMMA SearchInit == Init => SearchInv
  <1> SUFFICES ASSUME Init PROVE SearchInv
    OBVIOUS
  <1>1. /\ stream = <<>> /\ Len(stream) = 0 /\ Found = <<>> /\ Passed = 0 /\ TypeOK
    <2>1. delivered = <<>> /\ pc = "idle" /\ stream = <<>> /\ m_parsing_buffer = <<>> /\ fed = 0
      BY DEF Init
    <2>2. Found = <<>>
      BY <2>1 DEF Found
    <2>3. TypeOK
      BY StateInit
    <2>4. fed = 0 /\ Len(m_parsing_buffer) = 0 /\ Len(stream) = 0
      BY <2>1
    <2>5. Passed = 0
      BY <2>4 DEF Passed
    <2> QED
      BY <2>1, <2>2, <2>3, <2>4, <2>5
  <1>2. \A m \in Passed .. Len(stream) : UpTo(m) \in Seq(Bytes) /\ Len(UpTo(m)) = 0 /\ m = 0
    BY <1>1, UpToBytes
  <1>3. \A m \in Passed .. Len(stream) :
          DatagramsOf(UpTo(m)) = <<>> \o DatagramsFrom(UpTo(m))[0 + 1]
    <2> TAKE m \in Passed .. Len(stream)
    <2>1. DatagramsFrom(UpTo(m))[1] \in Seq(Seq(Bytes))
      BY <1>2, DatagramsFromType
    <2> QED
      BY <2>1, ConcatEmptySeq DEF DatagramsOf
  <1> QED
    BY <1>1, <1>3 DEF SearchInv

\* The stream is made before any of it has been found.
LEMMA SenderSearch ==
  ASSUME Known, BufferInv, SearchInv, SendDatagram \/ SendGarbage, TypeOK'
  PROVE  SearchInv'
  <1> USE DEF Known
  <1>1. Found' = Found /\ Passed' = Passed /\ fed = 0 /\ fed' = 0
    BY SenderFound DEF Passed
  <1>2. Found = <<>> /\ Passed = 0
    BY <1>1, FoundTypes, KnownTypes DEF SearchInv, BufferInv, Passed
  <1>3. \A m \in 0 .. Len(stream') : /\ SubSeq(stream', 1, m) \in Seq(Bytes)
                                     /\ Len(SubSeq(stream', 1, m)) = m
    <2> TAKE m \in 0 .. Len(stream')
    <2>1. stream' \in Seq(Bytes) /\ m \in Nat /\ m <= Len(stream')
      BY StreamGrows DEF TypeOK
    <2> QED
      BY <2>1, Taken
  <1>4. \A m \in 0 .. Len(stream') :
          DatagramsOf(SubSeq(stream', 1, m))
            = <<>> \o DatagramsFrom(SubSeq(stream', 1, m))[0 + 1]
    <2> TAKE m \in 0 .. Len(stream')
    <2>1. 1 \in 1 .. Len(SubSeq(stream', 1, m)) + 1
      BY <1>3
    <2>2. DatagramsFrom(SubSeq(stream', 1, m))[1] \in Seq(Seq(Bytes))
      BY <1>3, <2>1, DatagramsFromType
    <2> QED
      BY <2>2, ConcatEmptySeq DEF DatagramsOf
  <1> QED
    BY <1>1, <1>2, <1>4 DEF SearchInv, UpTo

\* Where no good head stands, the search goes on one byte further.
LEMMA ErrorSearch ==
  ASSUME Known, BufferInv, SearchInv, ErrorTurn
  PROVE  SearchInv'
  <1> USE DEF Known
  <1>1. /\ UNCHANGED <<stream, fed>> /\ Found' = Found
        /\ Passed' = Passed + 1 /\ Len(m_parsing_buffer) >= 1 /\ fed # 0
    BY ErrorTakesOne, FoundTypes DEF ErrorTurn, Turn, Found, sender
  <1>2. /\ Len(m_parsing_buffer) >= HeadSize
        /\ \/ m_parsing_buffer[1] # Mark
           \/ ~GoodHead(SubSeq(m_parsing_buffer, 1, HeadSize))
    BY DEF ErrorTurn, Turn, StateInv
  <1> SUFFICES ASSUME NEW m \in Passed + 1 .. Len(stream)
               PROVE  DatagramsFrom(UpTo(m))[Passed + 1] = DatagramsFrom(UpTo(m))[Passed + 2]
    <2>1. \A m \in Passed + 1 .. Len(stream) :
            m \in Passed .. Len(stream) /\ Passed + 1 + 1 = Passed + 2
      BY FoundTypes, KnownTypes
    <2> QED
      BY <1>1, <2>1 DEF SearchInv, UpTo
  <1> DEFINE s == UpTo(m)
             i == Passed + 1
             from == DatagramsFrom(s)
  <1>3. /\ Passed \in Nat /\ m \in Nat /\ m \in 0 .. Len(stream) /\ m <= Len(stream)
        /\ i \in Nat \ {0} /\ i <= m /\ i + 1 = Passed + 2
    BY FoundTypes, KnownTypes
  <1>4. s \in Seq(Bytes) /\ Len(s) = m /\ \A k \in 1 .. m : s[k] = stream[k]
    BY <1>3, UpToBytes
  <1>5. /\ from[i] = Search(s, from, i)
        /\ from[i + 1] = Search(s, from, i + 1)
    <2>1. i \in 1 .. Len(s) + 1 /\ i + 1 \in 1 .. Len(s) + 1
      BY <1>3, <1>4
    <2> HIDE DEF s, i
    <2> QED
      BY <1>4, <2>1, SearchEquation
  <1> HIDE DEF s, from
  <1>6. CASE i + WordLen > m
    <2>1. i + 1 + WordLen > m
      BY <1>3, <1>6, Sizes
    <2> QED
      BY <1>3, <1>4, <1>5, <1>6, <2>1 DEF Search, from, s
  <1>7. CASE ~(i + WordLen > m)
    <2>1. ~HeadAt(s, i)
      <3> SUFFICES ASSUME HeadAt(s, i) PROVE FALSE
        OBVIOUS
      <3>1. i + WordLen <= Len(s)
        BY <1>3, <1>4, <1>7, Sizes
      <3>2. /\ \A k \in 1 .. WordLen : s[i + k - 1] = Mark
            /\ s[i + WordLen] >= HeadSize /\ s[i + WordLen] \in Nat
        BY <1>3, <1>4, <3>1, HeadAtMeans
      <3>3. \A k \in 1 .. HeadSize : m_parsing_buffer[k] = s[i + k - 1]
        <4> TAKE k \in 1 .. HeadSize
        <4>1. k \in 1 .. Len(m_parsing_buffer) /\ i + k - 1 \in 1 .. m
              /\ i + k - 1 = Passed + k
          BY <1>2, <1>3, <1>4, <3>1, Sizes, KnownTypes
        <4> QED
          BY <1>4, <4>1 DEF BufferInv
      <3> DEFINE head == SubSeq(m_parsing_buffer, 1, HeadSize)
      <3>4. /\ head \in Seq(Bytes) /\ Len(head) = HeadSize
            /\ \A k \in 1 .. HeadSize : head[k] = m_parsing_buffer[k]
        BY <1>2, Sizes, KnownTypes, Taken
      <3> HIDE DEF head, i
      <3>5. \A k \in 1 .. WordLen : m_parsing_buffer[k] = Mark /\ head[k] = Mark
        BY <3>2, <3>3, <3>4, Sizes
      <3>6. SizeField(head) >= PointerSize
        <4>1. i + HeadSize - 1 = i + WordLen /\ HeadSize \in 1 .. HeadSize
          BY <1>3, Sizes
        <4>2. head[HeadSize] = s[i + WordLen]
          BY <3>3, <3>4, <4>1
        <4> QED
          BY <3>2, <4>2, Sizes DEF SizeField
      <3>7. GoodHead(head)
        <4>1. Len(head) >= HeadSize
          BY <3>4, Sizes
        <4> QED
          BY <3>4, <3>5, <3>6, <4>1, GoodHeadMeans
      <3>8. m_parsing_buffer[1] = Mark
        BY <3>5, Sizes
      <3> QED
        BY <1>2, <3>7, <3>8 DEF head
    <2>2. ~(i + WordLen > Len(s))
      BY <1>4, <1>7
    <2> HIDE DEF i
    <2>3. from[i] = from[i + 1]
      BY <1>5, <2>1, <2>2 DEF Search
    <2> QED
      BY <1>3, <2>3 DEF i, from, s
  <1> QED
    BY <1>6, <1>7

\* Where a datagram was complete, the search finds it and goes on behind it.
LEMMA CompleteSearch ==
  ASSUME Known, BufferInv, SearchInv, ReceivingComplete
  PROVE  SearchInv'
  <1> USE DEF Known
  <1> DEFINE n == Len(m_tmp_dg_buf)
  <1>1. /\ UNCHANGED <<stream, fed>> /\ Passed' = Passed + n /\ fed # 0
    <2>1. UNCHANGED <<stream, fed>> /\ m_parsing_buffer # <<>>
      BY DEF ReceivingComplete, Turn, sender
    <2>2. Len(m_parsing_buffer) >= 1
      BY <2>1, KnownTypes
    <2> QED
      BY <2>1, <2>2, CompleteTakesDatagram, FoundTypes
  <1>2. /\ n >= HeadSize /\ n \in Nat /\ SizeField(m_tmp_dg_buf) = n
        /\ \A k \in 1 .. WordLen : m_tmp_dg_buf[k] = Mark
        /\ n <= Len(m_parsing_buffer)
        /\ \A k \in 1 .. n : m_tmp_dg_buf[k] = m_parsing_buffer[k]
    BY CompleteShortens, KnownTypes DEF ReceivingComplete, Turn, StateInv, TmpIsFront
  <1>3. Found' = Found \o <<m_tmp_dg_buf>>
    <2>1. /\ Found = delivered \o dg_vector
          /\ Found' = delivered \o Append(dg_vector, m_tmp_dg_buf)
      BY DEF ReceivingComplete, Turn, Found
    <2>2. /\ delivered \in Seq(Seq(Bytes)) /\ dg_vector \in Seq(Seq(Bytes))
          /\ m_tmp_dg_buf \in Seq(Bytes)
      BY KnownTypes
    <2>3. Append(dg_vector, m_tmp_dg_buf) = dg_vector \o <<m_tmp_dg_buf>>
      BY <2>2
    <2>4. <<m_tmp_dg_buf>> \in Seq(Seq(Bytes))
      BY <2>2
    <2> QED
      BY <2>1, <2>2, <2>3, <2>4, ConcatAssociative
  <1> HIDE DEF n
  <1>4. ASSUME NEW m \in Passed + n .. Len(stream)
        PROVE  DatagramsOf(UpTo(m))
                 = (Found \o <<m_tmp_dg_buf>>) \o DatagramsFrom(UpTo(m))[Passed + n + 1]
    <2> DEFINE s == UpTo(m)
               i == Passed + 1
               end == Passed + n
               from == DatagramsFrom(s)
    <2>1. /\ Passed \in Nat /\ m \in Nat /\ m \in 0 .. Len(stream)
          /\ m \in Passed .. Len(stream)
          /\ i \in Nat \ {0} /\ end \in Nat /\ end <= m
          /\ i + WordLen <= end /\ i + n - 1 = end /\ end - (i - 1) = n
      <3>1. Passed \in Nat /\ Len(stream) \in Nat
        BY FoundTypes, KnownTypes
      <3>2. m \in Nat /\ Passed + n <= m /\ m <= Len(stream)
        BY <1>2, <3>1
      <3>3. Passed + 1 + WordLen = Passed + HeadSize /\ Passed + HeadSize <= Passed + n
        BY <1>2, <3>1, Sizes
      <3> QED
        BY <1>2, <3>1, <3>2, <3>3, Sizes
    <2>2. s \in Seq(Bytes) /\ Len(s) = m /\ \A k \in 1 .. m : s[k] = stream[k]
      BY <2>1, UpToBytes
    <2> HIDE DEF s
    <2>3. \A k \in 1 .. n : s[Passed + k] = m_tmp_dg_buf[k]
      <3> TAKE k \in 1 .. n
      <3>1. k \in 1 .. Len(m_parsing_buffer) /\ Passed + k \in 1 .. m
        BY <1>2, <2>1, KnownTypes
      <3>2. m_parsing_buffer[k] = stream[Passed + k]
        BY <3>1 DEF BufferInv
      <3> QED
        BY <1>2, <2>2, <3>1, <3>2
    <2>4. HeadAt(s, i) /\ s[i + WordLen] = n
      <3>1. i + WordLen <= Len(s)
        BY <2>1, <2>2, Sizes
      <3>2. \A k \in 1 .. WordLen : s[i + k - 1] = Mark
        <4> TAKE k \in 1 .. WordLen
        <4>1. k \in 1 .. n /\ i + k - 1 = Passed + k
          BY <1>2, <2>1, Sizes
        <4> QED
          BY <1>2, <2>3, <4>1
      <3>3. s[i + WordLen] = n
        <4>1. HeadSize \in 1 .. n /\ i + WordLen = Passed + HeadSize
          BY <1>2, <2>1, Sizes
        <4> QED
          BY <1>2, <2>3, <4>1 DEF SizeField
      <3> HIDE DEF i
      <3> QED
        BY <1>2, <2>1, <2>2, <3>1, <3>2, <3>3, HeadAtMeans
    <2>5. SubSeq(s, i, end) = m_tmp_dg_buf
      <3>1. /\ SubSeq(s, Passed + 1, end) \in Seq(Bytes)
            /\ Len(SubSeq(s, Passed + 1, end)) = end - Passed
            /\ \A k \in 1 .. end - Passed : SubSeq(s, Passed + 1, end)[k] = s[Passed + k]
        <4>1. Passed <= end /\ end <= Len(s)
          BY <1>2, <2>1, <2>2
        <4> HIDE DEF end, i, Known
        <4>2. Passed \in Nat /\ end \in Nat
          BY <2>1
        <4> QED
          BY <2>2, <4>1, <4>2, Slice
      <3>2. end - Passed = n /\ m_tmp_dg_buf \in Seq(Bytes)
        BY <1>2, <2>1, KnownTypes
      <3>3. SubSeq(s, i, end) = SubSeq(s, Passed + 1, end)
        OBVIOUS
      <3> DEFINE dg == SubSeq(s, Passed + 1, end)
      <3>4. Len(dg) = Len(m_tmp_dg_buf) /\ dg \in Seq(Bytes)
        BY <3>1, <3>2 DEF n
      <3>5. \A k \in 1 .. Len(m_tmp_dg_buf) : dg[k] = m_tmp_dg_buf[k]
        BY <2>3, <3>1, <3>2 DEF n
      <3> HIDE DEF end, Known, i, dg
      <3>6. dg = m_tmp_dg_buf
        BY <3>2, <3>4, <3>5
      <3> QED
        BY <3>3, <3>6 DEF dg
    <2>6. i \in 1 .. Len(s) + 1 /\ end + 1 \in 1 .. Len(s) + 1
      BY <1>2, <2>1, <2>2, Sizes
    <2>7. from[i] = <<m_tmp_dg_buf>> \o from[end + 1]
      <3>1. from[i] = Search(s, from, i)
        BY <2>2, <2>6, SearchEquation
      <3>2. ~(i + WordLen > Len(s)) /\ i + s[i + WordLen] - 1 = end /\ ~(end > Len(s))
        BY <2>1, <2>2, <2>4, Sizes
      <3> HIDE DEF i, end, from
      <3> QED
        BY <2>4, <2>5, <3>1, <3>2 DEF Search
    <2>8. from[end + 1] \in Seq(Seq(Bytes))
      BY <2>2, <2>6, DatagramsFromType
    <2>9. Found \in Seq(Seq(Bytes)) /\ <<m_tmp_dg_buf>> \in Seq(Seq(Bytes))
      BY FoundTypes, KnownTypes
    <2>10. DatagramsOf(s) = Found \o from[i]
      BY <2>1 DEF SearchInv, s
    <2> HIDE DEF i, end, from
    <2>11. DatagramsOf(s) = (Found \o <<m_tmp_dg_buf>>) \o from[end + 1]
      <3> DEFINE S == Seq(Bytes)
                 one == <<m_tmp_dg_buf>>
                 rest == from[end + 1]
      <3> HIDE DEF S, one, rest
      <3>1. Found \in Seq(S) /\ one \in Seq(S) /\ rest \in Seq(S)
        BY <2>8, <2>9 DEF S, one, rest
      <3>2. (Found \o one) \o rest = Found \o (one \o rest)
        BY <3>1, ConcatAssociative
      <3> QED
        BY <2>7, <2>10, <3>2 DEF one, rest
    <2> QED
      BY <2>11 DEF from, end, s
  <1> QED
    BY <1>1, <1>3, <1>4 DEF SearchInv, UpTo

LEMMA SearchNext ==
  Known /\ BufferInv /\ SearchInv /\ [Next]_vars => SearchInv'
  <1> SUFFICES ASSUME Known, BufferInv, SearchInv, [Next]_vars PROVE SearchInv'
    OBVIOUS
  <1>1. CASE SendDatagram \/ SendGarbage
    <2>1. TypeOK'
      BY StateNext DEF Known
    <2> QED
      BY <1>1, <2>1, SenderSearch
  <1>2. CASE ErrorTurn
    BY <1>2, ErrorSearch
  <1>3. CASE ReceivingComplete
    BY <1>3, CompleteSearch
  <1>4. CASE ~(SendDatagram \/ SendGarbage) /\ ~ErrorTurn /\ ~ReceivingComplete
    <2>1. UNCHANGED stream /\ Passed' = Passed /\ Found' = Found
      BY <1>4, OthersStay
    <2>2. fed' = 0 => fed = 0
      BY <1>4, KnownTypes
         DEF Known, Next, ParseData, Put, NoData, ReceivingHeader, ReceivingData,
             WaitNewData, LoopEnd, Return, vars
    <2> QED
      BY <2>1, <2>2 DEF SearchInv, UpTo
  <1> QED
    BY <1>1, <1>2, <1>3, <1>4

\* Between two calls the search finds nothing more in what has been put.
LEMMA NothingMore == IInv => ChunkingIrrelevant
  <1> SUFFICES ASSUME IInv, pc = "idle"
               PROVE  delivered = DatagramsOf(SubSeq(stream, 1, fed))
    BY DEF ChunkingIrrelevant
  <1>1. Known /\ BufferInv /\ SearchInv /\ Waits
    BY DEF IInv, Known, StateInv
  <1> DEFINE s == UpTo(fed)
             i == Passed + 1
             len == Len(m_parsing_buffer)
             from == DatagramsFrom(s)
  <1>2. /\ Passed \in Nat /\ len \in Nat /\ Passed + len = fed
        /\ fed \in 0 .. Len(stream) /\ fed \in Passed .. Len(stream)
    BY <1>1, FoundTypes, KnownTypes DEF Known
  <1>3. s \in Seq(Bytes) /\ Len(s) = fed /\ \A k \in 1 .. fed : s[k] = stream[k]
    BY <1>1, <1>2, UpToBytes DEF Known
  <1>4. DatagramsOf(s) = Found \o from[i]
    BY <1>1, <1>2 DEF SearchInv
  <1> HIDE DEF s, len
  <1>5. i \in Nat \ {0} /\ i \in 1 .. Len(s) + 1
    BY <1>2, <1>3
  <1>6. from[i] = Search(s, from, i)
    BY <1>3, <1>5, SearchEquation
  <1>7. from[i] = <<>>
    <2>1. CASE len < HeadSize
      <3>1. i + WordLen > Len(s)
        BY <1>2, <1>3, <2>1, Sizes
      <3> HIDE DEF i, from
      <3> QED
        BY <1>6, <3>1 DEF Search
    <2>2. CASE ~(len < HeadSize)
      <3>1. /\ m_state = "STATE_RECEIVING_DATA" /\ len < SizeField(m_tmp_dg_buf)
            /\ GoodHead(m_tmp_dg_buf)
            /\ m_tmp_dg_buf = SubSeq(m_parsing_buffer, 1, HeadSize)
        BY <1>1, <2>2 DEF Waits, Known, TmpIsFront, Front, len
      <3>2. /\ m_tmp_dg_buf \in Seq(Bytes) /\ Len(m_tmp_dg_buf) = HeadSize
            /\ \A k \in 1 .. HeadSize : m_tmp_dg_buf[k] = m_parsing_buffer[k]
        <4>1. HeadSize <= Len(m_parsing_buffer)
          BY <1>2, <2>2, Sizes DEF len
        <4> QED
          BY <1>1, <3>1, <4>1, Sizes, KnownTypes, Taken DEF Known
      <3>3. \A k \in 1 .. WordLen : m_tmp_dg_buf[k] = Mark
        <4>1. Len(m_tmp_dg_buf) >= HeadSize
          BY <3>2, Sizes
        <4> QED
          BY <3>1, <3>2, <4>1, GoodHeadMeans
      <3>4. \A k \in 1 .. HeadSize : s[Passed + k] = m_tmp_dg_buf[k]
        <4> TAKE k \in 1 .. HeadSize
        <4>1. k \in 1 .. len /\ Passed + k \in 1 .. fed
          BY <1>2, <2>2, Sizes
        <4> QED
          BY <1>1, <1>3, <3>2, <4>1 DEF BufferInv, len
      <3>5. i + WordLen <= Len(s)
        BY <1>2, <1>3, <2>2, Sizes
      <3>6. s[i + WordLen] = SizeField(m_tmp_dg_buf) /\ s[i + WordLen] \in Nat
        <4>1. i + WordLen = Passed + HeadSize /\ HeadSize \in 1 .. HeadSize
          BY <1>2, Sizes
        <4>2. s[i + WordLen] = m_tmp_dg_buf[HeadSize]
          BY <3>4, <4>1
        <4>3. m_tmp_dg_buf[HeadSize] \in Nat
          BY <3>2, <4>1, Sizes DEF Bytes
        <4> QED
          BY <4>2, <4>3 DEF SizeField
      <3>7. HeadAt(s, i)
        <4>1. \A k \in 1 .. WordLen : s[i + k - 1] = Mark
          <5> TAKE k \in 1 .. WordLen
          <5>1. k \in 1 .. HeadSize /\ i + k - 1 = Passed + k
            BY <1>2, Sizes
          <5> QED
            BY <3>3, <3>4, <5>1
        <4>2. s[i + WordLen] >= HeadSize
          BY <1>2, <2>2, <3>1, <3>6, Sizes
        <4> HIDE DEF i
        <4> QED
          BY <1>3, <1>5, <3>5, <4>1, <4>2, HeadAtMeans
      <3>8. ~(i + WordLen > Len(s)) /\ i + s[i + WordLen] - 1 > Len(s)
        BY <1>2, <1>3, <2>2, <3>1, <3>5, <3>6, Sizes
      <3> HIDE DEF i, from
      <3> QED
        BY <1>6, <3>7, <3>8 DEF Search
    <2> QED
      BY <2>1, <2>2
  <1>8. Found = delivered /\ delivered \in Seq(Seq(Bytes))
    BY <1>1, KnownTypes DEF Found, Known
  <1> HIDE DEF i, from
  <1>9. Found \o from[i] = delivered
    BY <1>7, <1>8, ConcatEmptySeq
  <1> QED
    BY <1>4, <1>9 DEF s, UpTo

-----------------------------------------------------------------------------
(***************************************************************************)
(* The inductive invariant, and what follows from it.                      *)
(***************************************************************************)
THEOREM ParserCorrect == Spec => []IInv
  <1>1. Init => IInv
    BY StateInit, BufferInit, PreparedInit, FoundInit, SearchInit DEF IInv
  <1>2. IInv /\ [Next]_vars => IInv'
    BY StateNext, FoundNext, SearchNext DEF IInv, Known
  <1> QED
    BY <1>1, <1>2, PTL DEF Spec

(***************************************************************************)
(* TypeOK of every behaviour: among it, that no datagram outgrows the      *)
(* bytes reserved for it, whatever a header says.                          *)
(***************************************************************************)
THEOREM TypeCorrect == Spec => []TypeOK
  <1>1. IInv => TypeOK
    BY DEF IInv
  <1> QED
    BY <1>1, ParserCorrect, PTL

(***************************************************************************)
(* While a datagram is being received, over as many calls of put as that   *)
(* takes, the temporary buffer is a copy of the front of m_parsing_buffer: *)
(* no chunk that arrives in between changes what was taken for its head.   *)
(***************************************************************************)
THEOREM TemporaryIsFront == Spec => []TmpIsFront
  <1>1. IInv => TmpIsFront
    BY DEF IInv
  <1> QED
    BY <1>1, ParserCorrect, PTL

(***************************************************************************)
(* Every datagram the sender prepared arrives, once, in order and whole,   *)
(* whatever bytes it carries and however the stream is cut into chunks,    *)
(* when no Mark stands between datagrams.                                  *)
(***************************************************************************)
THEOREM EveryDatagramArrives == Spec => []PreparedArrive
  BY AllFound, ParserCorrect, PTL

(***************************************************************************)
(* What put has returned is what the definition finds in the bytes put,    *)
(* so that it does not depend on how they were cut into chunks: whatever   *)
(* those bytes are, headers with a size less than their own included.      *)
(***************************************************************************)
THEOREM ChunksDoNotMatter == Spec => []ChunkingIrrelevant
  BY NothingMore, ParserCorrect, PTL

=============================================================================

----------------------- MODULE QueueStackRefinement -----------------------
(***************************************************************************)
(* QueueStack implements AtomicQueue, for every ring size, every set of    *)
(* threads and every admitted pair of decorators: under the mapping of     *)
(* QueueStack each step of a thread is a step of the abstract queue or     *)
(* none at all.                                                            *)
(***************************************************************************)
EXTENDS QueueStackProofs, SequenceTheorems

USE DEF Threads, At

(***************************************************************************)
(* IInv says which bags are filled, and this what with: the datagram a put *)
(* has copied stays in its bag until the put counts it.  And a call has    *)
(* its result when it has taken effect.                                    *)
(***************************************************************************)
Previous(i) == IF i = 0 THEN TotalCount - 1 ELSE i - 1

PutInv ==
  \A p \in Producers :
    /\ At(p, "advance") => bag[m_index_in] = buf[p]
    /\ At(p, "commit") => bag[Previous(m_index_in)] = buf[p]

ResultInv == \A t \in Threads : pc[t] \in {"notify", "unlock"} <=> res[t] # "none"

Before == {"idle", "lock", "test", "sleep", "asleep", "relock", "check", "copy"}

\* A read has nothing in its buffer before it copies.
BufferInv == \A c \in Consumers : pc[c] \in Before => buf[c] = NoData

RInv == IInv /\ PutInv /\ ResultInv /\ BufferInv

\* Bag i of a ring that goes on behind its end.
Wrap(i) == IF i < TotalCount THEN i ELSE i - TotalCount

LEMMA WrapIsMod ==
  ASSUME NEW i \in 0 .. 2 * TotalCount - 1 PROVE i % TotalCount = Wrap(i) /\ Wrap(i) \in Index
<1>1. CASE i < TotalCount
  BY <1>1, RingAssumption DEF Wrap, Index
<1>2. CASE i >= TotalCount
  BY <1>2, RingAssumption DEF Wrap, Index
<1> QED BY <1>1, <1>2, RingAssumption

-----------------------------------------------------------------------------
(***************************************************************************)
(* What the mapping makes of the ring, by the phase of the only get there  *)
(* can be.                                                                 *)
(***************************************************************************)
NoGetter == GetInFlight = {}
Getter(c) == GetInFlight = {c} /\ buf[c] \in Datagrams

\* A get between its copy of the bag and its change of m_size is alone.
LEMMA OneGetter ==
  ASSUME IInv, NEW c \in GetInFlight
  PROVE  /\ Getter(c) /\ c \in Consumers /\ m_size > 0
         /\ SomeGet("advance") <=> At(c, "advance")
         /\ SomeGet("commit") <=> At(c, "commit")
<1>1. c \in Consumers /\ op[c] = "get" /\ pc[c] \in {"advance", "commit"}
  BY DEF GetInFlight
<1>2. \A d \in Consumers : InRing(d) => d = c
  BY <1>1, OneAtATime DEF IInv, InRing
<1>3. GetInFlight = {c}
  BY <1>1, <1>2 DEF GetInFlight, InRing
<1>4. buf[c] \in Datagrams
  BY <1>1 DEF IInv, CallInv, TypeOK
<1>5. m_size > 0
  BY <1>1 DEF IInv, SizeInv, InRing
<1> QED BY <1>1, <1>2, <1>3, <1>4, <1>5 DEF Getter, SomeGet, InRing

LEMMA NoneGets ==
  ASSUME NoGetter
  PROVE  ~SomeGet("advance") /\ ~SomeGet("commit") /\ Taken = <<>>
BY DEF NoGetter, SomeGet, GetInFlight, Taken

LEMMA WhatIsTaken ==
  ASSUME NEW c, Getter(c) PROVE Taken = <<buf[c]>>
BY DEF Getter, Taken

\* The bags that hold what waits, in order, and that they hold it.
Waits == 1 .. m_size - Len(Taken)
Place(k) == Wrap(FirstWaiting + k - 1)

LEMMA WaitingPlaces ==
  ASSUME IInv
  PROVE  /\ FirstWaiting \in Index /\ Len(Taken) \in 0 .. 1 /\ Len(Taken) <= m_size
         /\ \A k \in Waits : Place(k) \in Index /\ bag[Place(k)] \in Datagrams
         /\ Waiting = [k \in Waits |-> bag[Place(k)]]
<1> USE RingAssumption DEF Index
<1>0. m_index_out \in Index /\ m_index_in \in Index /\ m_size \in 0 .. TotalCount
  BY DEF IInv, TypeOK, RingTypeOK, SizeInv
<1>1. FirstWaiting \in Index
  BY <1>0 DEF FirstWaiting, NextIndex
<1>2. Len(Taken) \in 0 .. 1 /\ Len(Taken) <= m_size
  <2>1. CASE NoGetter
    BY <1>0, <2>1, NoneGets
  <2>2. ASSUME NEW c \in GetInFlight PROVE Len(Taken) \in 0 .. 1 /\ Len(Taken) <= m_size
    <3>1. Getter(c) /\ m_size > 0
      BY OneGetter
    <3>2. Taken = <<buf[c]>>
      BY <3>1, WhatIsTaken
    <3> QED BY <1>0, <3>1, <3>2
  <2> QED BY <2>1, <2>2 DEF NoGetter
<1>3. ASSUME NEW k \in Waits
      PROVE  /\ Place(k) \in Index
             /\ (FirstWaiting + k - 1) % TotalCount = Place(k)
             /\ bag[Place(k)] \in Datagrams
  <2>0. k \in 1 .. TotalCount /\ k <= m_size - Len(Taken)
    BY <1>0, <1>2 DEF Waits
  <2>1. FirstWaiting + k - 1 \in 0 .. 2 * TotalCount - 1
    BY <1>1, <2>0
  <2>2. Place(k) \in Index /\ (FirstWaiting + k - 1) % TotalCount = Place(k)
    BY <2>1, WrapIsMod DEF Place
  <2>3. Filled(Place(k))
    <3>1. CASE NoGetter
      <4>1. Offset(Place(k)) = k - 1 /\ Span >= m_size /\ k <= m_size
        BY <1>0, <2>0, <3>1, NoneGets
        DEF Offset, Place, Wrap, FirstWaiting, Span, PutAhead, GetAhead
      <4> QED BY <1>0, <2>0, <3>1, <4>1, NoneGets DEF Filled, Span, PutAhead, GetAhead
    <3>2. ASSUME NEW c \in GetInFlight PROVE Filled(Place(k))
      <4>0. Len(Taken) = 1 /\ k <= m_size - 1
        BY <1>0, <2>0, OneGetter, WhatIsTaken
      <4>1. CASE At(c, "advance")
        <5>1. SomeGet("advance") /\ ~SomeGet("commit") /\ Span >= m_size /\ Span \in Int
          BY <1>0, <4>1, OneGetter DEF Span, PutAhead, GetAhead
        <5>2. FirstWaiting = NextIndex(m_index_out)
          BY <5>1 DEF FirstWaiting
        <5>3. Offset(Place(k)) = k /\ Place(k) # m_index_out
          BY <1>0, <2>0, <4>0, <5>2 DEF Offset, Place, Wrap, NextIndex
        <5> QED BY <1>0, <2>0, <4>0, <5>1, <5>3 DEF Filled
      <4>2. CASE At(c, "commit")
        <5>1. ~SomeGet("advance") /\ SomeGet("commit") /\ Span >= m_size - 1 /\ Span \in Int
          BY <1>0, <4>2, OneGetter DEF Span, PutAhead, GetAhead
        <5>2. Offset(Place(k)) = k - 1
          BY <1>0, <2>0, <4>0, <5>1 DEF Offset, Place, Wrap, FirstWaiting
        <5> QED BY <1>0, <2>0, <4>0, <5>1, <5>2 DEF Filled
      <4> QED BY <4>1, <4>2 DEF GetInFlight
    <3> QED BY <3>1, <3>2 DEF NoGetter
  <2> QED BY <2>2, <2>3 DEF IInv, BagInv, TypeOK, RingTypeOK
<1>4. Waiting = [k \in Waits |-> bag[Place(k)]]
  BY <1>3 DEF Waiting, Waits
<1> QED BY <1>1, <1>2, <1>3, <1>4

-----------------------------------------------------------------------------
(***************************************************************************)
(* What the steps do to the queue in the mapping.  Most leave it alone:    *)
(* they change neither the get that is in flight nor a bag that waits.     *)
(***************************************************************************)
LEMMA QueueType ==
  ASSUME IInv
  PROVE  /\ Taken \in Seq(Datagrams) /\ Waiting \in Seq(Datagrams)
         /\ AbstractQueue \in Seq(Datagrams) /\ Len(AbstractQueue) = m_size
         /\ Len(Waiting) = m_size - Len(Taken)
<1>1. Taken \in Seq(Datagrams)
  <2>1. CASE NoGetter
    BY <2>1, NoneGets
  <2>2. ASSUME NEW c \in GetInFlight PROVE Taken \in Seq(Datagrams)
    <3>1. Taken = <<buf[c]>> /\ buf[c] \in Datagrams
      BY OneGetter, WhatIsTaken DEF Getter
    <3> QED BY <3>1
  <2> QED BY <2>1, <2>2 DEF NoGetter
<1>2. m_size \in Nat /\ Len(Taken) \in Nat /\ m_size - Len(Taken) \in Nat
  BY WaitingPlaces, RingAssumption DEF IInv, SizeInv
<1>3. Waiting \in Seq(Datagrams) /\ Len(Waiting) = m_size - Len(Taken)
  <2>1. Waiting = [k \in 1 .. m_size - Len(Taken) |-> bag[Place(k)]]
    BY WaitingPlaces DEF Waits
  <2>2. \A k \in 1 .. m_size - Len(Taken) : bag[Place(k)] \in Datagrams
    BY WaitingPlaces DEF Waits
  <2> QED BY <1>2, <2>1, <2>2
<1> QED BY <1>1, <1>2, <1>3 DEF AbstractQueue

LEMMA QueueUntouched ==
  ASSUME IInv, IInv',
         GetInFlight' = GetInFlight, \A c \in GetInFlight : buf'[c] = buf[c],
         FirstWaiting' = FirstWaiting, m_size' = m_size,
         \A k \in Waits : bag'[Place(k)] = bag[Place(k)]
  PROVE  AbstractQueue' = AbstractQueue
<1>1. Taken' = Taken
  <2>1. CASE NoGetter
    BY <2>1 DEF NoGetter, Taken
  <2>2. ASSUME NEW c \in GetInFlight PROVE Taken' = Taken
    <3>1. GetInFlight = {c}
      BY OneGetter DEF Getter
    <3> QED BY <3>1 DEF Taken
  <2> QED BY <2>1, <2>2 DEF NoGetter
<1>2. Waits' = Waits /\ \A k \in Waits : Place(k)' = Place(k)
  BY <1>1 DEF Waits, Place, Wrap
<1>3. Waiting' = Waiting
  <2>1. Waiting = [k \in Waits |-> bag[Place(k)]]
    BY WaitingPlaces
  <2>2. (IInv => Waiting = [k \in Waits |-> bag[Place(k)]])'
    BY WaitingPlaces, PTL
  <2> QED BY <1>2, <2>1, <2>2
<1> QED BY <1>1, <1>3 DEF AbstractQueue

(***************************************************************************)
(* A put appends when it counts: the bag behind the waiting ones is the    *)
(* one it has filled.                                                      *)
(***************************************************************************)
LEMMA CommitAppends ==
  ASSUME RInv, IInv', NEW p \in Producers, PutCommit(p)
  PROVE  AbstractQueue' = Append(AbstractQueue, buf[p]) /\ buf[p] \in Datagrams
<1> DEFINE last == m_size + 1 - Len(Taken)
<1> USE RingAssumption DEF RInv
<1>0. /\ m_size' = m_size + 1 /\ UNCHANGED <<bag, m_index_in, m_index_out, op, buf>>
      /\ pc' = [pc EXCEPT ![p] = "notify"] /\ pc[p] = "commit"
  BY DEF PutCommit, CountIn, Goto
<1>1. /\ m_index_out \in 0 .. TotalCount - 1 /\ m_index_in \in 0 .. TotalCount - 1
      /\ m_size \in 0 .. TotalCount - 1
      /\ buf[p] \in Datagrams
  BY <1>0, StackAssumption
  DEF IInv, TypeOK, RingTypeOK, Index, SizeInv, InRing, CallInv
<1>2. GetInFlight' = GetInFlight /\ (SomeGet("advance")' <=> SomeGet("advance"))
  BY <1>0, StackAssumption DEF GetInFlight, SomeGet, IInv, TypeOK
<1>3. Taken' = Taken /\ FirstWaiting' = FirstWaiting
  BY <1>0, <1>2 DEF Taken, FirstWaiting, NextIndex
<1>4. bag[Place(last)] = buf[p] /\ last \in 1 .. TotalCount
  <2>1. SomePut("commit")
    BY <1>0 DEF SomePut
  <2>2. bag[Previous(m_index_in)] = buf[p]
    BY <1>0 DEF PutInv
  <2>3. CASE NoGetter
    <3>1. last = m_size + 1 /\ Span = m_size + 1 /\ FirstWaiting = m_index_out
      BY <1>1, <2>1, <2>3, NoneGets DEF Span, PutAhead, GetAhead, FirstWaiting
    <3>2. m_index_in = m_index_out + m_size + 1 \/ m_index_in = m_index_out + m_size + 1 - TotalCount
      BY <1>1, <3>1 DEF IInv, IndexInv
    <3>3. Place(last) = Previous(m_index_in)
      BY <1>1, <3>1, <3>2 DEF Place, Wrap, Previous
    <3> QED BY <1>1, <2>2, <3>1, <3>3
  <2>4. ASSUME NEW c \in GetInFlight PROVE bag[Place(last)] = buf[p] /\ last \in 1 .. TotalCount
    <3>0. Getter(c) /\ m_size > 0
      BY OneGetter
    <3>1. Taken = <<buf[c]>>
      BY <3>0, WhatIsTaken
    <3>2. last = m_size
      BY <1>1, <3>1
    <3>3. CASE At(c, "advance")
      <4>1. Span = m_size + 1 /\ FirstWaiting = NextIndex(m_index_out)
        BY <1>1, <2>1, <3>3, OneGetter DEF Span, PutAhead, GetAhead, FirstWaiting
      <4>2. m_index_in = m_index_out + m_size + 1 \/ m_index_in = m_index_out + m_size + 1 - TotalCount
        BY <1>1, <4>1 DEF IInv, IndexInv
      <4>3. Place(last) = Previous(m_index_in)
        BY <1>1, <3>0, <3>2, <4>1, <4>2 DEF Place, Wrap, Previous, NextIndex
      <4> QED BY <1>1, <2>2, <3>0, <3>2, <4>3
    <3>4. CASE At(c, "commit")
      <4>1. Span = m_size /\ FirstWaiting = m_index_out
        BY <1>1, <2>1, <3>4, OneGetter DEF Span, PutAhead, GetAhead, FirstWaiting
      <4>2. m_index_in = m_index_out + m_size \/ m_index_in = m_index_out + m_size - TotalCount
        BY <1>1, <4>1 DEF IInv, IndexInv
      <4>3. Place(last) = Previous(m_index_in)
        BY <1>1, <3>0, <3>2, <4>1, <4>2 DEF Place, Wrap, Previous
      <4> QED BY <1>1, <2>2, <3>0, <3>2, <4>3
    <3> QED BY <3>3, <3>4 DEF GetInFlight
  <2> QED BY <2>3, <2>4 DEF NoGetter
<1>5. Waiting' = Append(Waiting, buf[p])
  <2>1. Waiting \in Seq(Datagrams) /\ Len(Waiting) = last - 1
    BY <1>1, QueueType, WaitingPlaces
  <2>2. (IInv => Waiting \in Seq(Datagrams) /\ Len(Waiting) = m_size - Len(Taken))'
    BY QueueType, PTL
  <2>3. Waiting' \in Seq(Datagrams) /\ Len(Waiting') = last
    BY <1>0, <1>1, <1>3, <2>2
  <2>4. Waiting = [k \in 1 .. last - 1 |-> bag[Place(k)]]
    BY <1>1, WaitingPlaces DEF Waits
  <2>5. (IInv => Waiting = [k \in Waits |-> bag[Place(k)]])'
    BY WaitingPlaces, PTL
  <2>6. Waiting' = [k \in 1 .. last |-> bag[Place(k)]]
    BY <1>0, <1>1, <1>3, <2>5 DEF Waits, Place, Wrap
  <2> HIDE DEF last
  <2>7. ASSUME NEW k \in 1 .. last PROVE Waiting'[k] = Append(Waiting, buf[p])[k]
    <3>1. /\ \A i \in 1 .. Len(Waiting) : Append(Waiting, buf[p])[i] = Waiting[i]
          /\ Append(Waiting, buf[p])[Len(Waiting) + 1] = buf[p]
      BY <1>1, <2>1, AppendProperties
    <3>2. CASE k = last
      BY <1>4, <2>1, <2>6, <3>1, <3>2
    <3>3. CASE k < last
      <4>1. k \in 1 .. last - 1 /\ k \in 1 .. Len(Waiting)
        BY <1>4, <2>1, <3>3
      <4> QED BY <2>4, <2>6, <3>1, <4>1
    <3>4. last \in Int
      BY <1>4
    <3>5. k = last \/ k < last
      BY <3>4
    <3> QED BY <3>2, <3>3, <3>5
  <2>8. Append(Waiting, buf[p]) \in Seq(Datagrams) /\ Len(Append(Waiting, buf[p])) = last
    BY <1>1, <1>4, <2>1, AppendProperties
  <2> QED BY <2>3, <2>7, <2>8, SeqEqual
<1>6. Taken \o Append(Waiting, buf[p]) = Append(Taken \o Waiting, buf[p])
  <2>1. Append(Waiting, buf[p]) = Waiting \o <<buf[p]>> /\ <<buf[p]>> \in Seq(Datagrams)
    BY <1>1, QueueType, AppendIsConcat
  <2>2. Append(Taken \o Waiting, buf[p]) = (Taken \o Waiting) \o <<buf[p]>>
    BY <1>1, QueueType, AppendIsConcat DEF AbstractQueue
  <2> QED BY <2>1, <2>2, QueueType, ConcatAssociative
<1> QED BY <1>1, <1>3, <1>5, <1>6 DEF AbstractQueue

(***************************************************************************)
(* A get takes the front with it and then moves the index: in between the  *)
(* datagram counts as the first of the queue, though it is in the get's    *)
(* buffer and its bag is empty.                                            *)
(***************************************************************************)
LEMMA CopyKeepsQueue ==
  ASSUME RInv, IInv', NEW c \in Consumers, GetCopy(c)
  PROVE  AbstractQueue' = AbstractQueue
<1> USE RingAssumption DEF RInv
<1>0. /\ UNCHANGED <<m_index_in, m_index_out, m_size, op>> /\ pc[c] = "copy" /\ op[c] = "get"
      /\ pc' = [pc EXCEPT ![c] = "advance"]
      /\ buf' = [buf EXCEPT ![c] = FrontBag]
      /\ bag' = [bag EXCEPT ![m_index_out] = NoData]
  BY DEF GetCopy, EmptyBag, Goto
<1>1. m_index_out \in 0 .. TotalCount - 1 /\ m_size \in 1 .. TotalCount
  BY <1>0 DEF IInv, TypeOK, RingTypeOK, Index, SizeInv, InRing
<1>2. NoGetter
  BY <1>0, OneAtATime DEF NoGetter, GetInFlight, IInv, InRing
<1>3. c \in GetInFlight' /\ buf'[c] = FrontBag
  BY <1>0 DEF GetInFlight, IInv, TypeOK
<1>4. (IInv /\ c \in GetInFlight => Getter(c) /\ (SomeGet("advance") <=> At(c, "advance")))'
  BY OneGetter, PTL
<1>5. (Getter(c) => Taken = <<buf[c]>>)'
  BY WhatIsTaken, PTL
<1>6. Taken = <<>> /\ FirstWaiting = m_index_out
  BY <1>2, NoneGets DEF FirstWaiting
<1>7. Taken' = <<FrontBag>> /\ FirstWaiting' = NextIndex(m_index_out)
  BY <1>0, <1>3, <1>4, <1>5 DEF FirstWaiting, NextIndex, IInv, TypeOK
<1>8. Waiting = [k \in 1 .. m_size |-> bag[Place(k)]] /\ Place(1) = m_index_out
  BY <1>1, <1>6, WaitingPlaces DEF Waits, Place, Wrap
<1>9. (IInv => Waiting = [k \in Waits |-> bag[Place(k)]])'
  BY WaitingPlaces, PTL
<1>10. \A k \in 1 .. m_size - 1 : Place(k)' = Place(k + 1) /\ bag'[Place(k + 1)] = bag[Place(k + 1)]
  BY <1>0, <1>1, <1>6, <1>7 DEF Place, Wrap, NextIndex, IInv, TypeOK, RingTypeOK, Index
<1>11. Waiting' = [k \in 1 .. m_size - 1 |-> bag[Place(k + 1)]]
  <2>1. Waits' = 1 .. m_size - 1
    BY <1>0, <1>7 DEF Waits
  <2> QED BY <1>9, <1>10, <2>1
<1>12. Waiting \in Seq(Datagrams) /\ Waiting # <<>> /\ Head(Waiting) = FrontBag
  BY <1>1, <1>6, <1>8, QueueType DEF FrontBag
<1>13. Waiting' = Tail(Waiting)
  BY <1>1, <1>8, <1>11, <1>12
<1>14. <<Head(Waiting)>> \o Tail(Waiting) = Waiting
  BY <1>12
<1>15. Taken \o Waiting = Waiting
  BY <1>6, <1>12
<1> QED BY <1>7, <1>12, <1>13, <1>14, <1>15 DEF AbstractQueue

\* When it discounts, the datagram is gone from the queue.
LEMMA CommitTakesHead ==
  ASSUME RInv, IInv', NEW c \in Consumers, GetCommit(c)
  PROVE  /\ AbstractQueue # <<>> /\ buf[c] = Head(AbstractQueue) /\ buf[c] \in Datagrams
         /\ AbstractQueue' = Tail(AbstractQueue)
         /\ GetInFlight = {c} /\ GetInFlight' = {}
<1> USE RingAssumption DEF RInv
<1>0. /\ UNCHANGED <<bag, m_index_in, m_index_out, op, buf>> /\ pc[c] = "commit"
      /\ m_size' = m_size - 1 /\ pc' = [pc EXCEPT ![c] = "notify"]
  BY DEF GetCommit, CountOut, Goto
<1>1. c \in GetInFlight
  BY <1>0, StackAssumption DEF GetInFlight, IInv, CallInv, TypeOK
<1>2. Getter(c) /\ m_size > 0 /\ ~SomeGet("advance")
  BY <1>0, <1>1, OneGetter
<1>3. Taken = <<buf[c]>> /\ FirstWaiting = m_index_out /\ m_size \in 1 .. TotalCount
  BY <1>2, WhatIsTaken DEF FirstWaiting, IInv, SizeInv
<1>4. GetInFlight' = {}
  BY <1>0, <1>2 DEF GetInFlight, Getter, IInv, TypeOK
<1>5. (NoGetter => ~SomeGet("advance") /\ Taken = <<>>)'
  BY NoneGets, PTL
<1>6. Taken' = <<>> /\ FirstWaiting' = m_index_out
  BY <1>0, <1>4, <1>5 DEF NoGetter, FirstWaiting
<1>7. (IInv => Waiting = [k \in Waits |-> bag[Place(k)]] /\ Waiting \in Seq(Datagrams))'
  BY WaitingPlaces, QueueType, PTL
<1>8. Waiting' = Waiting
  <2>1. Waits' = Waits
    BY <1>0, <1>3, <1>6 DEF Waits
  <2>2. \A k \in Waits : Place(k)' = Place(k) /\ bag'[Place(k)] = bag[Place(k)]
    BY <1>0, <1>3, <1>6 DEF Place, Wrap
  <2> QED BY <1>0, <1>7, <2>1, <2>2, WaitingPlaces
<1>9. Waiting \in Seq(Datagrams) /\ <<>> \o Waiting = Waiting
  BY QueueType
<1> QED BY <1>2, <1>3, <1>4, <1>6, <1>8, <1>9 DEF AbstractQueue, Getter

-----------------------------------------------------------------------------
(***************************************************************************)
(* RInv is inductive.  A bag that a put has filled is touched neither by   *)
(* another put, of which there is none in the ring, nor by a get, which    *)
(* empties the bag of an older datagram.                                   *)
(***************************************************************************)
LEMMA RInvInit == Init => RInv
<1> SUFFICES ASSUME Init PROVE PutInv /\ ResultInv /\ BufferInv
  BY InitOK DEF RInv
<1> QED BY DEF Init, PutInv, ResultInv, BufferInv

CallsDone == ResultInv /\ BufferInv

\* The steps of a call set its result, and a read's buffer, when they should.
LEMMA CallStep ==
  ASSUME RInv, Next PROVE CallsDone'
<1> USE StackAssumption DEF RInv, CallsDone, ResultInv, BufferInv, Before, IInv, TypeOK, Goto, locals
<1>1. ASSUME NEW p \in Producers, CallPut(p) \/ PutStep(p) PROVE CallsDone'
  BY <1>1 DEF CallPut, Enter, PutStep, PutCheck, PutCopy, PutAdvance, PutCommit
<1>2. ASSUME NEW c \in Consumers, CallRead(c) \/ ReadStep(c) PROVE CallsDone'
  BY <1>2 DEF CallRead, Enter, ReadStep, ReadCheck, PeekCopy, BagResult, GetCopy, GetAdvance,
     GetCommit, AfterRead
<1>3. ASSUME NEW t \in Threads, Notify(t) PROVE CallsDone'
  BY <1>3 DEF Notify, Sleepers
<1>4. ASSUME NEW t \in Threads,
             Acquire(t) \/ SpuriousWakeup(t) \/ Test(t) \/ Sleep(t) \/ Timeout(t) \/ Return(t)
      PROVE  CallsDone'
  BY <1>4 DEF Acquire, Lock, Relock, AfterWait, SpuriousWakeup, Test, Sleep, Timeout, Return
<1> QED BY <1>1, <1>2, <1>3, <1>4 DEF Next, Run

LEMMA PutStays ==
  ASSUME RInv, Next PROVE PutInv'
<1> USE RingAssumption, StackAssumption
    DEF RInv, PutInv, IInv, TypeOK, RingTypeOK, Index, Goto, locals, ring
<1>1. ASSUME NEW p \in Producers, PutCopy(p) \/ PutAdvance(p) \/ PutCommit(p) PROVE PutInv'
  <2>1. \A q \in Producers : InRing(q) => q = p
    BY <1>1, OneAtATime DEF PutCopy, PutAdvance, PutCommit, InRing
  <2>2. CASE PutCopy(p)
    BY <2>1, <2>2 DEF PutCopy, FillBag, InRing
  <2>3. CASE PutAdvance(p)
    <3>1. Previous(NextIndex(m_index_in)) = m_index_in
      BY DEF Previous, NextIndex
    <3> QED BY <2>1, <2>3, <3>1 DEF PutAdvance, AdvanceIn, InRing
  <2>4. CASE PutCommit(p)
    BY <2>1, <2>4 DEF PutCommit, CountIn, InRing, Previous
  <2> QED BY <1>1, <2>2, <2>3, <2>4
<1>2. ASSUME NEW c \in Consumers, GetCopy(c) PROVE PutInv'
  <2>0. pc[c] = "copy" /\ pc' = [pc EXCEPT ![c] = "advance"]
        /\ bag' = [bag EXCEPT ![m_index_out] = NoData] /\ UNCHANGED m_index_in
        /\ buf' = [buf EXCEPT ![c] = FrontBag]
    BY <1>2 DEF GetCopy, EmptyBag
  <2>1. ~SomeGet("commit") /\ m_size \in 1 .. TotalCount
    BY <2>0, OneAtATime DEF SomeGet, InRing, SizeInv
  <2>2. ASSUME NEW p \in Producers, At(p, "advance") PROVE m_index_in # m_index_out
    <3>1. m_size < TotalCount /\ ~SomePut("commit")
      BY <2>2, OneAtATime DEF SizeInv, InRing, SomePut
    <3>2. Span = m_size
      BY <2>1, <3>1 DEF Span, PutAhead, GetAhead
    <3> QED BY <2>1, <3>1, <3>2 DEF IndexInv
  <2>3. ASSUME NEW p \in Producers, At(p, "commit") PROVE Previous(m_index_in) # m_index_out
    <3>1. m_size < TotalCount /\ SomePut("commit")
      BY <2>3 DEF SizeInv, InRing, SomePut
    <3>2. Span = m_size + 1
      BY <2>1, <3>1 DEF Span, PutAhead, GetAhead
    <3> QED BY <2>1, <3>1, <3>2 DEF IndexInv, Previous
  <2>4. \A p \in Producers : p # c /\ pc'[p] = pc[p] /\ buf'[p] = buf[p]
    BY <2>0
  <2>5. Previous(m_index_in) \in Index /\ Previous(m_index_in)' = Previous(m_index_in)
    BY <2>0 DEF Previous
  <2> QED BY <2>0, <2>2, <2>3, <2>4, <2>5
<1>3. ASSUME UNCHANGED <<bag, m_index_in>>,
             \A p \in Producers : pc'[p] \in {"advance", "commit"} => pc'[p] = pc[p] /\ buf'[p] = buf[p]
      PROVE  PutInv'
  BY <1>3 DEF Previous
<1>4. ASSUME NEW p \in Producers, CallPut(p) \/ PutCheck(p) PROVE PutInv'
  BY <1>3, <1>4 DEF CallPut, Enter, PutCheck, SetStatus
<1>5. ASSUME NEW c \in Consumers,
             CallRead(c) \/ ReadCheck(c) \/ PeekCopy(c) \/ GetAdvance(c) \/ GetCommit(c)
      PROVE  PutInv'
  BY <1>3, <1>5 DEF CallRead, Enter, ReadCheck, PeekCopy, GetAdvance, GetCommit,
     AdvanceOut, CountOut, SetStatus
<1>6. ASSUME NEW t \in Threads, Notify(t) PROVE PutInv'
  BY <1>3, <1>6 DEF Notify, Sleepers
<1>7. ASSUME NEW t \in Threads,
             Acquire(t) \/ SpuriousWakeup(t) \/ Test(t) \/ Sleep(t) \/ Timeout(t) \/ Return(t)
      PROVE  PutInv'
  BY <1>3, <1>7 DEF Acquire, Lock, Relock, AfterWait, SpuriousWakeup, Test, Sleep, Timeout, Return
<1> QED BY <1>1, <1>2, <1>4, <1>5, <1>6, <1>7 DEF Next, Run, PutStep, ReadStep

LEMMA RInvStep == RInv /\ [Next]_vars => RInv'
<1>1. CASE UNCHANGED vars
  <2>1. RInv => IInv'
    BY <1>1, NextOK DEF RInv
  <2>2. RInv => PutInv' /\ ResultInv' /\ BufferInv'
    BY <1>1 DEF RInv, PutInv, ResultInv, BufferInv, Previous, vars, ring
  <2> QED BY <2>1, <2>2 DEF RInv
<1>2. CASE Next
  BY <1>2, NextOK, CallStep, PutStays DEF RInv, CallsDone
<1> QED BY <1>1, <1>2

-----------------------------------------------------------------------------
(***************************************************************************)
(* The steps under the mapping.                                            *)
(***************************************************************************)
AbstractStep == Atomic!Next \/ UNCHANGED Atomic!vars

\* Between the invocation and the effect of a call.
LEMMA StandsInFlight ==
  ASSUME RInv, NEW t \in Threads, pc[t] \notin {"idle", "notify", "unlock"}
  PROVE  res[t] = "none" /\ op[t] \in (IF t \in Producers THEN {"put"} ELSE {"get", "peek"})
BY StackAssumption DEF RInv, ResultInv, IInv, CallInv, TypeOK

(***************************************************************************)
(* A step that moves threads only outside of GetInFlight and changes no    *)
(* bag and no count changes nothing of the abstract queue.                 *)
(***************************************************************************)
LEMMA QuietStep ==
  ASSUME IInv, IInv',
         UNCHANGED <<bag, m_index_in, m_index_out, m_size>>,
         \A c \in Consumers :
           /\ pc'[c] = "advance" <=> pc[c] = "advance"
           /\ pc'[c] = "commit" <=> pc[c] = "commit"
           /\ pc[c] \in {"advance", "commit"} => op'[c] = op[c] /\ buf'[c] = buf[c]
  PROVE  /\ GetInFlight' = GetInFlight
         /\ AbstractQueue' = AbstractQueue
         /\ AbstractBuf' = [t \in Threads |-> IF t \in GetInFlight THEN NoData ELSE buf'[t]]
<1>1. GetInFlight' = GetInFlight
  BY DEF GetInFlight
<1>2. \A c \in GetInFlight : buf'[c] = buf[c]
  BY DEF GetInFlight
<1>3. SomeGet("advance")' <=> SomeGet("advance")
  BY DEF SomeGet
<1>4. FirstWaiting' = FirstWaiting
  BY <1>3 DEF FirstWaiting, NextIndex
<1>5. AbstractQueue' = AbstractQueue
  BY <1>1, <1>2, <1>4, QueueUntouched
<1> QED BY <1>1, <1>5 DEF AbstractBuf

LEMMA InvokeMaps ==
  ASSUME RInv, IInv', NEW t \in Threads, NEW o, NEW d, Enter(t, o, d)
  PROVE  Atomic!Invoke(t, o, d)
<1>1. op[t] = "none" /\ t \notin GetInFlight /\ pc[t] = "idle" /\ UNCHANGED res
  BY DEF Enter, RInv, IInv, CallInv, GetInFlight
<1>2. /\ op' = [op EXCEPT ![t] = o] /\ buf' = [buf EXCEPT ![t] = d]
      /\ pc' = [pc EXCEPT ![t] = IF Locking(t) THEN "lock" ELSE "check"]
      /\ UNCHANGED <<bag, m_index_in, m_index_out, m_size>>
  BY DEF Enter, Goto, ring
<1>3. /\ AbstractQueue' = AbstractQueue
      /\ AbstractBuf' = [s \in Threads |-> IF s \in GetInFlight THEN NoData ELSE buf'[s]]
  BY <1>1, <1>2, QuietStep DEF RInv, IInv, TypeOK
<1>4. AbstractBuf' = [AbstractBuf EXCEPT ![t] = d]
  BY <1>1, <1>2, <1>3 DEF AbstractBuf, RInv, IInv, TypeOK
<1> QED BY <1>1, <1>2, <1>3, <1>4 DEF Atomic!Invoke

\* A refusal takes effect at the test of m_size.
LEMMA RefusalMaps ==
  ASSUME RInv, IInv', NEW t \in Threads,
         \/ t \in Producers /\ PutCheck(t) /\ ~HasRoom
         \/ t \in Consumers /\ ReadCheck(t) /\ ~HasDatagram
  PROVE  Atomic!ReturnZero(t)
<1>1. /\ pc[t] = "check" /\ res' = [res EXCEPT ![t] = "zero"]
      /\ UNCHANGED <<op, buf, bag, m_index_in, m_index_out, m_size>>
      /\ pc' = [pc EXCEPT ![t] = IF t \in Producers THEN "notify" ELSE AfterRead(t)]
  BY StackAssumption DEF PutCheck, ReadCheck, SetStatus, Goto
<1>2. res[t] = "none" /\ op[t] \in (IF t \in Producers THEN {"put"} ELSE {"get", "peek"})
  BY <1>1, StandsInFlight
<1>3. AbstractQueue' = AbstractQueue /\ AbstractBuf' = AbstractBuf
  BY <1>1, QuietStep DEF AfterRead, AbstractBuf, RInv, IInv, TypeOK
<1>4. AbstractQueue \in Seq(Datagrams) /\ Len(AbstractQueue) = m_size /\ m_size \in 0 .. TotalCount
  BY QueueType DEF RInv, IInv, SizeInv
<1>5. CASE t \in Producers
  <2>1. m_size = TotalCount
    BY <1>4, <1>5, StackAssumption, RingAssumption DEF HasRoom
  <2> QED BY <1>1, <1>2, <1>3, <1>4, <1>5, <2>1 DEF Atomic!ReturnZero, Atomic!InFlight
<1>6. CASE t \notin Producers
  <2>1. m_size = 0
    BY <1>6 DEF HasDatagram
  <2>2. AbstractQueue = <<>>
    BY <1>4, <2>1
  <2> QED BY <1>1, <1>2, <1>3, <1>6, <2>2 DEF Atomic!ReturnZero, Atomic!InFlight
<1> QED BY <1>5, <1>6

LEMMA PutMaps ==
  ASSUME RInv, IInv', NEW p \in Producers, PutCommit(p)
  PROVE  Atomic!Put(p)
<1>1. /\ pc[p] = "commit" /\ res' = [res EXCEPT ![p] = "ok"] /\ UNCHANGED <<op, buf>>
      /\ pc' = [pc EXCEPT ![p] = "notify"]
  BY DEF PutCommit, Goto
<1>2. res[p] = "none" /\ op[p] = "put" /\ p \notin GetInFlight
  BY <1>1, StandsInFlight, StackAssumption DEF GetInFlight
<1>3. GetInFlight' = GetInFlight
  BY <1>1, StackAssumption DEF GetInFlight, RInv, IInv, TypeOK
<1>4. AbstractBuf' = AbstractBuf /\ AbstractBuf[p] = buf[p]
  BY <1>1, <1>2, <1>3 DEF AbstractBuf
<1>5. Len(AbstractQueue) < TotalCount
  BY <1>1, QueueType DEF RInv, IInv, SizeInv, InRing
<1> QED BY <1>1, <1>2, <1>4, <1>5, CommitAppends DEF Atomic!Put, Atomic!InFlight

LEMMA GetMaps ==
  ASSUME RInv, IInv', NEW c \in Consumers, GetCommit(c)
  PROVE  Atomic!Get(c)
<1>1. /\ pc[c] = "commit" /\ UNCHANGED <<op, buf>>
      /\ res' = [res EXCEPT ![c] = IF buf[c] = NoData THEN "zero" ELSE "ok"]
  BY DEF GetCommit
<1>2. /\ AbstractQueue # <<>> /\ buf[c] = Head(AbstractQueue) /\ buf[c] # NoData
      /\ AbstractQueue' = Tail(AbstractQueue)
      /\ GetInFlight = {c} /\ GetInFlight' = {}
  BY CommitTakesHead, RingAssumption
<1>3. res[c] = "none" /\ op[c] = "get"
  BY <1>1, <1>2, StandsInFlight DEF GetInFlight
<1>4. AbstractBuf' = [AbstractBuf EXCEPT ![c] = Head(AbstractQueue)]
  BY <1>1, <1>2 DEF AbstractBuf, RInv, IInv, TypeOK
<1> QED BY <1>1, <1>2, <1>3, <1>4 DEF Atomic!Get, Atomic!InFlight

LEMMA PeekMaps ==
  ASSUME RInv, IInv', NEW c \in Consumers, PeekCopy(c)
  PROVE  Atomic!Peek(c)
<1>1. /\ pc[c] = "copy" /\ op[c] = "peek"
      /\ pc' = [pc EXCEPT ![c] = "unlock"]
      /\ buf' = [buf EXCEPT ![c] = FrontBag]
      /\ res' = [res EXCEPT ![c] = BagResult]
      /\ UNCHANGED <<op, bag, m_index_in, m_index_out, m_size>>
  BY DEF PeekCopy, Goto, ring
<1>2. res[c] = "none" /\ NoGetter
  BY <1>1, StandsInFlight, OneAtATime DEF NoGetter, GetInFlight, InRing, RInv, IInv
<1>3. BagResult = "ok"
  BY <1>1, FrontIsFilled, RingAssumption DEF BagResult, RInv
<1>4. /\ AbstractQueue' = AbstractQueue
      /\ AbstractBuf' = [t \in Threads |-> IF t \in GetInFlight THEN NoData ELSE buf'[t]]
  BY <1>1, QuietStep DEF RInv, IInv, TypeOK
<1>5. AbstractQueue # <<>> /\ Head(AbstractQueue) = FrontBag
  <2>1. m_size \in 1 .. TotalCount /\ m_index_out \in Index
    BY <1>1, RingAssumption DEF RInv, IInv, SizeInv, InRing, TypeOK, RingTypeOK
  <2>2. Taken = <<>> /\ FirstWaiting = m_index_out
    BY <1>2, NoneGets DEF FirstWaiting
  <2>3. Waiting = [k \in 1 .. m_size |-> bag[Place(k)]] /\ Place(1) = m_index_out
    <3>1. Waits = 1 .. m_size
      BY <2>1, <2>2 DEF Waits
    <3>2. Place(1) = m_index_out
      BY <2>1, <2>2, RingAssumption DEF Place, Wrap, Index
    <3> QED BY <3>1, <3>2, WaitingPlaces DEF RInv
  <2>4. AbstractQueue = Waiting /\ Waiting \in Seq(Datagrams)
    BY <2>2, QueueType DEF RInv, AbstractQueue
  <2> QED BY <2>1, <2>3, <2>4 DEF FrontBag
<1>6. AbstractBuf' = [AbstractBuf EXCEPT ![c] = Head(AbstractQueue)]
  BY <1>1, <1>2, <1>4, <1>5 DEF AbstractBuf, NoGetter, RInv, IInv, TypeOK
<1> QED BY <1>1, <1>2, <1>3, <1>4, <1>5, <1>6 DEF Atomic!Peek, Atomic!InFlight

LEMMA ReturnMaps ==
  ASSUME RInv, IInv', NEW t \in Threads, Return(t)
  PROVE  Atomic!Return(t)
<1>1. /\ pc[t] = "unlock" /\ pc' = [pc EXCEPT ![t] = "idle"]
      /\ op' = [op EXCEPT ![t] = "none"]
      /\ buf' = [buf EXCEPT ![t] = NoData]
      /\ res' = [res EXCEPT ![t] = "none"]
      /\ UNCHANGED <<bag, m_index_in, m_index_out, m_size>>
  BY DEF Return, Goto, ring
<1>2. res[t] # "none"
  BY <1>1 DEF RInv, ResultInv
<1>3. /\ AbstractQueue' = AbstractQueue
      /\ AbstractBuf' = [s \in Threads |-> IF s \in GetInFlight THEN NoData ELSE buf'[s]]
  BY <1>1, QuietStep DEF RInv, IInv, TypeOK
<1>4. AbstractBuf' = [AbstractBuf EXCEPT ![t] = NoData]
  BY <1>1, <1>3 DEF AbstractBuf, RInv, IInv, TypeOK
<1> QED BY <1>1, <1>2, <1>3, <1>4 DEF Atomic!Return

\* A put that saw room finds the bag empty (CountAgrees, of one state).
LEMMA RoomIsEmpty ==
  ASSUME IInv, NEW p \in Producers, At(p, "copy") PROVE bag[m_index_in] = NoData
BY InvAgrees DEF BagsAgreeWithCount

(***************************************************************************)
(* Within a call nothing else takes effect.                                *)
(***************************************************************************)
LEMMA PutStutters ==
  ASSUME RInv, IInv', NEW p \in Producers,
         (PutCheck(p) /\ HasRoom) \/ PutCopy(p) \/ PutAdvance(p)
  PROVE  UNCHANGED Atomic!vars
<1>1. /\ UNCHANGED <<op, buf, res, m_index_out, m_size>> /\ pc[p] \in {"check", "copy", "advance"}
      /\ pc' = [pc EXCEPT ![p] = IF At(p, "check") THEN "copy"
                                 ELSE IF At(p, "copy") THEN "advance" ELSE "commit"]
      /\ bag' = IF At(p, "copy") THEN [bag EXCEPT ![m_index_in] = buf[p]] ELSE bag
  BY DEF PutCheck, PutCopy, PutAdvance, SetStatus, FillBag, AdvanceIn, Goto, locals
<1>2. \A c \in Consumers : pc'[c] = pc[c]
  BY <1>1, StackAssumption DEF RInv, IInv, TypeOK
<1>3. GetInFlight' = GetInFlight /\ FirstWaiting' = FirstWaiting
  BY <1>1, <1>2 DEF GetInFlight, FirstWaiting, SomeGet, NextIndex
<1>4. ASSUME NEW k \in Waits PROVE bag'[Place(k)] = bag[Place(k)]
  <2>1. CASE At(p, "copy")
    <3>1. bag[m_index_in] = NoData
      BY <2>1, RoomIsEmpty DEF RInv
    <3>2. bag[Place(k)] # NoData /\ Place(k) \in Index
      BY WaitingPlaces, RingAssumption DEF RInv
    <3> QED BY <1>1, <3>1, <3>2 DEF RInv, IInv, TypeOK, RingTypeOK
  <2> QED BY <1>1, <2>1
<1>5. AbstractQueue' = AbstractQueue
  BY <1>1, <1>3, <1>4, QueueUntouched DEF RInv
<1> QED BY <1>1, <1>3, <1>5 DEF AbstractBuf, Atomic!vars

LEMMA GetStutters ==
  ASSUME RInv, IInv', NEW c \in Consumers,
         (ReadCheck(c) /\ HasDatagram) \/ GetCopy(c) \/ GetAdvance(c)
  PROVE  UNCHANGED Atomic!vars
<1>1. CASE ReadCheck(c) /\ HasDatagram
  <2>1. /\ UNCHANGED <<op, buf, res, bag, m_index_in, m_index_out, m_size>> /\ pc[c] = "check"
        /\ pc' = [pc EXCEPT ![c] = "copy"]
    BY <1>1 DEF ReadCheck, SetStatus, Goto
  <2>2. /\ GetInFlight' = GetInFlight /\ AbstractQueue' = AbstractQueue
    BY <2>1, QuietStep DEF RInv, IInv, TypeOK
  <2> QED BY <2>1, <2>2 DEF AbstractBuf, Atomic!vars
<1>2. CASE GetCopy(c)
  <2>1. /\ UNCHANGED <<op, res>> /\ pc[c] = "copy" /\ op[c] = "get"
        /\ pc' = [pc EXCEPT ![c] = "advance"] /\ buf' = [buf EXCEPT ![c] = FrontBag]
    BY <1>2 DEF GetCopy, Goto
  <2>2. \A d \in Consumers : InRing(d) => d = c
    BY <2>1, OneAtATime DEF RInv, IInv, InRing
  <2>3. GetInFlight' = {c}
    BY <2>1, <2>2 DEF GetInFlight, InRing, RInv, IInv, TypeOK
  <2>4. GetInFlight = {}
    BY <2>1, <2>2 DEF GetInFlight, InRing
  <2>5. buf[c] = NoData
    BY <2>1 DEF RInv, BufferInv, Before
  <2>6. AbstractBuf' = AbstractBuf
    BY <2>1, <2>3, <2>4, <2>5 DEF AbstractBuf, RInv, IInv, TypeOK
  <2> QED BY <1>2, <2>1, <2>6, CopyKeepsQueue DEF Atomic!vars
<1>3. CASE GetAdvance(c)
  <2>1. /\ UNCHANGED <<op, buf, res, bag, m_index_in, m_size>> /\ pc[c] = "advance"
        /\ pc' = [pc EXCEPT ![c] = "commit"] /\ m_index_out' = NextIndex(m_index_out)
    BY <1>3 DEF GetAdvance, AdvanceOut, Goto, locals
  <2>2. c \in GetInFlight
    BY <2>1, StackAssumption DEF GetInFlight, RInv, IInv, CallInv, TypeOK
  <2>3. GetInFlight' = GetInFlight
    BY <2>1, <2>2 DEF GetInFlight, RInv, IInv, TypeOK
  <2>4. SomeGet("advance")
    BY <2>1, <2>2, OneGetter DEF RInv
  <2>5. (IInv /\ c \in GetInFlight => (SomeGet("advance") <=> At(c, "advance")))'
    BY OneGetter, PTL
  <2>6. ~SomeGet("advance")'
    BY <2>1, <2>2, <2>3, <2>5 DEF RInv, IInv, TypeOK
  <2>7. FirstWaiting' = FirstWaiting
    BY <2>1, <2>4, <2>6 DEF FirstWaiting
  <2>8. AbstractQueue' = AbstractQueue
    BY <2>1, <2>3, <2>7, QueueUntouched DEF RInv
  <2> QED BY <2>1, <2>3, <2>8 DEF AbstractBuf, Atomic!vars
<1> QED BY <1>1, <1>2, <1>3

\* Mutex, condition variables and notification are nothing to the abstract queue.
LEMMA WaitStutters ==
  ASSUME RInv, IInv', NEW t \in Threads,
         \/ Acquire(t) \/ SpuriousWakeup(t)
         \/ Test(t) \/ Sleep(t) \/ Timeout(t) \/ Notify(t)
  PROVE  UNCHANGED Atomic!vars
<1>1. UNCHANGED <<op, buf, res, bag, m_index_in, m_index_out, m_size>>
  BY DEF Acquire, Lock, Relock, SpuriousWakeup, Test, Sleep, Timeout, Notify, ring, locals
<1>2. \A s \in Threads :
        /\ pc'[s] = "advance" <=> pc[s] = "advance"
        /\ pc'[s] = "commit" <=> pc[s] = "commit"
  BY DEF Acquire, Lock, Relock, AfterWait, SpuriousWakeup, Test, Sleep, Timeout, Notify,
     Sleepers, Goto, RInv, IInv, TypeOK
<1>3. GetInFlight' = GetInFlight /\ AbstractQueue' = AbstractQueue
  BY <1>1, <1>2, QuietStep DEF RInv
<1> QED BY <1>1, <1>3 DEF AbstractBuf, Atomic!vars

LEMMA StepMaps ==
  ASSUME RInv, IInv', [Next]_vars PROVE [Atomic!Next]_(Atomic!vars)
<1> USE DEF Atomic!Next, Atomic!Threads
<1>1. CASE UNCHANGED vars
  BY <1>1 DEF vars, ring, Atomic!vars, AbstractQueue, AbstractBuf, Taken, Waiting, GetInFlight,
     FirstWaiting, SomeGet, NextIndex
<1>2. ASSUME NEW p \in Producers, CallPut(p) \/ PutStep(p)
      PROVE  [Atomic!Next]_(Atomic!vars)
  <2>1. CASE CallPut(p)
    BY <2>1, InvokeMaps DEF CallPut, Atomic!Call
  <2>2. CASE PutCheck(p) /\ ~HasRoom
    BY <2>2, RefusalMaps
  <2>3. CASE (PutCheck(p) /\ HasRoom) \/ PutCopy(p) \/ PutAdvance(p)
    BY <2>3, PutStutters
  <2>4. CASE PutCommit(p)
    BY <2>4, PutMaps
  <2> QED BY <1>2, <2>1, <2>2, <2>3, <2>4 DEF PutStep
<1>3. ASSUME NEW c \in Consumers, CallRead(c) \/ ReadStep(c)
      PROVE  [Atomic!Next]_(Atomic!vars)
  <2>1. CASE CallRead(c)
    BY <2>1, InvokeMaps DEF CallRead, Atomic!Call
  <2>2. CASE ReadCheck(c) /\ ~HasDatagram
    BY <2>2, RefusalMaps
  <2>3. CASE (ReadCheck(c) /\ HasDatagram) \/ GetCopy(c) \/ GetAdvance(c)
    BY <2>3, GetStutters
  <2>4. CASE PeekCopy(c)
    BY <2>4, PeekMaps
  <2>5. CASE GetCommit(c)
    BY <2>5, GetMaps
  <2> QED BY <1>3, <2>1, <2>2, <2>3, <2>4, <2>5 DEF ReadStep
<1>4. ASSUME NEW t \in Threads, Return(t) PROVE [Atomic!Next]_(Atomic!vars)
  BY <1>4, ReturnMaps
<1>5. ASSUME NEW t \in Threads,
             \/ Acquire(t) \/ SpuriousWakeup(t)
             \/ Test(t) \/ Sleep(t) \/ Timeout(t) \/ Notify(t)
      PROVE  [Atomic!Next]_(Atomic!vars)
  BY <1>5, WaitStutters
<1> QED BY <1>1, <1>2, <1>3, <1>4, <1>5 DEF Next, Run

LEMMA InitMaps == Init => Atomic!Init
<1> SUFFICES ASSUME Init PROVE Atomic!Init
  OBVIOUS
<1>1. GetInFlight = {} /\ m_size = 0
  BY DEF Init, RingInit, GetInFlight
<1>2. Taken = <<>> /\ Waiting = <<>>
  BY <1>1 DEF Taken, Waiting
<1>3. AbstractQueue = <<>>
  BY <1>2 DEF AbstractQueue
<1>4. AbstractBuf = [t \in Threads |-> NoData]
  BY <1>1 DEF Init, AbstractBuf
<1> QED BY <1>3, <1>4 DEF Init, Atomic!Init, Atomic!Threads

-----------------------------------------------------------------------------
(***************************************************************************)
(* The bag a put has filled keeps its datagram until it is counted, and a  *)
(* call has a result exactly from its effect to its return.                *)
(***************************************************************************)
THEOREM RingKeepsDatagrams == Spec => []RInv
BY RInvInit, RInvStep, PTL DEF Spec

(***************************************************************************)
(* The ring buffer under its decorators is linearizable: whatever the      *)
(* threads of the two sides do at once, put, get and peek behave as if     *)
(* each took effect at one instant on one queue of TotalCount places.      *)
(***************************************************************************)
THEOREM ImplementsAtomicQueue == Spec => Linearizable
<1>1. RInv => IInv
  BY DEF RInv
<1> QED BY <1>1, InitMaps, StepMaps, RingKeepsDatagrams, PTL DEF Spec, Linearizable, Atomic!Spec
=============================================================================

-------------------------- MODULE QueueStackProofs --------------------------
(***************************************************************************)
(* The safety of QueueStack for every ring size, every set of threads and  *)
(* every admitted pair of decorators.  IInv is inductive: RingUntouched    *)
(* deals with the steps that leave the bags and the indices alone, and one *)
(* lemma deals with each step that does not.                               *)
(***************************************************************************)
EXTENDS QueueStack, TLAPS

USE DEF Threads, At, Goto, locals, ring, Mode, Locking, Labels, Unlocked

(***************************************************************************)
(* At most one producer, and at most one consumer, is between its test of  *)
(* m_size and its change of it: the mutex keeps them apart, or there is    *)
(* only one.                                                               *)
(***************************************************************************)
LEMMA OneAtATime ==
  ASSUME TypeOK, CallInv, MutexInv
  PROVE  /\ \A p, q \in Producers : InRing(p) /\ InRing(q) => p = q
         /\ \A c, d \in Consumers : InRing(c) /\ InRing(d) => c = d
  <1>1. ASSUME NEW p \in Producers, NEW q \in Producers, InRing(p), InRing(q)
        PROVE  p = q
    <2>1. CASE WriteMode = "noblock"
      BY <2>1, StackAssumption
    <2>2. CASE WriteMode # "noblock"
      <3>1. Holding(p) /\ Holding(q)
        BY <1>1, <2>2 DEF InRing, Holding
      <3> QED BY <3>1 DEF MutexInv
    <2> QED BY <2>1, <2>2
  <1>2. ASSUME NEW c \in Consumers, NEW d \in Consumers, InRing(c), InRing(d)
        PROVE  c = d
    <2>0. c \notin Producers /\ d \notin Producers
      BY StackAssumption
    <2>1. CASE ReadMode = "noblock"
      BY <2>1, StackAssumption
    <2>2. CASE ReadMode # "noblock"
      <3>1. Holding(c) /\ Holding(d)
        BY <1>2, <2>0, <2>2 DEF InRing, Holding
      <3> QED BY <3>1 DEF MutexInv
    <2> QED BY <2>1, <2>2
  <1> QED BY <1>1, <1>2

(***************************************************************************)
(* The invariants of the ring read no more of the threads than who stands  *)
(* at "advance" and at "commit".                                           *)
(***************************************************************************)
LEMMA RingUntouched ==
  ASSUME TypeOK, CallInv, IndexInv, BagInv,
         UNCHANGED <<bag, m_index_in, m_index_out, m_size>>,
         \A t \in Threads :
           /\ pc'[t] = "advance" <=> pc[t] = "advance"
           /\ pc'[t] = "commit" <=> pc[t] = "commit"
           /\ pc[t] \in {"advance", "commit"} => op'[t] = op[t]
  PROVE  IndexInv' /\ BagInv'
  <1>1. /\ SomePut("advance")' = SomePut("advance")
        /\ SomePut("commit")' = SomePut("commit")
    BY DEF SomePut
  <1>2. /\ SomeGet("advance")' = SomeGet("advance")
        /\ SomeGet("commit")' = SomeGet("commit")
    BY DEF SomeGet
  <1>3. Span' = Span
    BY <1>1, <1>2 DEF Span, PutAhead, GetAhead
  <1>4. \A i \in Index : Filled(i)' = Filled(i)
    BY <1>1, <1>2, <1>3 DEF Filled, Offset
  <1> QED BY <1>3, <1>4 DEF IndexInv, BagInv

LEMMA InitOK == Init => IInv
  <1> SUFFICES ASSUME Init PROVE IInv
    OBVIOUS
  <1> USE RingAssumption, StackAssumption DEF Init, RingInit
  <1>1. TypeOK
    BY DEF TypeOK, RingTypeOK, Index, Status
  <1>2. CallInv
    BY DEF CallInv
  <1>3. MutexInv
    BY DEF MutexInv, Holding
  <1>4. ~SomePut("advance") /\ ~SomePut("commit") /\ ~SomeGet("advance") /\ ~SomeGet("commit")
    BY DEF SomePut, SomeGet
  <1>5. Span = 0
    BY <1>4 DEF Span, PutAhead, GetAhead
  <1>6. SizeInv /\ IndexInv
    BY <1>5 DEF SizeInv, IndexInv, InRing
  <1>7. BagInv
    BY <1>4, <1>5 DEF BagInv, Filled, Offset, Index
  <1> QED BY <1>1, <1>2, <1>3, <1>6, <1>7 DEF IInv

(***************************************************************************)
(* Types, calls and mutex.  Each action moves one thread (Notify two), so  *)
(* each conjunct follows for the moved threads from the action's guard and *)
(* for the others because nothing of theirs changes.                       *)
(***************************************************************************)
ThreadInv == TypeOK /\ CallInv /\ MutexInv

LEMMA CallerStep ==
  ASSUME ThreadInv, NEW t \in Threads,
         \/ t \in Producers /\ CallPut(t)
         \/ t \in Consumers /\ CallRead(t)
         \/ Acquire(t) \/ SpuriousWakeup(t)
         \/ Test(t) \/ Sleep(t) \/ Timeout(t) \/ Notify(t) \/ Return(t)
  PROVE  ThreadInv'
  <1> USE RingAssumption, StackAssumption DEF ThreadInv, TypeOK, RingTypeOK, Modes
  <1>1. CASE t \in Producers /\ CallPut(t)
    BY <1>1 DEF CallPut, Enter, CallInv, MutexInv, Holding
  <1>2. CASE t \in Consumers /\ CallRead(t)
    BY <1>2 DEF CallRead, Enter, CallInv, MutexInv, Holding
  <1>3. CASE Lock(t)
    BY <1>3 DEF Lock, CallInv, MutexInv, Holding
  <1>4. CASE Relock(t)
    BY <1>4 DEF Relock, AfterWait, CallInv, MutexInv, Holding
  <1>5. CASE SpuriousWakeup(t) \/ Timeout(t)
    BY <1>5 DEF SpuriousWakeup, Timeout, CallInv, MutexInv, Holding
  <1>6. CASE Test(t)
    BY <1>6 DEF Test, CallInv, MutexInv, Holding
  <1>7. CASE Sleep(t)
    BY <1>7 DEF Sleep, CallInv, MutexInv, Holding
  <1>8. CASE Notify(t)
    BY <1>8 DEF Notify, Sleepers, CallInv, MutexInv, Holding
  <1>9. CASE Return(t)
    BY <1>9 DEF Return, CallInv, MutexInv, Holding
  <1> QED BY <1>1, <1>2, <1>3, <1>4, <1>5, <1>6, <1>7, <1>8, <1>9 DEF Acquire

LEMMA PutStepKeepsThreads ==
  ASSUME ThreadInv, SizeInv, NEW p \in Producers, PutStep(p)
  PROVE  ThreadInv'
  <1> USE RingAssumption, StackAssumption
      DEF ThreadInv, TypeOK, RingTypeOK, Modes, CallInv, MutexInv, Holding
  <1>1. CASE PutCheck(p)
    BY <1>1 DEF PutCheck, SetStatus, Status
  <1>2. CASE PutCopy(p)
    BY <1>2 DEF PutCopy, FillBag
  <1>3. CASE PutAdvance(p)
    BY <1>3 DEF PutAdvance, AdvanceIn, NextIndex, Index
  <1>4. CASE PutCommit(p)
    BY <1>4 DEF PutCommit, CountIn
  <1> QED BY <1>1, <1>2, <1>3, <1>4 DEF PutStep

(***************************************************************************)
(* A get relies on the bag it empties holding a datagram: what it carries  *)
(* in its buffer afterwards is one.                                        *)
(***************************************************************************)
LEMMA FrontIsFilled ==
  ASSUME IInv, NEW c \in Consumers, At(c, "copy")
  PROVE  FrontBag \in Datagrams
  <1>1. c \notin Producers
    BY StackAssumption
  <1>2. ~SomeGet("advance") /\ ~SomeGet("commit")
    BY OneAtATime DEF IInv, SomeGet, InRing
  <1>3. Span > 0 /\ Offset(m_index_out) = 0 /\ m_index_out \in Index
    BY <1>2, RingAssumption
    DEF IInv, TypeOK, RingTypeOK, SizeInv, InRing, Span, GetAhead, PutAhead, Offset, Index
  <1>4. Filled(m_index_out)
    BY <1>2, <1>3 DEF Filled
  <1> QED BY <1>3, <1>4 DEF IInv, BagInv, TypeOK, RingTypeOK, FrontBag

LEMMA ReadStepKeepsThreads ==
  ASSUME IInv, NEW c \in Consumers, ReadStep(c)
  PROVE  ThreadInv'
  <1>0. At(c, "copy") => FrontBag \in Datagrams
    BY FrontIsFilled
  <1> USE RingAssumption, StackAssumption
      DEF IInv, ThreadInv, TypeOK, RingTypeOK, Modes, CallInv, MutexInv, Holding
  <1>1. CASE ReadCheck(c)
    BY <1>1 DEF ReadCheck, AfterRead, SetStatus, Status
  <1>2. CASE PeekCopy(c)
    BY <1>0, <1>2 DEF PeekCopy, BagResult
  <1>3. CASE GetCopy(c)
    BY <1>0, <1>3 DEF GetCopy, EmptyBag
  <1>4. CASE GetAdvance(c)
    BY <1>4 DEF GetAdvance, AdvanceOut, NextIndex, Index
  <1>5. CASE GetCommit(c)
    BY <1>5 DEF GetCommit, CountOut
  <1> QED BY <1>1, <1>2, <1>3, <1>4, <1>5 DEF ReadStep

(***************************************************************************)
(* The three steps of a put that change the ring.  Before them the putting *)
(* thread p is the only producer InRing, so SomePut is about p alone.      *)
(***************************************************************************)
RingInv == SizeInv /\ IndexInv /\ BagInv

LEMMA PutKeepsRing ==
  ASSUME IInv, NEW p \in Producers, PutCopy(p) \/ PutAdvance(p) \/ PutCommit(p)
  PROVE  RingInv'
  <1>0. /\ InRing(p)
        /\ \A q \in Producers : InRing(q) => q = p
        /\ \A c \in Consumers : p # c /\ pc'[c] = pc[c] /\ op'[c] = op[c]
        /\ \A q \in Producers \ {p} : pc'[q] = pc[q]
        /\ TypeOK
    BY OneAtATime, StackAssumption
    DEF IInv, InRing, PutCopy, PutAdvance, PutCommit, TypeOK
  <1>1. /\ SomeGet("advance")' = SomeGet("advance")
        /\ SomeGet("commit")' = SomeGet("commit")
    BY <1>0 DEF SomeGet
  <1>2. /\ SomeGet("advance") => ~SomeGet("commit")
        /\ SomeGet("advance") \/ SomeGet("commit") => m_size > 0
        /\ m_size \in 0 .. TotalCount - 1
    BY <1>0, OneAtATime, RingAssumption DEF IInv, SomeGet, InRing, SizeInv
  <1>3. SizeInv'
    <2>1. CASE PutCommit(p)
      <3>1. m_size' = m_size + 1 /\ pc'[p] = "notify"
        BY <2>1, <1>0 DEF PutCommit, CountIn, TypeOK
      <3> QED BY <3>1, <1>0, <1>2, RingAssumption DEF IInv, SizeInv, InRing
    <2>2. CASE ~PutCommit(p)
      <3>1. m_size' = m_size
        BY <2>2 DEF PutCopy, PutAdvance, FillBag, AdvanceIn
      <3> QED BY <3>1, <1>0, <1>2, RingAssumption DEF IInv, SizeInv, InRing
    <2> QED BY <2>1, <2>2
  <1> USE RingAssumption
      DEF IInv, TypeOK, RingTypeOK, Index, IndexInv, BagInv, Filled, Offset,
          Span, PutAhead, GetAhead, SizeInv, CallInv
  <1>4. CASE PutCopy(p)
    <2>1. /\ ~SomePut("advance") /\ ~SomePut("commit")
          /\ SomePut("advance")' /\ ~SomePut("commit")'
      BY <1>4, <1>0 DEF PutCopy, SomePut, InRing
    <2>2. IndexInv'
      BY <1>4, <1>1, <2>1 DEF PutCopy, FillBag
    <2>3. buf[p] \in Datagrams /\ bag' = [bag EXCEPT ![m_index_in] = buf[p]]
      BY <1>4, <1>0 DEF PutCopy, FillBag
    <2>4. SomeGet("advance") => m_index_in # m_index_out
      BY <1>2, <2>1
    <2>5. BagInv'
      BY <1>4, <1>1, <2>1, <2>3, <2>4 DEF PutCopy, FillBag
    <2> QED BY <1>3, <2>2, <2>5 DEF RingInv
  <1>5. CASE PutAdvance(p)
    <2>1. /\ SomePut("advance") /\ ~SomePut("commit")
          /\ ~SomePut("advance")' /\ SomePut("commit")'
      BY <1>5, <1>0 DEF PutAdvance, SomePut, InRing
    <2>2. m_index_in' = NextIndex(m_index_in) /\ UNCHANGED <<bag, m_index_out, m_size>>
      BY <1>5 DEF PutAdvance, AdvanceIn
    <2>3. Span' = Span + 1 /\ Span \in 0 .. TotalCount - 1
      BY <1>1, <1>2, <2>1, <2>2
    <2>4. IndexInv'
      BY <2>2, <2>3 DEF NextIndex
    <2>5. \A i \in Index : Offset(i) = Span <=> i = m_index_in
      BY <2>3
    <2>6. \A i \in Index : Filled(i)' = Filled(i)
      BY <1>1, <2>1, <2>2, <2>3, <2>5
    <2>7. BagInv'
      BY <2>2, <2>6
    <2> QED BY <1>3, <2>4, <2>7 DEF RingInv
  <1>6. CASE PutCommit(p)
    <2>1. /\ ~SomePut("advance") /\ SomePut("commit")
          /\ ~SomePut("advance")' /\ ~SomePut("commit")'
      BY <1>6, <1>0 DEF PutCommit, SomePut, InRing
    <2>2. m_size' = m_size + 1 /\ UNCHANGED <<bag, m_index_in, m_index_out>>
      BY <1>6 DEF PutCommit, CountIn
    <2>3. Span' = Span
      BY <1>1, <2>1, <2>2
    <2> QED BY <1>1, <1>3, <2>1, <2>2, <2>3 DEF RingInv
  <1> QED BY <1>4, <1>5, <1>6

(***************************************************************************)
(* The same for the three steps of a get.                                  *)
(***************************************************************************)
LEMMA GetKeepsRing ==
  ASSUME IInv, NEW c \in Consumers, GetCopy(c) \/ GetAdvance(c) \/ GetCommit(c)
  PROVE  RingInv'
  <1>0. /\ InRing(c)
        /\ op[c] = "get" /\ op'[c] = "get"
        /\ \A d \in Consumers : InRing(d) => d = c
        /\ \A p \in Producers : p # c /\ pc'[p] = pc[p]
        /\ \A d \in Consumers \ {c} : pc'[d] = pc[d] /\ op'[d] = op[d]
        /\ TypeOK
    BY OneAtATime, StackAssumption
    DEF IInv, CallInv, InRing, GetCopy, GetAdvance, GetCommit, TypeOK
  <1>1. /\ SomePut("advance")' = SomePut("advance")
        /\ SomePut("commit")' = SomePut("commit")
    BY <1>0 DEF SomePut
  <1>2. /\ SomePut("advance") => ~SomePut("commit")
        /\ SomePut("advance") \/ SomePut("commit") => m_size < TotalCount
        /\ m_size \in 1 .. TotalCount
    BY <1>0, OneAtATime, RingAssumption DEF IInv, SomePut, InRing, SizeInv
  <1>3. SizeInv'
    <2>1. CASE GetCommit(c)
      <3>1. m_size' = m_size - 1 /\ pc'[c] = "notify"
        BY <2>1, <1>0 DEF GetCommit, CountOut, TypeOK
      <3> QED BY <3>1, <1>0, <1>2, RingAssumption DEF IInv, SizeInv, InRing
    <2>2. CASE ~GetCommit(c)
      <3>1. m_size' = m_size
        BY <2>2 DEF GetCopy, GetAdvance, EmptyBag, AdvanceOut
      <3> QED BY <3>1, <1>0, <1>2, RingAssumption DEF IInv, SizeInv, InRing
    <2> QED BY <2>1, <2>2
  <1> USE RingAssumption
      DEF IInv, TypeOK, RingTypeOK, Index, IndexInv, BagInv, Filled, Offset,
          Span, PutAhead, GetAhead, SizeInv
  <1>4. CASE GetCopy(c)
    <2>1. /\ ~SomeGet("advance") /\ ~SomeGet("commit")
          /\ SomeGet("advance")' /\ ~SomeGet("commit")'
      BY <1>4, <1>0 DEF GetCopy, SomeGet, InRing
    <2>2. IndexInv'
      BY <1>4, <1>1, <2>1 DEF GetCopy, EmptyBag
    <2>3. BagInv'
      BY <1>4, <1>1, <2>1 DEF GetCopy, EmptyBag
    <2> QED BY <1>3, <2>2, <2>3 DEF RingInv
  <1>5. CASE GetAdvance(c)
    <2>1. /\ SomeGet("advance") /\ ~SomeGet("commit")
          /\ ~SomeGet("advance")' /\ SomeGet("commit")'
      BY <1>5, <1>0 DEF GetAdvance, SomeGet, InRing
    <2>2. m_index_out' = NextIndex(m_index_out) /\ UNCHANGED <<bag, m_index_in, m_size>>
      BY <1>5 DEF GetAdvance, AdvanceOut
    <2>3. Span' = Span - 1 /\ Span \in 1 .. TotalCount
      BY <1>1, <1>2, <2>1, <2>2
    <2>4. IndexInv'
      BY <2>2, <2>3 DEF NextIndex
    <2>5. \A i \in Index : Offset(i)' = IF i = m_index_out THEN TotalCount - 1 ELSE Offset(i) - 1
      BY <2>2 DEF NextIndex
    <2>6. SomePut("advance") => m_index_in # m_index_out
      BY <1>2, <2>1
    <2>7. \A i \in Index : Filled(i)' = Filled(i)
      BY <1>1, <2>1, <2>2, <2>3, <2>5, <2>6
    <2>8. BagInv'
      BY <2>2, <2>7
    <2> QED BY <1>3, <2>4, <2>8 DEF RingInv
  <1>6. CASE GetCommit(c)
    <2>1. /\ ~SomeGet("advance") /\ SomeGet("commit")
          /\ ~SomeGet("advance")' /\ ~SomeGet("commit")'
      BY <1>6, <1>0 DEF GetCommit, SomeGet, InRing
    <2>2. m_size' = m_size - 1 /\ UNCHANGED <<bag, m_index_in, m_index_out>>
      BY <1>6 DEF GetCommit, CountOut
    <2>3. Span' = Span
      BY <1>1, <2>1, <2>2
    <2> QED BY <1>1, <1>3, <2>1, <2>2, <2>3 DEF RingInv
  <1> QED BY <1>4, <1>5, <1>6

(***************************************************************************)
(* Every other step leaves bags, indices and count alone.  Only the tests  *)
(* of m_size let a thread into the ring, and they let it in when the count *)
(* is right for it.                                                        *)
(***************************************************************************)
LEMMA OtherStepKeepsRing ==
  ASSUME IInv, NEW t \in Threads,
         \/ t \in Producers /\ (CallPut(t) \/ PutCheck(t))
         \/ t \in Consumers /\ (CallRead(t) \/ ReadCheck(t) \/ PeekCopy(t))
         \/ Acquire(t) \/ SpuriousWakeup(t)
         \/ Test(t) \/ Sleep(t) \/ Timeout(t) \/ Notify(t) \/ Return(t)
  PROVE  RingInv'
  <1> USE DEF IInv, TypeOK, CallPut, CallRead, Enter, PutCheck, ReadCheck, SetStatus,
              PeekCopy, Acquire, Lock, Relock, SpuriousWakeup, Test, Sleep,
              Timeout, Notify, Return, AfterWait, AfterRead
  <1>1. UNCHANGED <<bag, m_index_in, m_index_out, m_size>>
    OBVIOUS
  <1>2. \A s \in Threads :
          /\ pc'[s] = "advance" <=> pc[s] = "advance"
          /\ pc'[s] = "commit" <=> pc[s] = "commit"
          /\ pc[s] \in {"advance", "commit"} => op'[s] = op[s]
    BY DEF Sleepers
  <1>3. IndexInv' /\ BagInv'
    BY <1>1, <1>2, RingUntouched DEF IInv
  <1>4. \A p \in Producers : InRing(p)' => InRing(p) \/ HasRoom
    BY StackAssumption DEF InRing, Sleepers
  <1>5. \A c \in Consumers : InRing(c)' => InRing(c) \/ HasDatagram
    BY StackAssumption DEF InRing, Sleepers
  <1>6. SizeInv'
    BY <1>1, <1>4, <1>5, RingAssumption DEF SizeInv, HasRoom, HasDatagram
  <1> QED BY <1>3, <1>6 DEF RingInv

LEMMA NextOK == IInv /\ [Next]_vars => IInv'
  <1> SUFFICES ASSUME IInv, [Next]_vars PROVE ThreadInv' /\ RingInv'
    BY DEF IInv, ThreadInv, RingInv
  <1>0. ThreadInv /\ SizeInv
    BY DEF IInv, ThreadInv
  <1>1. CASE UNCHANGED vars
    BY <1>1
    DEF vars, IInv, ThreadInv, RingInv, TypeOK, RingTypeOK, CallInv, MutexInv, Holding,
        SizeInv, InRing, IndexInv, BagInv, Filled, Offset, Span, PutAhead, GetAhead,
        SomePut, SomeGet
  <1>2. ASSUME NEW p \in Producers, CallPut(p) \/ PutStep(p)
        PROVE  ThreadInv' /\ RingInv'
    <2>1. CASE CallPut(p)
      BY <2>1, <1>0, CallerStep, OtherStepKeepsRing
    <2>2. CASE PutStep(p)
      BY <2>2, <1>0, PutStepKeepsThreads, PutKeepsRing, OtherStepKeepsRing DEF PutStep
    <2> QED BY <1>2, <2>1, <2>2
  <1>3. ASSUME NEW c \in Consumers, CallRead(c) \/ ReadStep(c)
        PROVE  ThreadInv' /\ RingInv'
    <2>1. CASE CallRead(c)
      BY <2>1, <1>0, CallerStep, OtherStepKeepsRing
    <2>2. CASE ReadStep(c)
      BY <2>2, <1>0, ReadStepKeepsThreads, GetKeepsRing, OtherStepKeepsRing DEF ReadStep
    <2> QED BY <1>3, <2>1, <2>2
  <1>4. ASSUME NEW t \in Threads,
               \/ Acquire(t) \/ SpuriousWakeup(t)
               \/ Test(t) \/ Sleep(t) \/ Timeout(t) \/ Notify(t) \/ Return(t)
        PROVE  ThreadInv' /\ RingInv'
    BY <1>0, <1>4, CallerStep, OtherStepKeepsRing
  <1> QED BY <1>1, <1>2, <1>3, <1>4 DEF Next, Run

(***************************************************************************)
(* IInv holds in every state of every instance of the stack: at most       *)
(* TotalCount datagrams are counted, the indices are apart by what is      *)
(* counted, and exactly the bags between them are filled.                  *)
(***************************************************************************)
THEOREM Inductive == Spec => []IInv
  BY InitOK, NextOK, PTL DEF Spec

(***************************************************************************)
(* Every variable keeps its type; in particular the uint32_t counter       *)
(* m_size never wraps below 0 and the indices never leave the vector.      *)
(***************************************************************************)
THEOREM TypeCorrect == Spec => []TypeOK
  <1>1. IInv => TypeOK
    BY DEF IInv
  <1> QED BY <1>1, Inductive, PTL

(***************************************************************************)
(* put, get and peek never touch a bag or an index at the same time, even  *)
(* when one side of the stack takes no mutex.                              *)
(***************************************************************************)
THEOREM RaceFree == Spec => []NoDataRace
  <1>1. IInv => NoDataRace
    <2> SUFFICES ASSUME IInv PROVE NoDataRace
      OBVIOUS
    <2>1. ASSUME NEW p \in Producers, NEW c \in Consumers, At(p, "copy"), At(c, "copy")
          PROVE  m_index_in # m_index_out
      <3>1. /\ ~SomePut("commit") /\ ~SomeGet("commit")
        BY <2>1, OneAtATime DEF IInv, SomePut, SomeGet, InRing
      <3>2. Span = m_size /\ m_size \in 1 .. TotalCount - 1
        BY <2>1, <3>1, RingAssumption DEF IInv, SizeInv, InRing, Span, PutAhead, GetAhead
      <3> QED BY <3>2, RingAssumption DEF IInv, TypeOK, RingTypeOK, IndexInv, Index
    <2> QED BY <2>1, OneAtATime DEF IInv, NoDataRace
  <1> QED BY <1>1, Inductive, PTL

\* What IInv says of the bags a thread is about to touch.
LEMMA InvAgrees == IInv => BagsAgreeWithCount
  <1> SUFFICES ASSUME IInv PROVE BagsAgreeWithCount
    OBVIOUS
  <1>1. ASSUME NEW c \in Consumers, At(c, "copy") PROVE FrontBag # NoData
    BY <1>1, FrontIsFilled, RingAssumption
  <1>2. ASSUME NEW p \in Producers, At(p, "copy") PROVE bag[m_index_in] = NoData
    <2>1. ~SomePut("advance") /\ ~SomePut("commit")
      BY <1>2, OneAtATime DEF IInv, SomePut, InRing
    <2>2. m_size \in 0 .. TotalCount - 1 /\ (SomeGet("commit") => m_size > 0)
      BY <1>2, RingAssumption DEF IInv, SizeInv, InRing, SomeGet
    <2>3. Span \in 0 .. TotalCount - 1 /\ m_index_in \in Index /\ m_index_out \in Index
      BY <2>1, <2>2, RingAssumption DEF Span, PutAhead, GetAhead, IInv, TypeOK, RingTypeOK
    <2>4. Offset(m_index_in) = Span
      BY <2>3, RingAssumption DEF IInv, IndexInv, Offset, Index
    <2>5. ~Filled(m_index_in)
      BY <2>1, <2>3, <2>4, RingAssumption DEF Filled
    <2> QED BY <2>3, <2>5 DEF IInv, BagInv
  <1> QED BY <1>1, <1>2 DEF BagsAgreeWithCount

(***************************************************************************)
(* A reader that saw m_size > 0 finds a datagram at m_index_out, and a     *)
(* writer that saw room finds an empty bag at m_index_in.                  *)
(***************************************************************************)
THEOREM CountAgrees == Spec => []BagsAgreeWithCount
  BY InvAgrees, Inductive, PTL
=============================================================================

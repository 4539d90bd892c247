----------------------------- MODULE QueueStack -----------------------------
(***************************************************************************)
(* A RingQueue under a write decorator and a read decorator of             *)
(* RingQueueBlockDecorators.h, called by threads.  WriteMode and ReadMode  *)
(* name the two decorators:                                                *)
(*   "block"    RQ_BlockWriteDecorator / RQ_BlockReadDecorator             *)
(*   "timed"    RQ_BlockWriteTimedDecorator / RQ_BlockReadTimedDecorator   *)
(*   "noblock"  RQ_NoBlockWriteDecorator / RQ_NoBlockReadDecorator         *)
(* The constructor of the outer decorator hands its mutex and its two      *)
(* condition variables to the inner one, so the pair shares one set; a     *)
(* call the outer decorator does not override goes through unlocked to     *)
(* the inner one, so the order of the two does not matter.                 *)
(*                                                                         *)
(* pc[t] is where thread t stands in its call:                             *)
(*   idle      between calls                                               *)
(*   lock      at the construction of the unique_lock                      *)
(*   test      at the condition of wait_function_put / wait_function_get   *)
(*   sleep     found that it must wait, still holds the mutex              *)
(*   asleep    in wait or wait_for, mutex released                         *)
(*   relock    woken, waiting for the mutex inside wait                    *)
(*   check     at the guard of RingQueue::put, get or peek                 *)
(*   copy      about to fill, empty or read a bag                          *)
(*   advance   about to move the index                                     *)
(*   commit    about to change m_size                                      *)
(*   notify    back in the decorator, at notify_one                        *)
(*   unlock    at the return, the unique_lock still held                   *)
(***************************************************************************)
EXTENDS RingQueue, Sequences

CONSTANTS
  Producers,
  Consumers,
  ConsumerOps, (* the calls consumers make, a subset of {"get", "peek"}    *)
  WriteMode,
  ReadMode,
  Nobody       (* the owner of a free mutex                                *)

Modes == {"block", "timed", "noblock"}

(***************************************************************************)
(* RingQueue tolerates one producer and one consumer without a mutex, and  *)
(* the unlocking decorators add none: more threads on a side need a        *)
(* decorator that locks.                                                   *)
(***************************************************************************)
ASSUME StackAssumption ==
  /\ Producers \cap Consumers = {}
  /\ Nobody \notin Producers \cup Consumers
  /\ ConsumerOps \subseteq {"get", "peek"}
  /\ WriteMode \in Modes
  /\ ReadMode \in Modes
  /\ WriteMode = "noblock" => \A p, q \in Producers : p = q
  /\ ReadMode = "noblock" => \A c, d \in Consumers : c = d

VARIABLES
  pc,
  op,     (* op[t]: the call t is in, or "none"                            *)
  buf,    (* buf[t]: the buffer t passed to the call                       *)
  res,    (* res[t]: what the call will return, "none" before it is known  *)
  m_mutex (* who holds the shared mutex                                    *)

locals == <<op, buf, res>>
vars == <<ring, pc, op, buf, res, m_mutex>>

Threads == Producers \cup Consumers

Mode(t) == IF t \in Producers THEN WriteMode ELSE ReadMode
Locking(t) == Mode(t) # "noblock"

Goto(t, l) == pc' = [pc EXCEPT ![t] = l]
At(t, l) == pc[t] = l

Init ==
  /\ RingInit
  /\ pc  = [t \in Threads |-> "idle"]
  /\ op  = [t \in Threads |-> "none"]
  /\ buf = [t \in Threads |-> NoData]
  /\ res = [t \in Threads |-> "none"]
  /\ m_mutex = Nobody

(***************************************************************************)
(* Entering a call.  A locking decorator takes the mutex first; the others *)
(* go straight to the ring.                                                *)
(***************************************************************************)
Enter(t, o, d) ==
  /\ At(t, "idle")
  /\ op'  = [op EXCEPT ![t] = o]
  /\ buf' = [buf EXCEPT ![t] = d]
  /\ Goto(t, IF Locking(t) THEN "lock" ELSE "check")
  /\ UNCHANGED <<ring, res, m_mutex>>

CallPut(p) == \E d \in Datagrams : Enter(p, "put", d)
CallRead(c) == \E o \in ConsumerOps : Enter(c, o, NoData)

\* Mutant: no mutex.
LockAlways(t) ==
  /\ At(t, "lock")
  /\ m_mutex' = t
  /\ Goto(t, "test")
  /\ UNCHANGED <<ring, locals>>

Lock(t) ==
  /\ At(t, "lock")
  /\ m_mutex = Nobody
  /\ m_mutex' = t
  /\ Goto(t, "test")
  /\ UNCHANGED <<ring, locals>>

(***************************************************************************)
(* wait_function_put and wait_function_get: a blocking decorator waits in  *)
(* a while, a timed one waits at most once, in an if.                      *)
(***************************************************************************)
MustWait(t) ==
  IF t \in Producers THEN m_size >= ReportedCapacity ELSE m_size <= 0

Test(t) ==
  /\ At(t, "test")
  /\ Goto(t, IF MustWait(t) THEN "sleep" ELSE "check")
  /\ UNCHANGED <<ring, locals, m_mutex>>

Sleep(t) ==
  /\ At(t, "sleep")
  /\ m_mutex' = Nobody
  /\ Goto(t, "asleep")
  /\ UNCHANGED <<ring, locals>>

\* wait_for gives up after its timeout.
Timeout(t) ==
  /\ At(t, "asleep")
  /\ Mode(t) = "timed"
  /\ Goto(t, "relock")
  /\ UNCHANGED <<ring, locals, m_mutex>>

\* A condition variable may wake a thread nobody notified.
SpuriousWakeup(t) ==
  /\ At(t, "asleep")
  /\ Goto(t, "relock")
  /\ UNCHANGED <<ring, locals, m_mutex>>

\* Mutant: the timed wait in a loop too.
TimedWaitRetests(t) == "test"

AfterWait(t) == IF Mode(t) = "block" THEN "test" ELSE "check"

\* Mutant: the wait returns without the mutex.
RelockAtOnce(t) ==
  /\ At(t, "relock")
  /\ m_mutex' = t
  /\ Goto(t, AfterWait(t))
  /\ UNCHANGED <<ring, locals>>

Relock(t) ==
  /\ At(t, "relock")
  /\ m_mutex = Nobody
  /\ m_mutex' = t
  /\ Goto(t, AfterWait(t))
  /\ UNCHANGED <<ring, locals>>

(***************************************************************************)
(* RingQueue::put.                                                         *)
(***************************************************************************)
\* Mutant: m_size++ before the bag is filled.
PutCheckCounts(p) ==
  /\ At(p, "check")
  /\ IF HasRoom
     THEN /\ CountIn
          /\ Goto(p, "copy")
          /\ UNCHANGED res
     ELSE /\ SetStatus("STATUS_QUEUEBASE_FULL")
          /\ Goto(p, "notify")
          /\ res' = [res EXCEPT ![p] = "zero"]
  /\ UNCHANGED <<op, buf, m_mutex>>

PutCheck(p) ==
  /\ At(p, "check")
  /\ IF HasRoom
     THEN /\ SetStatus("STATUS_QUEUEBASE_OK")
          /\ Goto(p, "copy")
          /\ UNCHANGED res
     ELSE /\ SetStatus("STATUS_QUEUEBASE_FULL")
          /\ Goto(p, "notify")
          /\ res' = [res EXCEPT ![p] = "zero"]
  /\ UNCHANGED <<op, buf, m_mutex>>

PutCopy(p) ==
  /\ At(p, "copy")
  /\ FillBag(buf[p])
  /\ Goto(p, "advance")
  /\ UNCHANGED <<locals, m_mutex>>

PutAdvance(p) ==
  /\ At(p, "advance")
  /\ AdvanceIn
  /\ Goto(p, "commit")
  /\ UNCHANGED <<locals, m_mutex>>

PutCommit(p) ==
  /\ At(p, "commit")
  /\ CountIn
  /\ res' = [res EXCEPT ![p] = "ok"]
  /\ Goto(p, "notify")
  /\ UNCHANGED <<op, buf, m_mutex>>

(***************************************************************************)
(* RingQueue::get and RingQueue::peek.  After a peek no decorator          *)
(* notifies anyone.                                                        *)
(***************************************************************************)
AfterRead(c) == IF op[c] = "get" THEN "notify" ELSE "unlock"

ReadCheck(c) ==
  /\ At(c, "check")
  /\ IF HasDatagram
     THEN /\ SetStatus("STATUS_QUEUEBASE_OK")
          /\ Goto(c, "copy")
          /\ UNCHANGED res
     ELSE /\ SetStatus("STATUS_QUEUEBASE_EMPTY")
          /\ Goto(c, AfterRead(c))
          /\ res' = [res EXCEPT ![c] = "zero"]
  /\ UNCHANGED <<op, buf, m_mutex>>

\* What bag::get and bag::peek return: 0 when the bag has no data.
BagResult == IF FrontBag = NoData THEN "zero" ELSE "ok"

PeekCopy(c) ==
  /\ At(c, "copy")
  /\ op[c] = "peek"
  /\ buf' = [buf EXCEPT ![c] = FrontBag]
  /\ res' = [res EXCEPT ![c] = BagResult]
  /\ Goto(c, "unlock")
  /\ UNCHANGED <<ring, op, m_mutex>>

GetCopy(c) ==
  /\ At(c, "copy")
  /\ op[c] = "get"
  /\ buf' = [buf EXCEPT ![c] = FrontBag]
  /\ EmptyBag
  /\ Goto(c, "advance")
  /\ UNCHANGED <<op, res, m_mutex>>

GetAdvance(c) ==
  /\ At(c, "advance")
  /\ AdvanceOut
  /\ Goto(c, "commit")
  /\ UNCHANGED <<locals, m_mutex>>

GetCommit(c) ==
  /\ At(c, "commit")
  /\ CountOut
  /\ res' = [res EXCEPT ![c] = IF buf[c] = NoData THEN "zero" ELSE "ok"]
  /\ Goto(c, "notify")
  /\ UNCHANGED <<op, buf, m_mutex>>

(***************************************************************************)
(* notify_one of the other side's condition variable: m_condition_empty    *)
(* after a put, m_condition_full after a get.  Any one of the threads      *)
(* asleep there is woken.                                                  *)
(***************************************************************************)
\* Mutant: a put notifies only when it ends the queue's being empty.
SleepersIfEmptied(t) ==
  IF t \in Producers
  THEN {s \in Consumers : At(s, "asleep") /\ m_size = 1}
  ELSE {s \in Producers : At(s, "asleep")}

Sleepers(t) ==
  {s \in (IF t \in Producers THEN Consumers ELSE Producers) : At(s, "asleep")}

Notify(t) ==
  /\ At(t, "notify")
  /\ IF Sleepers(t) = {}
     THEN Goto(t, "unlock")
     ELSE \E s \in Sleepers(t) :
            pc' = [pc EXCEPT ![t] = "unlock", ![s] = "relock"]
  /\ UNCHANGED <<ring, locals, m_mutex>>

\* The unique_lock goes out of scope and the caller has its result.
Return(t) ==
  /\ At(t, "unlock")
  /\ m_mutex' = IF Locking(t) THEN Nobody ELSE m_mutex
  /\ op'  = [op EXCEPT ![t] = "none"]
  /\ buf' = [buf EXCEPT ![t] = NoData]
  /\ res' = [res EXCEPT ![t] = "none"]
  /\ Goto(t, "idle")
  /\ UNCHANGED ring

Acquire(t) == Lock(t) \/ Relock(t)

PutStep(p) == PutCheck(p) \/ PutCopy(p) \/ PutAdvance(p) \/ PutCommit(p)

ReadStep(c) ==
  \/ ReadCheck(c) \/ PeekCopy(c)
  \/ GetCopy(c) \/ GetAdvance(c) \/ GetCommit(c)

\* The steps of t that wait for nothing.
Run(t) ==
  \/ Test(t) \/ Sleep(t) \/ Timeout(t) \/ Notify(t) \/ Return(t)
  \/ t \in Producers /\ PutStep(t)
  \/ t \in Consumers /\ ReadStep(t)

Next ==
  \/ \E p \in Producers : CallPut(p)
  \/ \E c \in Consumers : CallRead(c)
  \/ \E t \in Threads : Acquire(t) \/ Run(t) \/ SpuriousWakeup(t)

(***************************************************************************)
(* The scheduler runs every thread that can run, wait_for times out, and a *)
(* thread that finds the mutex free again and again gets it in the end.    *)
(* Nobody is obliged to start a call, and no spurious wakeup is promised.  *)
(***************************************************************************)
Fairness == \A t \in Threads : WF_vars(Run(t)) /\ SF_vars(Acquire(t))

Spec == Init /\ [][Next]_vars /\ Fairness

(***************************************************************************)
(* Type correctness: every variable stays in its range, and what a thread  *)
(* stands at fits the call it is in and the decorator it called.           *)
(***************************************************************************)
Unlocked == {"idle", "check", "copy", "advance", "commit", "notify", "unlock"}
Labels == Unlocked \cup {"lock", "test", "sleep", "asleep", "relock"}

TypeOK ==
  /\ RingTypeOK
  /\ pc  \in [Threads -> Labels]
  /\ op  \in [Threads -> {"none", "put", "get", "peek"}]
  /\ buf \in [Threads -> Datagrams \cup {NoData}]
  /\ res \in [Threads -> {"none", "ok", "zero"}]
  /\ m_mutex \in Threads \cup {Nobody}

(***************************************************************************)
(* The accesses to the ring.  A thread is InRing between its test of       *)
(* m_size and its change of it.                                            *)
(***************************************************************************)
InRing(t) == pc[t] \in {"copy", "advance", "commit"}

(***************************************************************************)
(* Two threads never touch the same bag, or the same index, at the same    *)
(* time: RingQueue's plain members are safe under every admitted pair of   *)
(* decorators, also when one side takes no mutex and only the atomic       *)
(* m_size keeps producer and consumer apart.  (m_status is written by both *)
(* sides and is not covered.)                                              *)
(***************************************************************************)
NoDataRace ==
  /\ \A p, q \in Producers : InRing(p) /\ InRing(q) => p = q
  /\ \A c, d \in Consumers : InRing(c) /\ InRing(d) => c = d
  /\ \A p \in Producers, c \in Consumers :
       At(p, "copy") /\ At(c, "copy") => m_index_in # m_index_out

(***************************************************************************)
(* A get or peek that passed the test of m_size finds a datagram in the    *)
(* bag, and a put that passed it finds the bag empty: the count never runs *)
(* ahead of the bags.  bag::get would return 0 and the caller take the     *)
(* queue for empty, bag::put would overwrite a datagram nobody has read.   *)
(***************************************************************************)
BagsAgreeWithCount ==
  /\ \A c \in Consumers : At(c, "copy") => FrontBag # NoData
  /\ \A p \in Producers : At(p, "copy") => bag[m_index_in] = NoData

(***************************************************************************)
(* The inductive invariant behind them.  A put in flight has moved         *)
(* m_index_in before it counts its datagram, a get has moved m_index_out   *)
(* before it discounts one, so between the two indices there are Span      *)
(* datagrams, not m_size; a bag is filled before m_index_in passes it and  *)
(* emptied before m_index_out does.                                        *)
(***************************************************************************)
SomePut(l) == \E p \in Producers : At(p, l)
SomeGet(l) == \E c \in Consumers : At(c, l) /\ op[c] = "get"

PutAhead == IF SomePut("commit") THEN 1 ELSE 0
GetAhead == IF SomeGet("commit") THEN 1 ELSE 0
Span == m_size + PutAhead - GetAhead

\* How many bags after m_index_out, going round, bag i is.
Offset(i) == IF i >= m_index_out THEN i - m_index_out ELSE i - m_index_out + TotalCount

\* A call is the caller's own, and what was read is a datagram.
CallInv ==
  \A t \in Threads :
    /\ ~Locking(t) => pc[t] \in Unlocked
    /\ pc[t] = "idle" <=> op[t] = "none"
    /\ op[t] = "put" => t \in Producers /\ buf[t] # NoData
    /\ op[t] \in {"get", "peek"} => t \in Consumers
    /\ pc[t] \in {"advance", "commit"} => op[t] # "peek" /\ buf[t] # NoData

\* Where a thread of a locking decorator holds the mutex.
Holding(t) ==
  Locking(t) /\ pc[t] \in {"test", "sleep", "check", "copy", "advance",
                           "commit", "notify", "unlock"}

MutexInv == \A t \in Threads : Holding(t) <=> m_mutex = t

SizeInv ==
  /\ m_size \in 0 .. TotalCount
  /\ \A p \in Producers : InRing(p) => m_size < TotalCount
  /\ \A c \in Consumers : InRing(c) => m_size > 0

IndexInv ==
  \/ m_index_in = m_index_out + Span
  \/ m_index_in = m_index_out + Span - TotalCount

Filled(i) ==
  /\ Offset(i) < Span \/ (i = m_index_in /\ SomePut("advance"))
  /\ ~(i = m_index_out /\ SomeGet("advance"))

BagInv == \A i \in Index : bag[i] # NoData <=> Filled(i)

IInv == TypeOK /\ CallInv /\ MutexInv /\ SizeInv /\ IndexInv /\ BagInv

(***************************************************************************)
(* The stack is a queue: every call takes effect at one instant between    *)
(* its invocation and its return, a put when it adds to m_size, a get when *)
(* it subtracts, a peek when it copies, a refusal when it tests.  No       *)
(* datagram is lost, duplicated or overtaken.  Abstractly the queue holds  *)
(* the m_size datagrams from m_index_out on, with the one a get has        *)
(* already moved to its buffer in front, and not the one a put has already *)
(* copied to its bag.                                                      *)
(***************************************************************************)
GetInFlight == {c \in Consumers : op[c] = "get" /\ pc[c] \in {"advance", "commit"}}

Taken == IF GetInFlight = {} THEN <<>> ELSE <<buf[CHOOSE c \in GetInFlight : TRUE]>>

FirstWaiting == IF SomeGet("advance") THEN NextIndex(m_index_out) ELSE m_index_out

Waiting == [k \in 1 .. m_size - Len(Taken) |-> bag[(FirstWaiting + k - 1) % TotalCount]]

AbstractQueue == Taken \o Waiting
AbstractBuf == [t \in Threads |-> IF t \in GetInFlight THEN NoData ELSE buf[t]]

Atomic == INSTANCE AtomicQueue WITH
  Capacity <- TotalCount,
  queue <- AbstractQueue,
  buf <- AbstractBuf

Linearizable == Atomic!Spec

(***************************************************************************)
(* The timed put returns whatever the other threads do: the waiting thread *)
(* gives up after its timeout, in an if and not in a loop, though the      *)
(* queue always looks full to it.                                          *)
(***************************************************************************)
TimedPutReturns ==
  WriteMode = "timed" => \A p \in Producers : op[p] = "put" ~> op[p] = "none"

(***************************************************************************)
(* notify_one loses no wakeup: a reader that blocks in get does not sleep  *)
(* on while datagrams are there, even when several readers sleep, or one   *)
(* is on its way back to the mutex while another takes its datagram.       *)
(***************************************************************************)
NoLostWakeup ==
  \A c \in Consumers : At(c, "asleep") /\ HasDatagram ~> ~At(c, "asleep") \/ ~HasDatagram
=============================================================================

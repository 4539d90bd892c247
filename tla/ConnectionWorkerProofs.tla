----------------------- MODULE ConnectionWorkerProofs -----------------------
(***************************************************************************)
(* Lifetime of a ConnectionWorker, for queues of any size and any number   *)
(* of datagrams: its threads end for a cause, and none of them outlives    *)
(* it, whoever deletes it.                                                 *)
(***************************************************************************)
EXTENDS ConnectionWorker, SequenceTheorems, TLAPS

USE DEF At, Goto, flags, life, input, output

(***************************************************************************)
(* How far guard, threads and owner have come together.  LifeInv alone is  *)
(* inductive: the guard spawns both threads before it joins, t_guard is    *)
(* assigned before the owner may delete, and it is released only with the  *)
(* object.                                                                 *)
(***************************************************************************)
Labels ==
  pc \in [owner : {"idle", "assign", "ready"},
          guard : {"none", "spawn_read", "spawn_write", "join_read",
                   "join_write", "callback", "done"},
          reader : {"none", "test", "read", "check", "put", "put_check",
                    "end", "done"},
          writer : {"none", "test", "peek", "check", "check_empty", "write",
                    "get", "end", "done"}]

GuardInv ==
  /\ pc.owner = "idle" <=> pc.guard = "none"
  /\ pc.reader = "none" <=> pc.guard \in {"none", "spawn_read"}
  /\ pc.writer = "none" <=> pc.guard \in {"none", "spawn_read", "spawn_write"}
  /\ pc.guard \in {"join_write", "callback", "done"} => pc.reader = "done"
  /\ pc.guard \in {"callback", "done"} => pc.writer = "done"

ReleaseInv ==
  /\ t_guard \in {"empty", "joinable", "released"}
  /\ object \in {"alive", "derived_gone", "joining", "dead"}
  /\ pc.owner = "ready" <=> t_guard # "empty"
  /\ t_guard = "released" => object = "dead"
  /\ object # "alive" =>
       IF deleter = "callback" THEN pc.guard \in {"callback", "done"}
       ELSE pc.owner = "ready" /\ deleter # "nobody"
  /\ object = "dead" /\ deleter # "callback" => pc.guard = "done"

LifeInv == Labels /\ GuardInv /\ ReleaseInv

LEMMA LifeInit == Init => LifeInv
  BY DEF Init, LifeInv, Labels, GuardInv, ReleaseInv

LEMMA LifeNext == LifeInv /\ [Next]_vars => LifeInv'
  <1> SUFFICES ASSUME LifeInv, [Next]_vars PROVE LifeInv'
    OBVIOUS
  <1> USE DEF LifeInv, Labels, GuardInv, ReleaseInv
  <1>1. CASE Owner
    BY <1>1 DEF Owner, Start, AssignGuard, Stop, OwnerPut, OwnerGet
  <1>2. CASE Guard
    BY <1>2 DEF Guard, SpawnRead, SpawnWrite, JoinRead, JoinWrite, EndCallback
  <1>3. CASE Destructor
    BY <1>3 DEF Destructor, DestroySocket, MayDelete, DestroyBase, ReleaseGuard
  <1>4. CASE Reader
    BY <1>4 DEF Reader, ReadTest, ReadError, ReadNothing, ReadData, ReadCheck, ReadPut,
                ReadPutCheck, ReadEnd
  <1>5. CASE Writer
    BY <1>5 DEF Writer, WriteTest, WritePeek, WriteCheck, WriteAccepted, WriteError,
                WriteGet, WriteEnd
  <1>6. CASE UNCHANGED vars
    BY <1>6 DEF vars
  <1> QED BY <1>1, <1>2, <1>3, <1>4, <1>5, <1>6 DEF Next

THEOREM LifeCorrect == Spec => []LifeInv
  BY LifeInit, LifeNext, PTL DEF Spec

(***************************************************************************)
(* No thread of the worker runs on a dead object, also when the owner      *)
(* deletes it while it runs and when the callback deletes it before start  *)
(* has assigned t_guard.                                                   *)
(***************************************************************************)
THEOREM ThreadsEndBeforeDeath == Spec => []NoUseAfterDestroy
  <1>1. LifeInv => NoUseAfterDestroy
    BY DEF LifeInv, Labels, GuardInv, ReleaseInv, NoUseAfterDestroy
  <1> QED BY <1>1, LifeCorrect, PTL

(***************************************************************************)
(* The threads end for a cause.  Start sets both flags before there is a   *)
(* thread, so a flag that is down tells of a thread that has ended, and    *)
(* stop_asked, which start clears, stays up once there are threads.        *)
(***************************************************************************)
FlagInv ==
  /\ pc.guard # "none" /\ ~m_read_thread_alive => pc.reader = "done"
  /\ pc.guard # "none" /\ ~m_write_thread_alive => pc.writer = "done"

CauseInv == LifeInv /\ FlagInv /\ EndsForCause

LEMMA CauseInit == Init => CauseInv
  BY LifeInit DEF Init, CauseInv, FlagInv, EndsForCause

LEMMA CauseNext == CauseInv /\ [Next]_vars => CauseInv'
  <1> SUFFICES ASSUME CauseInv, [Next]_vars PROVE CauseInv'
    OBVIOUS
  <1>0. LifeInv'
    BY LifeNext DEF CauseInv
  <1> USE DEF CauseInv, LifeInv, Labels, GuardInv, FlagInv, EndsForCause
  <1>1. CASE Owner
    BY <1>0, <1>1 DEF Owner, Start, AssignGuard, Stop, OwnerPut, OwnerGet
  <1>2. CASE Guard
    BY <1>0, <1>2 DEF Guard, SpawnRead, SpawnWrite, JoinRead, JoinWrite, EndCallback
  <1>3. CASE Destructor
    BY <1>0, <1>3 DEF Destructor, DestroySocket, DestroyBase, ReleaseGuard
  <1>4. CASE Reader
    BY <1>0, <1>4
    DEF Reader, ReadTest, ReadError, ReadNothing, ReadData, ReadCheck, ReadPut,
        ReadPutCheck, ReadEnd, ReaderMayRun
  <1>5. CASE Writer
    BY <1>0, <1>5
    DEF Writer, WriteTest, WritePeek, WriteCheck, WriteAccepted, WriteError, WriteGet,
        WriteEnd, WriterMayRun
  <1>6. CASE UNCHANGED vars
    BY <1>0, <1>6 DEF vars
  <1> QED BY <1>1, <1>2, <1>3, <1>4, <1>5, <1>6 DEF Next

THEOREM EndsOnlyForCause == Spec => []EndsForCause
  <1>1. CauseInv => EndsForCause
    BY DEF CauseInv
  <1> QED BY <1>1, CauseInit, CauseNext, PTL DEF Spec

(***************************************************************************)
(* Sequences of consecutive numbers.                                       *)
(***************************************************************************)
Consecutive(s, b) == \A k \in 1 .. Len(s) : s[k] = b + k

LEMMA AppendConsecutive ==
  ASSUME NEW s \in Seq(Nat), NEW b \in Nat, Consecutive(s, b)
  PROVE  LET t == Append(s, b + Len(s) + 1)
         IN  t \in Seq(Nat) /\ t # <<>> /\ Len(t) = Len(s) + 1 /\ Consecutive(t, b)
  <1> DEFINE n == Len(s)
             t == Append(s, b + n + 1)
  <1>1. n \in Nat
    BY LenProperties
  <1>2. b + n + 1 \in Nat
    BY <1>1
  <1> HIDE DEF n
  <1>3. t \in Seq(Nat) /\ t # <<>> /\ Len(t) = n + 1 /\ t[n + 1] = b + n + 1
    BY <1>2, AppendProperties DEF n
  <1>4. \A k \in 1 .. n : t[k] = b + k
    BY <1>2, AppendProperties DEF n, Consecutive
  <1> HIDE DEF t
  <1>5. \A k \in 1 .. n + 1 : k \in 1 .. n \/ k = n + 1
    BY <1>1
  <1>6. ASSUME NEW k \in 1 .. n + 1
        PROVE  t[k] = b + k
    <2>1. CASE k = n + 1
      BY <1>1, <1>3, <2>1
    <2>2. CASE k \in 1 .. n
      BY <1>4, <2>2
    <2> QED BY <1>5, <2>1, <2>2
  <1> QED BY <1>3, <1>6 DEF Consecutive, t, n

LEMMA TailConsecutive ==
  ASSUME NEW s \in Seq(Nat), NEW b \in Nat, Consecutive(s, b), s # <<>>
  PROVE  /\ Len(s) \in Nat \ {0} /\ Head(s) = b + 1
         /\ Tail(s) \in Seq(Nat) /\ Len(Tail(s)) = Len(s) - 1
         /\ Consecutive(Tail(s), b + 1)
  <1>1. Len(s) \in Nat \ {0}
    BY EmptySeq
  <1>2. Tail(s) \in Seq(Nat) /\ Len(Tail(s)) = Len(s) - 1
    BY HeadTailProperties
  <1>3. \A k \in 1 .. Len(s) - 1 : Tail(s)[k] = s[k + 1]
    BY <1>2, HeadTailProperties
  <1>4. \A k \in 1 .. Len(s) - 1 : k + 1 \in 1 .. Len(s) /\ b + (k + 1) = b + 1 + k
    BY <1>1
  <1>5. Consecutive(Tail(s), b + 1)
    BY <1>2, <1>3, <1>4 DEF Consecutive
  <1>6. Head(s) = s[1]
    OBVIOUS
  <1>7. 1 \in 1 .. Len(s)
    BY <1>1
  <1> QED BY <1>1, <1>2, <1>5, <1>6, <1>7 DEF Consecutive

LEMMA ConcatConsecutive ==
  ASSUME NEW s \in Seq(Nat), NEW t \in Seq(Nat),
         Consecutive(s, 0), Consecutive(t, Len(s))
  PROVE  s \o t = Upto(Len(s) + Len(t))
  <1> DEFINE m == Len(s)
             n == Len(t)
             c == s \o t
  <1>1. m \in Nat /\ n \in Nat
    BY LenProperties
  <1>2. /\ c \in Seq(Nat) /\ Len(c) = m + n
        /\ \A k \in 1 .. m + n : c[k] = IF k <= m THEN s[k] ELSE t[k - m]
    BY ConcatProperties
  <1>3. /\ \A k \in 1 .. m : s[k] = k
        /\ \A k \in 1 .. n : t[k] = m + k
    BY DEF Consecutive
  <1>4. c = [k \in 1 .. m + n |-> c[k]]
    BY <1>2, LenProperties
  <1> HIDE DEF m, n, c
  <1>5. ASSUME NEW k \in 1 .. m + n
        PROVE  c[k] = k
    <2>1. CASE k <= m
      <3>1. k \in 1 .. m
        BY <1>1, <2>1
      <3> QED BY <1>2, <1>3, <2>1, <3>1
    <2>2. CASE ~(k <= m)
      <3>1. k - m \in 1 .. n /\ m + (k - m) = k
        BY <1>1, <2>2
      <3> QED BY <1>2, <1>3, <2>2, <3>1
    <2> QED BY <2>1, <2>2
  <1>6. c = [k \in 1 .. m + n |-> k]
    BY <1>4, <1>5
  <1> QED BY <1>6 DEF Upto, m, n, c

(***************************************************************************)
(* What the owner put is sent once and in order.  The inductive form: what *)
(* is sent counts 1, 2, ... and the queue goes on where it ends, or        *)
(* repeats its last number as long as the write thread has not removed the *)
(* datagram it sent.                                                       *)
(***************************************************************************)
Unremoved == IF pc.writer = "get" THEN 1 ELSE 0

OutputInv ==
  /\ sent \in Seq(Nat) /\ wq \in Seq(Nat) /\ put_count \in Nat
  /\ pc.writer \in {"check", "write", "get"} => wq # <<>>
  /\ Unremoved <= Len(sent)
  /\ Len(sent) + Len(wq) = put_count + Unremoved
  /\ Consecutive(sent, 0)
  /\ Consecutive(wq, Len(sent) - Unremoved)

LEMMA OutputInit == Init => OutputInv
  BY EmptySeq DEF Init, OutputInv, Unremoved, Consecutive

LEMMA OutputNext == LifeInv /\ OutputInv /\ [Next]_vars => OutputInv'
  <1> SUFFICES ASSUME LifeInv, OutputInv, [Next]_vars PROVE OutputInv'
    OBVIOUS
  <1> USE DEF OutputInv
  <1>0. /\ Len(sent) \in Nat /\ Len(wq) \in Nat /\ Unremoved \in 0 .. 1
        /\ put_count \in Nat /\ Len(sent) + Len(wq) = put_count + Unremoved
        /\ Unremoved <= Len(sent)
    BY LenProperties DEF Unremoved
  <1>9. Labels /\ GuardInv
    BY DEF LifeInv
  <1>1. CASE OwnerPut
    <2>1. /\ put_count' = put_count + 1 /\ wq' = Append(wq, put_count + 1)
          /\ UNCHANGED <<sent, pc, Unremoved>>
      BY <1>1 DEF OwnerPut, Unremoved
    <2> DEFINE b == Len(sent) - Unremoved
    <2>2. b \in Nat
      BY <1>0
    <2>3. b + Len(wq) = put_count
      BY <1>0
    <2> HIDE DEF b
    <2>4. /\ wq' \in Seq(Nat) /\ wq' # <<>> /\ Len(wq') = Len(wq) + 1
          /\ Consecutive(wq', b)
      <3>1. put_count + 1 = b + Len(wq) + 1
        BY <1>0, <2>2, <2>3
      <3>2. Consecutive(wq, b)
        BY DEF b
      <3> QED BY <2>1, <2>2, <3>1, <3>2, AppendConsecutive
    <2>5. Len(sent) + Len(wq') = (put_count + 1) + Unremoved
      <3> HIDE DEF OutputInv
      <3> QED BY <1>0, <2>4
    <2>6. Consecutive(wq', Len(sent') - Unremoved') /\ Consecutive(sent', 0)
      BY <2>1, <2>4 DEF b
    <2> QED BY <2>1, <2>2, <2>4, <2>5, <2>6 DEF b, Consecutive
  <1>2. CASE WriteAccepted
    <2>1. /\ sent' = Append(sent, Head(wq)) /\ UNCHANGED <<wq, put_count>>
          /\ pc.writer = "write" /\ pc'.writer = "get"
      BY <1>9, <1>2 DEF WriteAccepted, Labels
    <2>2. Unremoved = 0 /\ Unremoved' = 1
      BY <2>1 DEF Unremoved
    <2>3. Consecutive(wq, Len(sent))
      BY <1>0, <2>2
    <2>4. Head(wq) = Len(sent) + 1
      BY <1>0, <2>1, <2>3, TailConsecutive
    <2>5. sent' \in Seq(Nat) /\ Len(sent') = Len(sent) + 1 /\ Consecutive(sent', 0)
      <3>1. Head(wq) = 0 + Len(sent) + 1
        BY <1>0, <2>4
      <3> QED BY <2>1, <3>1, AppendConsecutive
    <2>6. Len(sent') + Len(wq) = put_count + 1 /\ 1 <= Len(sent')
      <3> HIDE DEF OutputInv
      <3> QED BY <1>0, <2>2, <2>5
    <2>7. Len(sent') - Unremoved' = Len(sent)
      BY <1>0, <2>2, <2>5
    <2>8. Consecutive(wq', Len(sent') - Unremoved')
      BY <2>1, <2>3, <2>7
    <2> QED BY <2>1, <2>2, <2>5, <2>6, <2>8 DEF Consecutive
  <1>3. CASE WriteGet
    <2>1. /\ wq' = Tail(wq) /\ UNCHANGED <<sent, put_count>>
          /\ pc.writer = "get" /\ pc'.writer = "test"
      BY <1>9, <1>3 DEF WriteGet, Labels
    <2>2. Unremoved = 1 /\ Unremoved' = 0
      BY <2>1 DEF Unremoved
    <2>3. Len(sent) - 1 \in Nat /\ Len(sent) - 1 + 1 = Len(sent)
      BY <1>0, <2>2
    <2>4. Tail(wq) \in Seq(Nat) /\ Len(Tail(wq)) = Len(wq) - 1 /\ Consecutive(Tail(wq), Len(sent))
      BY <2>1, <2>2, <2>3, TailConsecutive
    <2>5. Len(sent') + Len(wq') = put_count' + Unremoved' /\ Unremoved' <= Len(sent')
      BY <1>0, <2>1, <2>2, <2>4
    <2>6. Consecutive(wq', Len(sent') - Unremoved')
      BY <1>0, <2>1, <2>2, <2>4
    <2> QED BY <2>1, <2>4, <2>5, <2>6 DEF Consecutive
  <1>4. CASE UNCHANGED output /\ pc'.writer = pc.writer
    BY <1>4 DEF Unremoved, Consecutive
  <1>5. ASSUME UNCHANGED output, WriteTest \/ WritePeek \/ WriteCheck \/ WriteError \/ WriteEnd
        PROVE  OutputInv'
    <2>1. /\ pc.writer # "get" /\ pc'.writer # "get"
          /\ pc'.writer \in {"check", "write"} => wq # <<>>
      BY <1>9, <1>5 DEF WriteTest, WritePeek, WriteCheck, WriteError, WriteEnd, Labels
    <2> QED BY <1>5, <2>1 DEF Unremoved, Consecutive
  <1>6. CASE SpawnWrite
    <2>1. pc.writer = "none" /\ pc'.writer = "test" /\ UNCHANGED output
      BY <1>9, <1>6 DEF SpawnWrite, Labels, GuardInv
    <2> QED BY <2>1 DEF Unremoved, Consecutive
  <1>7. ASSUME ~OwnerPut, ~WriteAccepted, ~WriteGet
        PROVE  UNCHANGED output
    BY <1>7
    DEF Next, vars, Owner, Start, AssignGuard, Stop, OwnerGet, Guard, SpawnRead, SpawnWrite,
        JoinRead, JoinWrite, EndCallback, Destructor, DestroySocket, DestroyBase,
        ReleaseGuard, Reader, ReadTest, ReadError, ReadNothing, ReadData, ReadCheck,
        ReadPut, ReadPutCheck, ReadEnd, Writer, WriteTest, WritePeek, WriteCheck,
        WriteError, WriteEnd
  <1>8. ASSUME ~Writer, ~SpawnWrite
        PROVE  pc'.writer = pc.writer
    BY <1>9, <1>8
    DEF Next, vars, Owner, Start, AssignGuard, Stop, OwnerPut, OwnerGet, Guard, SpawnRead,
        JoinRead, JoinWrite, EndCallback, Destructor, DestroySocket, DestroyBase,
        ReleaseGuard, Reader, ReadTest, ReadError, ReadNothing, ReadData, ReadCheck,
        ReadPut, ReadPutCheck, ReadEnd, Labels
  <1> QED BY <1>1, <1>2, <1>3, <1>4, <1>5, <1>6, <1>7, <1>8 DEF Writer

THEOREM SentOnce == Spec => []WriteExactlyOnce
  <1>1. OutputInv => WriteExactlyOnce
    <2> SUFFICES ASSUME OutputInv PROVE WriteExactlyOnce
      OBVIOUS
    <2> USE DEF OutputInv, Unremoved, WriteExactlyOnce
    <2>0. Len(sent) \in Nat /\ Len(wq) \in Nat
      BY LenProperties
    <2>1. CASE pc.writer = "get"
      <3>1. Len(sent) - 1 \in Nat /\ Len(sent) - 1 + 1 = Len(sent)
        BY <2>0, <2>1
      <3>2. /\ Tail(wq) \in Seq(Nat) /\ Len(Tail(wq)) = Len(wq) - 1
            /\ Consecutive(Tail(wq), Len(sent))
        BY <2>1, <3>1, TailConsecutive
      <3>3. Len(sent) + Len(Tail(wq)) = put_count
        BY <2>0, <2>1, <3>2
      <3> QED BY <2>1, <3>2, <3>3, ConcatConsecutive
    <2>2. CASE pc.writer # "get"
      <3>1. Consecutive(wq, Len(sent)) /\ Len(sent) + Len(wq) = put_count
        BY <2>0, <2>2
      <3> QED BY <2>2, <3>1, ConcatConsecutive
    <2> QED BY <2>1, <2>2
  <1> QED BY <1>1, OutputInit, OutputNext, LifeInit, LifeNext, PTL DEF Spec

(***************************************************************************)
(* What was read reaches the owner.  The inductive form: with a parser     *)
(* what the owner took and what waits in the queue count 1, 2, ..., and    *)
(* the batch goes on where they end up to the last number read.  Only a    *)
(* thread that has a reason to end drops a batch, and it reads no other.   *)
(***************************************************************************)
Arrived == Len(received) + Len(rq)
Whole == Arrived + Len(Unput) = read_count

BatchInv ==
  /\ received \in Seq(Nat) /\ rq \in Seq(Nat) /\ batch \in Seq(Nat)
  /\ read_count \in Nat /\ put_ok \in BOOLEAN
  /\ pc.reader \in {"put", "put_check"} => batch # <<>>
  /\ pc.reader \in {"none", "test", "read", "end", "done"} => batch = <<>>
  /\ Len(batch) <= read_count
  /\ Consecutive(batch, read_count - Len(batch))

StreamInv == has_parser =>
  /\ Consecutive(received, 0) /\ Consecutive(rq, Len(received))
  /\ Whole \/ (/\ pc.reader \in {"test", "end", "done"} /\ ~ReaderMayRun
               /\ Arrived <= read_count)

InputInv == BatchInv /\ StreamInv

LEMMA InputInit == Init => InputInv
  <1> SUFFICES ASSUME Init PROVE InputInv
    OBVIOUS
  <1>1. /\ batch = <<>> /\ put_ok = FALSE /\ rq = <<>> /\ received = <<>> /\ read_count = 0
        /\ pc.reader = "none"
    BY DEF Init
  <1>2. Len(<<>>) = 0 /\ <<>> \in Seq(Nat)
    BY EmptySeq
  <1>3. Unput = <<>> /\ Whole
    BY <1>1, <1>2 DEF Unput, Whole, Arrived
  <1>4. \A b : Consecutive(<<>>, b)
    BY <1>2 DEF Consecutive
  <1>5. BatchInv
    <2>1. read_count \in Nat /\ Len(batch) <= read_count
      BY <1>1, <1>2
    <2>2. put_ok \in BOOLEAN
      BY <1>1, Zenon
    <2> QED BY <1>1, <1>2, <1>4, <2>1, <2>2 DEF BatchInv
  <1>6. StreamInv
    BY <1>1, <1>3, <1>4 DEF StreamInv
  <1> QED BY <1>5, <1>6 DEF InputInv

\* What a batch is, and what is left of it.
LEMMA BatchRest ==
  ASSUME BatchInv, batch # <<>>
  PROVE  /\ Len(batch) \in Nat \ {0} /\ Head(batch) = read_count - Len(batch) + 1
         /\ Tail(batch) \in Seq(Nat) /\ Len(Tail(batch)) = Len(batch) - 1
         /\ Consecutive(Tail(batch), read_count - Len(Tail(batch)))
  <1> DEFINE b == read_count - Len(batch)
  <1>1. batch \in Seq(Nat) /\ Consecutive(batch, b) /\ read_count \in Nat /\ Len(batch) <= read_count
    BY DEF BatchInv
  <1>2. Len(batch) \in Nat /\ b \in Nat
    BY <1>1, LenProperties
  <1> HIDE DEF b
  <1>3. /\ Len(batch) \in Nat \ {0} /\ Head(batch) = b + 1
        /\ Tail(batch) \in Seq(Nat) /\ Len(Tail(batch)) = Len(batch) - 1
        /\ Consecutive(Tail(batch), b + 1)
    BY <1>1, <1>2, TailConsecutive
  <1>4. b + 1 = read_count - Len(Tail(batch)) /\ b + 1 = read_count - Len(batch) + 1
    BY <1>1, <1>2, <1>3 DEF b
  <1> QED BY <1>3, <1>4

LEMMA InputOwnerGet == LifeInv /\ InputInv /\ OwnerGet => InputInv'
  <1> SUFFICES ASSUME LifeInv, InputInv, OwnerGet PROVE InputInv'
    OBVIOUS
  <1>1. /\ rq # <<>> /\ received' = Append(received, Head(rq)) /\ rq' = Tail(rq)
        /\ UNCHANGED <<flags, has_parser, pc, batch, put_ok, read_count>>
    BY DEF OwnerGet
  <1>2. received \in Seq(Nat) /\ rq \in Seq(Nat)
    BY DEF InputInv, BatchInv
  <1>3. Head(rq) \in Nat /\ Tail(rq) \in Seq(Nat) /\ Len(Tail(rq)) = Len(rq) - 1 /\ Len(rq) \in Nat \ {0}
    BY <1>1, <1>2, HeadTailProperties, EmptySeq
  <1>4. received' \in Seq(Nat) /\ Len(received') = Len(received) + 1 /\ Len(received) \in Nat
    BY <1>1, <1>2, <1>3, AppendProperties, LenProperties
  <1>5. BatchInv'
    BY <1>1, <1>3, <1>4 DEF InputInv, BatchInv, Consecutive
  <1>6. Arrived' = Arrived /\ (Whole' <=> Whole) /\ (ReaderMayRun' <=> ReaderMayRun)
    <2>1. Arrived' = Arrived
      BY <1>1, <1>3, <1>4 DEF Arrived
    <2>2. Unput' = Unput /\ (ReaderMayRun' <=> ReaderMayRun)
      BY <1>1 DEF Unput, ReaderMayRun
    <2> QED BY <1>1, <2>1, <2>2 DEF Whole
  <1>7. ASSUME has_parser PROVE Consecutive(received', 0) /\ Consecutive(rq', Len(received'))
    <2>1. Consecutive(received, 0) /\ Consecutive(rq, Len(received))
      BY <1>7 DEF InputInv, StreamInv
    <2>2. Head(rq) = 0 + Len(received) + 1 /\ Consecutive(Tail(rq), Len(received) + 1)
      BY <1>1, <1>2, <1>4, <2>1, TailConsecutive
    <2>3. Consecutive(received', 0)
      BY <1>1, <1>2, <2>1, <2>2, AppendConsecutive
    <2> QED BY <1>1, <1>4, <2>2, <2>3
  <1>8. StreamInv'
    <2>1. Consecutive(received, 0)' <=> Consecutive(received', 0)
      BY DEF Consecutive
    <2>2. Consecutive(rq, Len(received))' <=> Consecutive(rq', Len(received'))
      BY DEF Consecutive
    <2> QED BY <1>1, <1>6, <1>7, <2>1, <2>2 DEF InputInv, StreamInv
  <1> QED BY <1>5, <1>8 DEF InputInv

LEMMA InputReadData == LifeInv /\ InputInv /\ ReadData => InputInv'
  <1> SUFFICES ASSUME LifeInv, InputInv, ReadData PROVE InputInv'
    OBVIOUS
  <1>1. PICK n \in Chunks : batch' = [k \in 1 .. n |-> read_count + k] /\ read_count' = read_count + n
    BY DEF ReadData
  <1>2. /\ pc.reader = "read" /\ pc'.reader = "check" /\ batch = <<>> /\ read_count \in Nat
        /\ UNCHANGED <<flags, has_parser, put_ok, rq, received>>
    BY DEF ReadData, LifeInv, Labels, InputInv, BatchInv
  <1>3. n \in Nat
    BY DEF Chunks
  <1>4. batch' \in Seq(Nat) /\ Len(batch') = n /\ \A k \in 1 .. n : batch'[k] = read_count + k
    BY <1>1, <1>2, <1>3
  <1>5. read_count' \in Nat /\ read_count' - Len(batch') = read_count /\ Len(batch') <= read_count'
    BY <1>1, <1>2, <1>3, <1>4
  <1>6. BatchInv'
    BY <1>2, <1>4, <1>5 DEF InputInv, BatchInv, Consecutive
  <1>7. ASSUME Whole PROVE Whole'
    <2>1. Unput = <<>> /\ Unput' = batch'
      BY <1>2 DEF Unput
    <2>2. Arrived = read_count
      BY <1>2, <1>7, <2>1, LenProperties DEF Whole, Arrived, InputInv, BatchInv
    <2> QED BY <1>1, <1>2, <1>4, <2>1, <2>2 DEF Whole, Arrived
  <1> QED BY <1>2, <1>6, <1>7 DEF InputInv, StreamInv, Consecutive

LEMMA InputReadPut == LifeInv /\ InputInv /\ ReadPut => InputInv'
  <1> SUFFICES ASSUME LifeInv, InputInv, ReadPut PROVE InputInv'
    OBVIOUS
  <1>1. /\ pc.reader = "put" /\ put_ok' = (Len(rq) < QueueSize)
        /\ rq' = IF put_ok' THEN Append(rq, Head(batch)) ELSE rq
        /\ has_parser => batch' = batch /\ pc'.reader = "put_check"
        /\ ~has_parser => batch' = <<>> /\ pc'.reader = "test"
        /\ UNCHANGED <<flags, has_parser, received, read_count>>
    BY DEF ReadPut, LifeInv, Labels
  <1>2. /\ batch \in Seq(Nat) /\ batch # <<>> /\ rq \in Seq(Nat) /\ received \in Seq(Nat)
        /\ Len(rq) \in Nat /\ Len(received) \in Nat /\ read_count \in Nat
    BY <1>1, LenProperties DEF InputInv, BatchInv
  <1>3. /\ Len(batch) \in Nat \ {0} /\ Head(batch) = read_count - Len(batch) + 1
        /\ Tail(batch) \in Seq(Nat) /\ Len(Tail(batch)) = Len(batch) - 1
    BY <1>2, BatchRest DEF InputInv
  <1>4. Head(batch) \in Nat
    BY <1>2, HeadTailProperties
  <1>5. rq' \in Seq(Nat) /\ Len(rq') = IF put_ok' THEN Len(rq) + 1 ELSE Len(rq)
    BY <1>1, <1>2, <1>4, AppendProperties
  <1>6. BatchInv'
    <2>1. put_ok' \in BOOLEAN
      BY <1>1
    <2>2. CASE has_parser
      BY <1>1, <1>2, <1>5, <2>1, <2>2 DEF InputInv, BatchInv, Consecutive
    <2>3. CASE ~has_parser
      <3>1. batch' = <<>> /\ Len(batch') = 0
        BY <1>1, <2>3
      <3> QED BY <1>1, <1>2, <1>5, <2>1, <2>3, <3>1 DEF InputInv, BatchInv, Consecutive
    <2> QED BY <2>2, <2>3
  <1>7. ASSUME has_parser PROVE Whole' /\ Consecutive(rq', Len(received))
    <2>1. /\ Len(received) + Len(rq) + Len(batch) = read_count
          /\ Consecutive(rq, Len(received))
      BY <1>1, <1>7 DEF InputInv, StreamInv, Whole, Arrived, Unput
    <2>2. Unput' = IF put_ok' THEN Tail(batch) ELSE batch
      BY <1>1, <1>7 DEF Unput
    <2>3. Head(batch) = Len(received) + Len(rq) + 1
      BY <1>2, <1>3, <2>1
    <2>4. Consecutive(rq', Len(received))
      <3>1. CASE put_ok'
        BY <1>1, <1>2, <2>1, <2>3, <3>1, AppendConsecutive
      <3>2. CASE ~put_ok'
        BY <1>1, <2>1, <3>2
      <3> QED BY <3>1, <3>2
    <2>5. Len(received) + Len(rq') + Len(Unput') = read_count
      <3>1. CASE put_ok'
        <4>1. Len(Unput') = Len(batch) - 1 /\ Len(rq') = Len(rq) + 1
          BY <1>3, <1>5, <2>2, <3>1
        <4> DEFINE l == Len(batch)
                   m == Len(rq)
                   n == Len(received)
        <4>2. l \in Nat \ {0} /\ m \in Nat /\ n \in Nat /\ n + m + l = read_count
          BY <1>2, <1>3, <2>1
        <4> HIDE DEF l, m, n
        <4>3. n + (m + 1) + (l - 1) = read_count
          BY <4>2
        <4> QED BY <4>1, <4>3 DEF l, m, n
      <3>2. CASE ~put_ok'
        <4>1. Unput' = batch /\ Len(rq') = Len(rq)
          BY <1>5, <2>2, <3>2
        <4> QED BY <2>1, <4>1
      <3> QED BY <3>1, <3>2
    <2> QED BY <1>1, <2>4, <2>5 DEF Whole, Arrived
  <1>8. StreamInv'
    BY <1>1, <1>7 DEF InputInv, StreamInv, Consecutive
  <1> QED BY <1>6, <1>8 DEF InputInv

LEMMA InputReadChecks == LifeInv /\ InputInv /\ (ReadCheck \/ ReadPutCheck) => InputInv'
  <1> SUFFICES ASSUME LifeInv, InputInv, ReadCheck \/ ReadPutCheck PROVE InputInv'
    OBVIOUS
  <1>1. UNCHANGED <<flags, has_parser, received, rq, put_ok, read_count>>
    BY DEF ReadCheck, ReadPutCheck
  <1>2. /\ batch \in Seq(Nat) /\ rq \in Seq(Nat) /\ received \in Seq(Nat) /\ Len(batch) \in Nat
        /\ Len(rq) \in Nat /\ Len(received) \in Nat /\ read_count \in Nat /\ Len(<<>>) = 0
    BY LenProperties DEF InputInv, BatchInv
  <1>3. CASE /\ batch' = <<>> /\ pc'.reader \in {"test", "end"} /\ ~ReaderMayRun
             /\ pc.reader \in {"check", "put_check"}
    <2>1. BatchInv'
      BY <1>1, <1>2, <1>3 DEF InputInv, BatchInv, Consecutive
    <2>2. Len(Unput) \in Nat
      <3>1. pc.reader = "put_check" => batch # <<>>
        BY DEF InputInv, BatchInv
      <3> QED BY <1>2, <3>1, BatchRest DEF Unput, InputInv
    <2>3. has_parser => Arrived <= read_count
      BY <1>2, <1>3, <2>2 DEF InputInv, StreamInv, Whole, Arrived
    <2> QED BY <1>1, <1>3, <2>1, <2>3 DEF InputInv, StreamInv, Consecutive, Arrived, ReaderMayRun
  <1>4. CASE /\ batch' = Unput /\ pc.reader \in {"check", "put_check"}
             /\ pc'.reader = IF batch' = <<>> THEN "test" ELSE "put"
    <2>1. /\ batch' \in Seq(Nat) /\ Len(batch') <= read_count'
          /\ Consecutive(batch', read_count - Len(batch'))
      <3>1. CASE pc.reader = "put_check" /\ put_ok
        <4>1. batch' = Tail(batch) /\ batch # <<>>
          BY <1>4, <3>1 DEF Unput, InputInv, BatchInv
        <4> QED BY <1>1, <1>2, <4>1, BatchRest DEF InputInv, BatchInv
      <3>2. CASE ~(pc.reader = "put_check" /\ put_ok)
        BY <1>1, <1>2, <1>4, <3>2 DEF Unput, InputInv, BatchInv
      <3> QED BY <3>1, <3>2
    <2>2. BatchInv'
      BY <1>1, <1>4, <2>1 DEF InputInv, BatchInv, Consecutive
    <2>3. Unput' = Unput
      BY <1>4 DEF Unput
    <2>4. has_parser => Whole'
      BY <1>1, <1>4, <2>3 DEF InputInv, StreamInv, Whole, Arrived
    <2> QED BY <1>1, <2>2, <2>4 DEF InputInv, StreamInv, Consecutive
  <1>5. CASE ReadCheck
    BY <1>3, <1>4, <1>5 DEF ReadCheck, Unput, LifeInv, Labels
  <1>6. CASE ReadPutCheck
    BY <1>3, <1>4, <1>6 DEF ReadPutCheck, Unput, LifeInv, Labels
  <1> QED BY <1>5, <1>6

LEMMA InputNext == LifeInv /\ FlagInv /\ InputInv /\ [Next]_vars => InputInv'
  <1> SUFFICES ASSUME LifeInv, FlagInv, InputInv, [Next]_vars PROVE InputInv'
    OBVIOUS
  <1>0. Labels /\ GuardInv
    BY DEF LifeInv
  <1>1. CASE OwnerGet \/ ReadData \/ ReadPut \/ ReadCheck \/ ReadPutCheck
    BY <1>1, InputOwnerGet, InputReadData, InputReadPut, InputReadChecks
  <1>2. ASSUME UNCHANGED <<has_parser, input>>, pc'.reader = pc.reader,
               ReaderMayRun' => ReaderMayRun \/ pc.reader = "none"
        PROVE  InputInv'
    <2>1. BatchInv'
      BY <1>2 DEF InputInv, BatchInv, Consecutive
    <2>2. (Whole' <=> Whole) /\ Arrived' = Arrived
      BY <1>2 DEF Whole, Arrived, Unput
    <2> QED BY <1>2, <2>1, <2>2 DEF InputInv, StreamInv, Consecutive
  <1>3. ASSUME UNCHANGED <<m_write_thread_alive, m_stop_asked, has_parser, input>>,
               pc.reader \in {"none", "test", "read", "end"},
               pc'.reader \in {"test", "read", "check", "end", "done"},
               pc.reader = "test" => pc'.reader = IF ReaderMayRun THEN "read" ELSE "end",
               pc.reader = "end" => pc'.reader = "done"
        PROVE  InputInv'
    <2>1. Unput = batch /\ Unput' = batch
      BY <1>3 DEF Unput
    <2>2. (Whole' <=> Whole) /\ Arrived' = Arrived /\ (ReaderMayRun' <=> ReaderMayRun)
      BY <1>3, <2>1 DEF Whole, Arrived, ReaderMayRun
    <2>3. BatchInv'
      BY <1>3 DEF InputInv, BatchInv, Consecutive
    <2> QED BY <1>3, <2>2, <2>3 DEF InputInv, StreamInv, Consecutive
  <1>4. CASE Owner /\ ~OwnerGet
    <2>1. UNCHANGED <<has_parser, input>> /\ pc'.reader = pc.reader
      BY <1>0, <1>4 DEF Owner, Start, AssignGuard, Stop, OwnerPut, Labels
    <2>2. ReaderMayRun' => ReaderMayRun \/ pc.reader = "none"
      BY <1>0, <1>4 DEF Owner, Start, AssignGuard, Stop, OwnerPut, ReaderMayRun, Labels, GuardInv
    <2> QED BY <1>2, <2>1, <2>2
  <1>5. CASE Guard
    <2>1. CASE SpawnRead
      BY <1>0, <1>3, <2>1 DEF SpawnRead, Labels, GuardInv
    <2>2. CASE ~SpawnRead
      BY <1>0, <1>2, <1>5, <2>2
      DEF Guard, SpawnWrite, JoinRead, JoinWrite, EndCallback, ReaderMayRun, Labels
    <2> QED BY <2>1, <2>2
  <1>6. CASE Destructor
    BY <1>2, <1>6 DEF Destructor, DestroySocket, DestroyBase, ReleaseGuard, ReaderMayRun
  <1>7. CASE Writer
    BY <1>0, <1>2, <1>7
    DEF Writer, WriteTest, WritePeek, WriteCheck, WriteAccepted, WriteError, WriteGet,
        WriteEnd, ReaderMayRun, Labels
  <1>8. CASE ReadTest \/ ReadError \/ ReadNothing \/ ReadEnd
    BY <1>0, <1>3, <1>8 DEF ReadTest, ReadError, ReadNothing, ReadEnd, Labels
  <1>9. CASE UNCHANGED vars
    BY <1>2, <1>9 DEF vars, ReaderMayRun
  <1> QED BY <1>1, <1>4, <1>5, <1>6, <1>7, <1>8, <1>9 DEF Next, Reader, Owner

(***************************************************************************)
(* With a parser nothing that was read is lost, doubled or reordered on    *)
(* its way through the full queue until the worker has a reason to end,    *)
(* and what arrives then is a prefix of it.                                *)
(***************************************************************************)
THEOREM ReadArrives == Spec => []ParserDeliversAll
  <1>1. LifeInv /\ InputInv => ParserDeliversAll
    <2> SUFFICES ASSUME InputInv, has_parser
                 PROVE  /\ IsPrefixOf(received \o rq, Upto(read_count))
                        /\ ReaderMayRun => received \o rq \o Unput = Upto(read_count)
      BY DEF ParserDeliversAll
    <2> DEFINE c == received \o rq
    <2>1. /\ received \in Seq(Nat) /\ rq \in Seq(Nat) /\ read_count \in Nat
          /\ Consecutive(received, 0) /\ Consecutive(rq, Len(received))
          /\ Len(received) \in Nat /\ Len(rq) \in Nat /\ Arrived \in Nat
      BY LenProperties DEF InputInv, BatchInv, StreamInv, Arrived
    <2>2. c = Upto(Arrived)
      BY <2>1, ConcatConsecutive DEF Arrived
    <2>3. /\ Unput \in Seq(Nat) /\ Len(Unput) \in Nat
          /\ Consecutive(Unput, read_count - Len(Unput))
      <3>1. CASE At("reader", "put_check") /\ put_ok
        BY <3>1, BatchRest, LenProperties DEF Unput, InputInv, BatchInv
      <3>2. CASE ~(At("reader", "put_check") /\ put_ok)
        BY <3>2, LenProperties DEF Unput, InputInv, BatchInv
      <3> QED BY <3>1, <3>2
    <2>4. Whole \/ (Arrived <= read_count /\ ~ReaderMayRun)
      BY DEF InputInv, StreamInv
    <2>5. Arrived <= read_count
      BY <2>1, <2>3, <2>4 DEF Whole
    <2>6. \A n \in Nat : /\ Upto(n) \in Seq(Nat) /\ Len(Upto(n)) = n
                         /\ \A k \in 1 .. n : Upto(n)[k] = k
      BY DEF Upto
    <2> HIDE DEF c
    <2>7. IsPrefixOf(c, Upto(read_count))
      <3>1. DOMAIN c = 1 .. Arrived /\ Len(c) = Arrived
        BY <2>1, <2>2, <2>6
      <3>2. \A k \in 1 .. Arrived : k \in 1 .. read_count
        BY <2>1, <2>5
      <3> QED BY <2>1, <2>2, <2>5, <2>6, <3>1, <3>2 DEF IsPrefixOf
    <2>8. ASSUME ReaderMayRun PROVE c \o Unput = Upto(read_count)
      <3>1. Arrived + Len(Unput) = read_count
        BY <2>4, <2>8 DEF Whole
      <3>2. c \in Seq(Nat) /\ Len(c) = Arrived /\ Consecutive(c, 0)
        <4>1. c \in Seq(Nat) /\ Len(c) = Arrived /\ \A k \in 1 .. Arrived : c[k] = k
          BY <2>1, <2>2, <2>6
        <4>2. \A k \in 1 .. Arrived : 0 + k = k
          BY <2>1
        <4> QED BY <4>1, <4>2 DEF Consecutive
      <3>3. Consecutive(Unput, Len(c))
        <4>1. read_count - Len(Unput) = Len(c)
          BY <2>1, <2>3, <3>1, <3>2
        <4> QED BY <2>3, <4>1
      <3> QED BY <2>3, <3>1, <3>2, <3>3, ConcatConsecutive
    <2> QED BY <2>7, <2>8 DEF c
  <1>2. CauseInv => LifeInv /\ FlagInv
    BY DEF CauseInv
  <1> QED BY <1>1, <1>2, CauseInit, CauseNext, InputInit, InputNext, PTL DEF Spec

(***************************************************************************)
(* Types.  The labels and the sequences are part of the invariants above;  *)
(* what is left are the flags and the bounds of the queues.                *)
(***************************************************************************)
FlagTypes ==
  /\ m_read_thread_alive \in BOOLEAN /\ m_write_thread_alive \in BOOLEAN
  /\ m_stop_asked \in BOOLEAN /\ m_stopped \in BOOLEAN
  /\ has_parser \in BOOLEAN /\ broken \in BOOLEAN
  /\ deleter \in Deleters

Bounded ==
  /\ Len(rq) <= QueueSize /\ Len(wq) <= QueueSize
  /\ read_count <= MaxRead /\ put_count <= MaxWrite

LEMMA FlagTypesNext == FlagTypes /\ [Next]_vars => FlagTypes'
  <1> SUFFICES ASSUME FlagTypes, [Next]_vars PROVE FlagTypes'
    OBVIOUS
  <1> USE DEF FlagTypes
  <1>0. TRUE \in BOOLEAN /\ FALSE \in BOOLEAN
    OBVIOUS
  <1>1. CASE Owner
    BY <1>0, <1>1, Zenon DEF Owner, Start, AssignGuard, Stop, OwnerPut, OwnerGet
  <1>2. CASE Guard
    BY <1>0, <1>2, Zenon DEF Guard, SpawnRead, SpawnWrite, JoinRead, JoinWrite, EndCallback
  <1>3. CASE Destructor
    BY <1>0, <1>3, Zenon DEF Destructor, DestroySocket, DestroyBase, ReleaseGuard
  <1>4. CASE Reader
    BY <1>0, <1>4, Zenon
    DEF Reader, ReadTest, ReadError, ReadNothing, ReadData, ReadCheck, ReadPut, ReadPutCheck, ReadEnd
  <1>5. CASE Writer
    BY <1>0, <1>5, Zenon
    DEF Writer, WriteTest, WritePeek, WriteCheck, WriteAccepted, WriteError, WriteGet, WriteEnd
  <1>6. CASE UNCHANGED vars
    BY <1>6, Zenon DEF vars
  <1> QED BY <1>1, <1>2, <1>3, <1>4, <1>5, <1>6 DEF Next

LEMMA BoundedNext ==
  WorkerAssumption /\ LifeInv /\ OutputInv /\ InputInv /\ Bounded /\ [Next]_vars => Bounded'
  <1> SUFFICES ASSUME WorkerAssumption, LifeInv, OutputInv, InputInv, Bounded, [Next]_vars PROVE Bounded'
    OBVIOUS
  <1>0. /\ rq \in Seq(Nat) /\ wq \in Seq(Nat) /\ batch \in Seq(Nat)
        /\ Len(rq) \in Nat /\ Len(wq) \in Nat /\ read_count \in Nat /\ put_count \in Nat
        /\ QueueSize \in Nat /\ MaxRead \in Nat /\ MaxWrite \in Nat
    BY LenProperties DEF OutputInv, InputInv, BatchInv, WorkerAssumption
  <1>1. CASE OwnerPut
    BY <1>0, <1>1, AppendProperties DEF OwnerPut, Bounded
  <1>2. CASE OwnerGet
    BY <1>0, <1>2, HeadTailProperties DEF OwnerGet, Bounded
  <1>3. CASE ReadData
    BY <1>0, <1>3 DEF ReadData, Chunks, Bounded
  <1>4. CASE ReadPut
    <2>1. batch # <<>>
      BY <1>4 DEF ReadPut, InputInv, BatchInv
    <2>2. Head(batch) \in Nat
      BY <1>0, <2>1, HeadTailProperties
    <2>3. /\ rq' = rq \/ (Len(rq) < QueueSize /\ rq' = Append(rq, Head(batch)))
          /\ UNCHANGED <<wq, read_count, put_count>>
      BY <1>4 DEF ReadPut
    <2> QED BY <1>0, <2>2, <2>3, AppendProperties DEF Bounded
  <1>5. CASE WriteGet
    <2>1. wq # <<>>
      BY <1>5 DEF WriteGet, OutputInv
    <2> QED BY <1>0, <1>5, <2>1, HeadTailProperties DEF WriteGet, Bounded
  <1>6. ASSUME ~OwnerPut, ~OwnerGet, ~ReadData, ~ReadPut, ~WriteGet
        PROVE  UNCHANGED <<rq, wq, read_count, put_count>>
    BY <1>6
    DEF Next, vars, Owner, Start, AssignGuard, Stop, Guard, SpawnRead, SpawnWrite,
        JoinRead, JoinWrite, EndCallback, Destructor, DestroySocket, DestroyBase,
        ReleaseGuard, Reader, ReadTest, ReadError, ReadNothing, ReadCheck, ReadPutCheck, ReadEnd,
        Writer, WriteTest, WritePeek, WriteCheck, WriteAccepted, WriteError, WriteEnd
  <1>7. CASE UNCHANGED <<rq, wq, read_count, put_count>>
    BY <1>7 DEF Bounded
  <1> QED BY <1>1, <1>2, <1>3, <1>4, <1>5, <1>6, <1>7

\* The worker's variables keep their types, and its queues their capacity.
THEOREM TypeCorrect == Spec => []TypeOK
  <1> DEFINE I == LifeInv /\ FlagInv /\ EndsForCause /\ OutputInv /\ InputInv /\ FlagTypes /\ Bounded
  <1>1. WorkerAssumption /\ Init => I
    <2> SUFFICES ASSUME WorkerAssumption, Init PROVE I
      OBVIOUS
    <2>1. FlagTypes
      BY Zenon DEF Init, FlagTypes
    <2>2. Bounded
      BY DEF Init, Bounded, WorkerAssumption
    <2> QED BY <2>1, <2>2, CauseInit, OutputInit, InputInit DEF CauseInv
  <1>2. WorkerAssumption /\ I /\ [Next]_vars => I'
    BY CauseNext, OutputNext, InputNext, FlagTypesNext, BoundedNext DEF CauseInv
  <1>3. I => TypeOK
    <2> SUFFICES ASSUME I PROVE TypeOK
      OBVIOUS
    <2>1. /\ {m_read_thread_alive, m_write_thread_alive, m_stop_asked, m_stopped,
              has_parser, broken, put_ok} \subseteq BOOLEAN
          /\ deleter \in Deleters
      BY Zenon DEF FlagTypes, InputInv, BatchInv
    <2>2. {batch, rq, received, wq, sent} \subseteq Seq(Nat)
      BY DEF InputInv, BatchInv, OutputInv
    <2>3. /\ Len(rq) <= QueueSize /\ Len(wq) <= QueueSize
          /\ read_count \in 0 .. MaxRead /\ put_count \in 0 .. MaxWrite
      BY DEF Bounded, InputInv, BatchInv, OutputInv, WorkerAssumption
    <2> QED BY <2>1, <2>2, <2>3 DEF TypeOK, LifeInv, Labels, ReleaseInv
  <1> QED BY <1>1, <1>2, <1>3, WorkerAssumption, PTL DEF Spec
=============================================================================

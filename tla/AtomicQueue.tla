---------------------------- MODULE AtomicQueue ----------------------------
(***************************************************************************)
(* What a client of a queue (class QueueBase) is promised: put, get and    *)
(* peek are calls of concurrent threads, and every call takes effect at    *)
(* one instant between its invocation and its return.  A put appends its   *)
(* datagram or, on a full queue, returns 0; a get takes the oldest         *)
(* datagram and a peek copies it, or both return 0 on an empty queue.      *)
(* How the ring buffer, the mutex and the condition variables bring this   *)
(* about is the business of module QueueStack.                             *)
(***************************************************************************)
EXTENDS Naturals, Sequences

CONSTANTS
  Producers,   (* threads that call put                                    *)
  Consumers,   (* threads that call get and peek                           *)
  ConsumerOps, (* the calls a consumer makes, a subset of {"get", "peek"}  *)
  Datagrams,   (* what can be put                                          *)
  Capacity,    (* number of datagrams the queue holds                      *)
  NoData       (* the content of a buffer nothing was copied to            *)

VARIABLES
  queue, (* the datagrams held, oldest first                               *)
  op,    (* op[t]: the call thread t is in, "none" between calls           *)
  buf,   (* buf[t]: the caller's buffer                                    *)
  res    (* res[t]: "none" until the call took effect, then "ok" or "zero" *)

vars == <<queue, op, buf, res>>

Threads == Producers \cup Consumers

Init ==
  /\ queue = <<>>
  /\ op  = [t \in Threads |-> "none"]
  /\ buf = [t \in Threads |-> NoData]
  /\ res = [t \in Threads |-> "none"]

Invoke(t, o, d) ==
  /\ op[t] = "none"
  /\ op'  = [op EXCEPT ![t] = o]
  /\ buf' = [buf EXCEPT ![t] = d]
  /\ UNCHANGED <<queue, res>>

Call ==
  \/ \E p \in Producers, d \in Datagrams : Invoke(p, "put", d)
  \/ \E c \in Consumers, o \in ConsumerOps : Invoke(c, o, NoData)

InFlight(t, ops) == op[t] \in ops /\ res[t] = "none"

Put(p) ==
  /\ InFlight(p, {"put"})
  /\ Len(queue) < Capacity
  /\ queue' = Append(queue, buf[p])
  /\ res' = [res EXCEPT ![p] = "ok"]
  /\ UNCHANGED <<op, buf>>

Get(c) ==
  /\ InFlight(c, {"get"})
  /\ queue # <<>>
  /\ buf' = [buf EXCEPT ![c] = Head(queue)]
  /\ queue' = Tail(queue)
  /\ res' = [res EXCEPT ![c] = "ok"]
  /\ UNCHANGED op

Peek(c) ==
  /\ InFlight(c, {"peek"})
  /\ queue # <<>>
  /\ buf' = [buf EXCEPT ![c] = Head(queue)]
  /\ res' = [res EXCEPT ![c] = "ok"]
  /\ UNCHANGED <<queue, op>>

ReturnZero(t) ==
  /\ \/ InFlight(t, {"put"}) /\ Len(queue) = Capacity
     \/ InFlight(t, {"get", "peek"}) /\ queue = <<>>
  /\ res' = [res EXCEPT ![t] = "zero"]
  /\ UNCHANGED <<queue, op, buf>>

Return(t) ==
  /\ res[t] # "none"
  /\ op'  = [op EXCEPT ![t] = "none"]
  /\ buf' = [buf EXCEPT ![t] = NoData]
  /\ res' = [res EXCEPT ![t] = "none"]
  /\ UNCHANGED queue

Next ==
  \/ Call
  \/ \E p \in Producers : Put(p)
  \/ \E c \in Consumers : Get(c) \/ Peek(c)
  \/ \E t \in Threads : ReturnZero(t) \/ Return(t)

Spec == Init /\ [][Next]_vars
=============================================================================

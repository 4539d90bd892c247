----------------------------- MODULE RingQueue -----------------------------
(***************************************************************************)
(* Class RingQueue (containers/RingQueue.h, RingQueue.cpp) over QueueBase: *)
(* a ring of TotalCount bags, an input and an output index, the atomic     *)
(* counter m_size and the status of the last call.  put, get and peek are  *)
(* not synchronised by the class itself, so they are cut here into the     *)
(* accesses to shared memory another thread can come between:              *)
(*   put   check the counter, fill the bag, move m_index_in, m_size++      *)
(*   get   check the counter, empty the bag, move m_index_out, m_size--    *)
(*   peek  check the counter, copy the bag                                 *)
(* Module QueueStack runs these steps in threads.                          *)
(*                                                                         *)
(* The bytes of a datagram are not modelled: a bag holds a datagram or     *)
(* NoData, which stands for has_data = false.  Calls have a buffer large   *)
(* enough for the datagram, and a datagram is not empty.                   *)
(***************************************************************************)
EXTENDS Integers

CONSTANTS
  TotalCount, (* RingQueue::m_total_count, the number of bags              *)
  Datagrams,
  NoData

ASSUME RingAssumption ==
  /\ TotalCount \in Nat \ {0}
  /\ NoData \notin Datagrams

VARIABLES
  bag,         (* *m_ring_vector                                           *)
  m_index_in,
  m_index_out,
  m_size,
  m_status

ring == <<bag, m_index_in, m_index_out, m_size, m_status>>

Index == 0 .. TotalCount - 1

Status == {"STATUS_QUEUEBASE_OK", "STATUS_QUEUEBASE_FULL", "STATUS_QUEUEBASE_EMPTY"}

RingTypeOK ==
  /\ bag \in [Index -> Datagrams \cup {NoData}]
  /\ m_index_in \in Index
  /\ m_index_out \in Index
  /\ m_size \in Int
  /\ m_status \in Status

RingInit ==
  /\ bag = [i \in Index |-> NoData]
  /\ m_index_in = 0
  /\ m_index_out = 0
  /\ m_size = 0
  /\ m_status = "STATUS_QUEUEBASE_OK"

(***************************************************************************)
(* What capacity() returns.  It reads QueueBase::m_total_count, which the  *)
(* constructor sets to 0; RingQueue declares a member of the same name,    *)
(* counts with that one and does not override capacity().                  *)
(***************************************************************************)
ReportedCapacity == 0

\* Mutant: an index runs off the end of the vector.
NextIndexNoWrap(i) == i + 1

\* The bag after bag i: ++index, and back to 0 at the end of the vector.
NextIndex(i) == IF i + 1 = TotalCount THEN 0 ELSE i + 1

(***************************************************************************)
(* The guards of the three operations: reset_status() and the test of      *)
(* m_size.                                                                 *)
(***************************************************************************)
\* Mutant: off by one at the full ring.
HasRoomOffByOne == m_size <= TotalCount

HasRoom == m_size < TotalCount
HasDatagram == m_size # 0

SetStatus(s) ==
  /\ m_status' = s
  /\ UNCHANGED <<bag, m_index_in, m_index_out, m_size>>

(***************************************************************************)
(* The steps of put.                                                       *)
(***************************************************************************)
FillBag(d) ==
  /\ bag' = [bag EXCEPT ![m_index_in] = d]
  /\ UNCHANGED <<m_index_in, m_index_out, m_size, m_status>>

AdvanceIn ==
  /\ m_index_in' = NextIndex(m_index_in)
  /\ UNCHANGED <<bag, m_index_out, m_size, m_status>>

CountIn ==
  /\ m_size' = m_size + 1
  /\ UNCHANGED <<bag, m_index_in, m_index_out, m_status>>

(***************************************************************************)
(* The steps of get; peek only reads FrontBag.                             *)
(***************************************************************************)
FrontBag == bag[m_index_out]

EmptyBag ==
  /\ bag' = [bag EXCEPT ![m_index_out] = NoData]
  /\ UNCHANGED <<m_index_in, m_index_out, m_size, m_status>>

AdvanceOut ==
  /\ m_index_out' = NextIndex(m_index_out)
  /\ UNCHANGED <<bag, m_index_in, m_size, m_status>>

CountOut ==
  /\ m_size' = m_size - 1
  /\ UNCHANGED <<bag, m_index_in, m_index_out, m_status>>
=============================================================================

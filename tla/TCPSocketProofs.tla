-------------------------- MODULE TCPSocketProofs --------------------------
(***************************************************************************)
(* Theorems about TCPSocket, for every size and number of datagrams and    *)
(* every length of the connection's life: that the socket fails for both   *)
(* threads and for good, tells so, gives its descriptor back, and that no  *)
(* late call touches what the process opened under its number.             *)
(***************************************************************************)
EXTENDS TCPSocket, TLAPS

Cleared == m_descr = -1

\* On its way to the descriptor's end; what is behind it has Cleared.
Closing(t) == pc[t] \in {"close_reset", "close_load", "close", "close_clear"}

\* m_descr is or will be -1, whatever anybody does.
Ending == Cleared \/ \E t \in Threads : Closing(t)

(***************************************************************************)
(* A thread that gives up, and one that has, leaves the socket Ending: the *)
(* status may be an error because the other thread set it and has yet to   *)
(* close.  But who begins a late call finds the other thread done and is   *)
(* not closing himself, so the descriptor has been cleared, and his call   *)
(* gets no farther than its load.                                          *)
(***************************************************************************)
GivingUp(t) == pc[t] \in {"fail", "close_status", "TCPSOCKET_DESCRIPTOR_ERROR"}

StopInv ==
  /\ m_status # "TCPSOCKET_OK" \/ failed \/ (\E t \in Threads : GivingUp(t)) => Ending
  /\ failed => \E t \in Threads : At(t, "done")
  /\ \A t \in Threads : late[t] =>
       /\ Cleared
       /\ pc[t] \in {"test", "reset", "load", "TCPSOCKET_DESCRIPTOR_ERROR", "fail", "done"}

(***************************************************************************)
(* The descriptor is closed before it is forgotten.                        *)
(***************************************************************************)
CloseInv ==
  /\ \A t \in Threads : At(t, "close") => descr[t] = Descr
  /\ connected /\ (Cleared \/ \E t \in Threads : At(t, "close_clear")) => table # "ours"
  /\ destroyed => Cleared

(***************************************************************************)
(* Where the status of a cleared socket is OK, a thread is about to set    *)
(* it, since a load of m_descr fails now.                                  *)
(***************************************************************************)
Setting(t) == Closing(t) \/ pc[t] \in Failures \cup {"load", "close_status"}

StatusInv == Cleared => m_status # "TCPSOCKET_OK" \/ \E t \in Threads : Setting(t)

(***************************************************************************)
(* The next byte may stand behind the last one the connection accepted:    *)
(* one of the same datagram, of which a part has been sent, or the end of  *)
(* the one before.  Within a call it continues the call's own bytes.       *)
(***************************************************************************)
Ordered == \A j \in 2 .. Len(wire) : Follows(wire[j], wire[j - 1])
Last == wire[Len(wire)]
EndsWith(b) == wire # <<>> /\ Last = b

WireInv ==
  misdirected = {} =>
    /\ Ordered
    /\ wire = <<>> \/ Last[1] = datagram \/ EndsWith(<<datagram - 1, Size>>)
    /\ At("writer", "load") => sent_size = 0
    /\ At("writer", "io") => sent_size < Size
    /\ At("writer", "io") /\ sent_size > 0 => EndsWith(<<datagram, sent_size>>)
    /\ At("writer", "return") => EndsWith(<<datagram, Size>>)

SocketInv == TypeOK /\ WireInv /\ StopInv /\ CloseInv /\ StatusInv /\ OnlyRacingCallsStray

-----------------------------------------------------------------------------
(***************************************************************************)
(* Every step of the calls and of the surroundings keeps the socket's      *)
(* failure on its way: StopInv.                                            *)
(***************************************************************************)
LEMMA StopStep ==
  ASSUME SocketAssumption, SocketInv, Next PROVE StopInv'
<1> USE DEF TypeOK, StopInv, Ending, Closing, GivingUp, Cleared, Threads, Labels,
    Failures, At, Goto, members, kernel, calls, Record, Ours, Foreign, Passed
<1>0. TypeOK /\ StopInv /\ CloseInv /\ StatusInv /\ OnlyRacingCallsStray /\ Descr \in Nat \ {0}
  BY DEF SocketInv, SocketAssumption
<1>1. ASSUME NEW t \in Threads, Begin(t) PROVE StopInv'
  BY <1>0, <1>1 DEF Begin, Call, Leave, TestStatus, ResetStatus, LoadDescr
<1>2. ASSUME NEW t \in Threads, Return(t) \/ Fail(t) PROVE StopInv'
  BY <1>0, <1>2 DEF Return, Fail
<1>3. ASSUME NEW t \in Threads, SetFailure(t) PROVE StopInv'
  BY <1>0, <1>3 DEF SetFailure
<1>4. ASSUME NEW t \in Threads, CloseDescriptor(t) PROVE StopInv'
  BY <1>0, <1>4 DEF CloseDescriptor, CloseReset, CloseLoad, Close, CloseClear, CloseStatus
<1>5. CASE Recv
  BY <1>0, <1>5 DEF Recv, RecvReturns, RecvClosed, RecvError
<1>6. CASE Send
  BY <1>0, <1>6 DEF Send, SendSome, SendWouldBlock, SendError
<1>7. CASE Destroy \/ PeerGoes \/ Reuse
  BY <1>0, <1>7 DEF Destroy, PeerGoes, Reuse
<1> QED BY <1>1, <1>2, <1>3, <1>4, <1>5, <1>6, <1>7 DEF Next

\* close_descriptor and the destructor close the number before they forget it.
LEMMA CloseStep ==
  ASSUME SocketAssumption, SocketInv, Next PROVE CloseInv'
<1> USE DEF TypeOK, CloseInv, Cleared, Threads, Labels, Failures, At, Goto, members,
    kernel, calls, Record, Ours, Foreign, Passed
<1>0. TypeOK /\ StopInv /\ CloseInv /\ StatusInv /\ OnlyRacingCallsStray /\ Descr \in Nat \ {0}
  BY DEF SocketInv, SocketAssumption
<1>1. ASSUME NEW t \in Threads, Begin(t) PROVE CloseInv'
  BY <1>0, <1>1 DEF Begin, Call, Leave, TestStatus, ResetStatus, LoadDescr
<1>2. ASSUME NEW t \in Threads, Return(t) \/ Fail(t) PROVE CloseInv'
  BY <1>0, <1>2 DEF Return, Fail
<1>3. ASSUME NEW t \in Threads, SetFailure(t) PROVE CloseInv'
  BY <1>0, <1>3 DEF SetFailure
<1>4. ASSUME NEW t \in Threads, CloseDescriptor(t) PROVE CloseInv'
  BY <1>0, <1>4 DEF CloseDescriptor, CloseReset, CloseLoad, Close, CloseClear, CloseStatus
<1>5. CASE Recv
  BY <1>0, <1>5 DEF Recv, RecvReturns, RecvClosed, RecvError
<1>6. CASE Send
  BY <1>0, <1>6 DEF Send, SendSome, SendWouldBlock, SendError
<1>7. CASE Destroy \/ PeerGoes \/ Reuse
  BY <1>0, <1>7 DEF Destroy, PeerGoes, Reuse
<1> QED BY <1>1, <1>2, <1>3, <1>4, <1>5, <1>6, <1>7 DEF Next

\* Whatever clears m_descr or resets m_status goes on to set an error.
LEMMA StatusStep ==
  ASSUME SocketAssumption, SocketInv, Next PROVE StatusInv'
<1> USE DEF TypeOK, StatusInv, StopInv, Ending, Setting, Closing, Cleared, Threads,
    Labels, Failures, At, Goto, members, kernel, calls, Record, Ours, Foreign,
    Passed
<1>0. TypeOK /\ StopInv /\ CloseInv /\ StatusInv /\ OnlyRacingCallsStray /\ Descr \in Nat \ {0}
  BY DEF SocketInv, SocketAssumption
<1>1. ASSUME NEW t \in Threads, Begin(t) PROVE StatusInv'
  BY <1>0, <1>1 DEF Begin, Call, Leave, TestStatus, ResetStatus, LoadDescr
<1>2. ASSUME NEW t \in Threads, Return(t) \/ Fail(t) PROVE StatusInv'
  BY <1>0, <1>2 DEF Return, Fail
<1>3. ASSUME NEW t \in Threads, SetFailure(t) PROVE StatusInv'
  BY <1>0, <1>3 DEF SetFailure
<1>4. ASSUME NEW t \in Threads, CloseDescriptor(t) PROVE StatusInv'
  BY <1>0, <1>4 DEF CloseDescriptor, CloseReset, CloseLoad, Close, CloseClear, CloseStatus
<1>5. CASE Recv
  BY <1>0, <1>5 DEF Recv, RecvReturns, RecvClosed, RecvError
<1>6. CASE Send
  BY <1>0, <1>6 DEF Send, SendSome, SendWouldBlock, SendError
<1>7. CASE Destroy \/ PeerGoes \/ Reuse
  BY <1>0, <1>7 DEF Destroy, PeerGoes, Reuse
<1> QED BY <1>1, <1>2, <1>3, <1>4, <1>5, <1>6, <1>7 DEF Next

\* A late call makes no system call, and close only what it has loaded itself.
LEMMA StrayStep ==
  ASSUME SocketAssumption, SocketInv, Next PROVE OnlyRacingCallsStray'
<1> USE DEF TypeOK, StopInv, OnlyRacingCallsStray, Cleared, Threads, Labels,
    Failures, At, Goto, members, kernel, calls, Record, Ours, Foreign, Passed
<1>0. TypeOK /\ StopInv /\ CloseInv /\ StatusInv /\ OnlyRacingCallsStray /\ Descr \in Nat \ {0}
  BY DEF SocketInv, SocketAssumption
<1>1. ASSUME NEW t \in Threads, Begin(t) PROVE OnlyRacingCallsStray'
  BY <1>0, <1>1 DEF Begin, Call, Leave, TestStatus, ResetStatus, LoadDescr
<1>2. ASSUME NEW t \in Threads, Return(t) \/ Fail(t) PROVE OnlyRacingCallsStray'
  BY <1>0, <1>2 DEF Return, Fail
<1>3. ASSUME NEW t \in Threads, SetFailure(t) PROVE OnlyRacingCallsStray'
  BY <1>0, <1>3 DEF SetFailure
<1>4. ASSUME NEW t \in Threads, CloseDescriptor(t) PROVE OnlyRacingCallsStray'
  BY <1>0, <1>4 DEF CloseDescriptor, CloseReset, CloseLoad, Close, CloseClear, CloseStatus
<1>5. CASE Recv
  <2>1. CASE RecvReturns
    BY <1>0, <2>1 DEF RecvReturns
  <2>2. CASE RecvClosed \/ RecvError
    BY <1>0, <2>2 DEF RecvClosed, RecvError
  <2> QED BY <1>5, <2>1, <2>2 DEF Recv
<1>6. CASE Send
  BY <1>0, <1>6 DEF Send, SendSome, SendWouldBlock, SendError
<1>7. CASE Destroy \/ PeerGoes \/ Reuse
  BY <1>0, <1>7 DEF Destroy, PeerGoes, Reuse
<1> QED BY <1>1, <1>2, <1>3, <1>4, <1>5, <1>6, <1>7 DEF Next

-----------------------------------------------------------------------------
\* The constructor establishes the invariant, with and without a peer.
LEMMA InitSocketInv ==
  ASSUME SocketAssumption, Init PROVE SocketInv
<1> USE DEF Init, Threads
<1>0. wire = <<>> /\ Len(wire) = 0
  OBVIOUS
<1>1. TypeOK
  <2>1. wire \in Seq((Nat \ {0}) \X (1 .. Size)) /\ misdirected \subseteq BOOLEAN
    BY <1>0
  <2>2. sent_size \in 0 .. Size /\ datagram \in Nat \ {0} /\ m_descr \in {Descr, -1}
    BY DEF SocketAssumption
  <2> QED BY <2>1, <2>2 DEF TypeOK, Labels, Failures
<1>2. WireInv
  BY <1>0 DEF WireInv, Ordered, At
<1>3. StopInv
  BY DEF StopInv, Ending, Cleared, GivingUp, At
<1>4. CloseInv /\ StatusInv /\ OnlyRacingCallsStray
  BY DEF SocketAssumption, CloseInv, StatusInv, Cleared, At, OnlyRacingCallsStray
<1> QED BY <1>1, <1>2, <1>3, <1>4 DEF SocketInv

\* What one call of ::send adds: n more bytes of the datagram, in order.
LEMMA BytesAre ==
  ASSUME SocketAssumption, TypeOK, NEW n \in 1 .. Size - sent_size
  PROVE  /\ Bytes(n) \in Seq((Nat \ {0}) \X (1 .. Size))
         /\ Len(Bytes(n)) = n
         /\ \A i \in 1 .. n : Bytes(n)[i] = <<datagram, sent_size + i>>
<1>1. n \in Nat /\ \A i \in 1 .. n : <<datagram, sent_size + i>> \in (Nat \ {0}) \X (1 .. Size)
  BY DEF SocketAssumption, TypeOK
<1> QED BY <1>1 DEF Bytes

\* The calls and the kernel keep every variable in its type.
LEMMA TypeStep ==
  ASSUME SocketAssumption, TypeOK, Next PROVE TypeOK'
<1> USE DEF TypeOK, Threads, Labels, Failures, At, Goto, members, kernel, calls,
    Record, Ours, Foreign, Passed
<1>0. Descr \in Nat \ {0} /\ Size \in Nat \ {0}
  BY DEF SocketAssumption
<1>1. ASSUME NEW t \in Threads, Begin(t) PROVE TypeOK'
  BY <1>0, <1>1 DEF Begin, Call, Leave, TestStatus, ResetStatus, LoadDescr
<1>2. ASSUME NEW t \in Threads, Return(t) \/ Fail(t) PROVE TypeOK'
  <2>1. datagram' \in Nat \ {0} /\ pc' \in [Threads -> Labels]
    BY <1>2 DEF Return, Fail
  <2>2. CASE Return(t)
    BY <2>1, <2>2 DEF Return
  <2>3. CASE Fail(t)
    BY <2>1, <2>3 DEF Fail
  <2> QED BY <1>2, <2>2, <2>3
<1>3. ASSUME NEW t \in Threads, SetFailure(t) PROVE TypeOK'
  BY <1>0, <1>3 DEF SetFailure
<1>4. ASSUME NEW t \in Threads, CloseDescriptor(t) PROVE TypeOK'
  BY <1>0, <1>4 DEF CloseDescriptor, CloseReset, CloseLoad, Close, CloseClear, CloseStatus
<1>5. CASE Recv
  BY <1>0, <1>5 DEF Recv, RecvReturns, RecvClosed, RecvError
<1>6. CASE SendWouldBlock \/ SendError
  BY <1>0, <1>6 DEF SendWouldBlock, SendError
<1>7. CASE SendSome
  <2>1. PICK d \in Passed("writer"), n \in 1 .. Size - sent_size :
          /\ wire' = IF Ours(d) THEN wire \o Bytes(n) ELSE wire
          /\ Record("writer", d)
          /\ sent_size' = sent_size + n
    BY <1>7 DEF SendSome
  <2>2. wire' \in Seq((Nat \ {0}) \X (1 .. Size))
    BY <2>1, BytesAre
  <2> QED BY <1>0, <1>7, <2>1, <2>2 DEF SendSome
<1>8. CASE Destroy \/ PeerGoes \/ Reuse
  BY <1>0, <1>8 DEF Destroy, PeerGoes, Reuse
<1> QED BY <1>1, <1>2, <1>3, <1>4, <1>5, <1>6, <1>7, <1>8 DEF Next, Send

\* What ::send appends, by index: a sequence and another behind it.
LEMMA Appended ==
  ASSUME NEW S, NEW a \in Seq(S), NEW b \in Seq(S)
  PROVE  /\ a \o b \in Seq(S) /\ Len(a \o b) = Len(a) + Len(b)
         /\ \A j \in 1 .. Len(a) : (a \o b)[j] = a[j]
         /\ \A j \in Len(a) + 1 .. Len(a) + Len(b) : (a \o b)[j] = b[j - Len(a)]
OBVIOUS

\* Where the connection accepts nothing, what it has accepted is as before.
LEMMA SameWire ==
  ASSUME wire' = wire
  PROVE  Ordered' = Ordered /\ Last' = Last /\ \A b : EndsWith(b)' = EndsWith(b)
BY DEF Ordered, Last, EndsWith

(***************************************************************************)
(* ::send appends what continues the call's bytes.                         *)
(***************************************************************************)
LEMMA SendStep ==
  ASSUME SocketAssumption, TypeOK, WireInv, SendSome PROVE WireInv'
<1> SUFFICES ASSUME misdirected' = {} PROVE WireInv'
  BY DEF WireInv
<1>1. PICK d \in Passed("writer"), n \in 1 .. Size - sent_size :
        /\ Ours(d) \/ Foreign(d)
        /\ wire' = IF Ours(d) THEN wire \o Bytes(n) ELSE wire
        /\ Record("writer", d)
        /\ sent_size' = sent_size + n
  BY DEF SendSome
<1>2. misdirected = {} /\ wire' = wire \o Bytes(n)
  BY <1>1 DEF Record, Ours, Foreign
<1>3. /\ Ordered
      /\ wire = <<>> \/ Last[1] = datagram \/ EndsWith(<<datagram - 1, Size>>)
      /\ sent_size > 0 => EndsWith(<<datagram, sent_size>>)
  BY <1>2 DEF WireInv, SendSome, At
<1>4. /\ Size \in Nat /\ sent_size \in Nat /\ datagram \in Nat \ {0}
      /\ n \in Nat \ {0} /\ n <= Size - sent_size /\ Len(wire) \in Nat
  BY DEF TypeOK, SocketAssumption
<1>5. /\ Len(wire') = Len(wire) + n
      /\ \A j \in 1 .. Len(wire) : wire'[j] = wire[j]
      /\ \A j \in Len(wire) + 1 .. Len(wire) + n :
           wire'[j] = <<datagram, sent_size + (j - Len(wire))>>
  <2> DEFINE added == Bytes(n)
             S == (Nat \ {0}) \X (1 .. Size)
  <2>1. /\ wire \in Seq(S) /\ added \in Seq(S) /\ Len(added) = n
        /\ \A i \in 1 .. n : added[i] = <<datagram, sent_size + i>>
    BY BytesAre DEF TypeOK
  <2>2. wire' = wire \o added
    BY <1>2
  <2> HIDE DEF added, S
  <2>3. /\ Len(wire') = Len(wire) + n
        /\ \A j \in 1 .. Len(wire) : wire'[j] = wire[j]
        /\ \A j \in Len(wire) + 1 .. Len(wire) + n : wire'[j] = added[j - Len(wire)]
    BY <2>1, <2>2, Appended
  <2>4. \A j \in Len(wire) + 1 .. Len(wire) + n : j - Len(wire) \in 1 .. n
    BY <1>4
  <2> QED BY <2>1, <2>3, <2>4
<1>6. ASSUME NEW j \in 2 .. Len(wire') PROVE Follows(wire'[j], wire'[j - 1])
  <2>1. CASE j <= Len(wire)
    <3>1. j \in 2 .. Len(wire) /\ j \in 1 .. Len(wire) /\ j - 1 \in 1 .. Len(wire)
      BY <1>4, <2>1
    <3> QED BY <1>3, <1>5, <3>1 DEF Ordered
  <2>2. CASE j = Len(wire) + 1
    <3>0. /\ j \in Len(wire) + 1 .. Len(wire) + n /\ j - Len(wire) = 1
          /\ j - 1 = Len(wire) /\ j - 1 \in 1 .. Len(wire)
      BY <1>4, <2>2
    <3>1. wire'[j] = <<datagram, sent_size + 1>>
      BY <1>5, <3>0
    <3>2. wire'[j - 1] = Last /\ wire # <<>>
      BY <1>5, <3>0 DEF Last
    <3> QED BY <1>3, <1>4, <3>1, <3>2 DEF Follows, EndsWith
  <2>3. CASE j > Len(wire) + 1
    <3>1. j \in Len(wire) + 1 .. Len(wire) + n /\ j - 1 \in Len(wire) + 1 .. Len(wire) + n
      <4>1. Len(wire') = Len(wire) + n
        BY <1>5
      <4> QED BY <1>4, <2>3, <4>1
    <3>2. /\ wire'[j] = <<datagram, sent_size + (j - Len(wire))>>
          /\ wire'[j - 1] = <<datagram, sent_size + ((j - 1) - Len(wire))>>
      BY <1>5, <3>1
    <3> QED BY <1>4, <2>3, <3>2 DEF Follows
  <2> QED BY <1>4, <1>5, <2>1, <2>2, <2>3
<1>7. wire' # <<>> /\ Last' = <<datagram, sent_size'>>
  <2>1. Len(wire') # 0 /\ Len(wire') \in Len(wire) + 1 .. Len(wire) + n
    BY <1>4, <1>5
  <2>2. wire'[Len(wire')] = <<datagram, sent_size + (Len(wire') - Len(wire))>>
    BY <1>5, <2>1
  <2>3. sent_size + (Len(wire') - Len(wire)) = sent_size'
    <3>1. Len(wire') = Len(wire) + n /\ sent_size' = sent_size + n
      BY <1>1, <1>5
    <3> QED BY <1>4, <3>1
  <2> QED BY <2>1, <2>2, <2>3 DEF Last
<1>8. datagram' = datagram
      /\ pc' = [pc EXCEPT !["writer"] = IF sent_size' < Size THEN "io" ELSE "return"]
  BY DEF SendSome, Goto
<1>9. sent_size' <= Size /\ pc'["writer"] = (IF sent_size' < Size THEN "io" ELSE "return")
  BY <1>1, <1>4, <1>8 DEF TypeOK, Threads
<1>10. (sent_size' < Size \/ sent_size' = Size) /\ sent_size' \in Nat
  BY <1>1, <1>4, <1>9
<1>11. Ordered'
  BY <1>6 DEF Ordered
<1> QED BY <1>7, <1>8, <1>9, <1>10, <1>11 DEF WireInv, EndsWith, At

(***************************************************************************)
(* Nothing but ::send adds to the connection, and the worker takes the     *)
(* next datagram only after the last byte of this one.                     *)
(***************************************************************************)
LEMMA WireStep ==
  ASSUME SocketAssumption, TypeOK, WireInv, Next PROVE WireInv'
<1> USE DEF WireInv, TypeOK, Threads, Labels, Failures, At, Goto, members, kernel,
    calls, Record
<1>0. Size \in Nat \ {0}
  BY DEF SocketAssumption
<1>1. ASSUME NEW t \in Threads, Begin(t) PROVE WireInv'
  <2>1. wire' = wire /\ misdirected' = misdirected /\ datagram' = datagram
    BY <1>1 DEF Begin, Call, Leave, TestStatus, ResetStatus, LoadDescr
  <2>2. CASE Call(t) \/ Leave(t) \/ TestStatus(t)
    BY <2>1, <2>2, SameWire DEF Call, Leave, TestStatus
  <2>3. CASE ResetStatus(t)
    BY <2>1, <2>3, SameWire DEF ResetStatus
  <2>4. CASE LoadDescr(t)
    BY <1>0, <2>1, <2>4, SameWire DEF LoadDescr
  <2> QED BY <1>1, <2>2, <2>3, <2>4 DEF Begin
<1>2. ASSUME NEW t \in Threads, Return(t) PROVE WireInv'
  <2>1. wire' = wire /\ misdirected' = misdirected /\ sent_size' = sent_size
        /\ pc' = [pc EXCEPT ![t] = "idle"]
    BY <1>2 DEF Return
  <2>2. CASE t = "writer" /\ pc[t] = "return"
    BY <1>2, <2>1, <2>2, SameWire DEF Return
  <2>3. CASE ~(t = "writer" /\ pc[t] = "return")
    BY <1>2, <2>1, <2>3, SameWire DEF Return
  <2> QED BY <2>2, <2>3
<1>3. ASSUME NEW t \in Threads, Fail(t) \/ SetFailure(t) PROVE WireInv'
  BY <1>0, <1>3, SameWire DEF Fail, SetFailure
<1>4. ASSUME NEW t \in Threads, CloseDescriptor(t) PROVE WireInv'
  BY <1>0, <1>4, SameWire
     DEF CloseDescriptor, CloseReset, CloseLoad, Close, CloseClear, CloseStatus
<1>5. CASE Recv
  BY <1>0, <1>5, SameWire DEF Recv, RecvReturns, RecvClosed, RecvError
<1>6. CASE SendWouldBlock \/ SendError
  BY <1>0, <1>6, SameWire DEF SendWouldBlock, SendError
<1>7. CASE SendSome
  BY <1>7, SendStep
<1>8. CASE Destroy \/ PeerGoes \/ Reuse
  BY <1>0, <1>8, SameWire DEF Destroy, PeerGoes, Reuse
<1> QED BY <1>1, <1>2, <1>3, <1>4, <1>5, <1>6, <1>7, <1>8 DEF Next, Send

\* The invariant is inductive.
LEMMA StepSocketInv ==
  ASSUME SocketAssumption, SocketInv, [Next]_vars PROVE SocketInv'
<1>1. CASE Next
  BY <1>1, TypeStep, WireStep, StopStep, CloseStep, StatusStep, StrayStep DEF SocketInv
<1>2. CASE UNCHANGED vars
  <2> USE <1>2 DEF vars, members, kernel, calls
  <2>1. TypeOK'
    BY DEF SocketInv, TypeOK
  <2>2. WireInv'
    BY SameWire DEF SocketInv, WireInv, At
  <2>3. StopInv'
    BY DEF SocketInv, StopInv, Ending, Closing, Cleared, GivingUp, At
  <2>4. CloseInv' /\ StatusInv' /\ OnlyRacingCallsStray'
    BY DEF SocketInv, CloseInv, StatusInv, Cleared, Setting, Closing, OnlyRacingCallsStray, At
  <2> QED BY <2>1, <2>2, <2>3, <2>4 DEF SocketInv
<1> QED BY <1>1, <1>2

-----------------------------------------------------------------------------
(***************************************************************************)
(* The strengthening holds in every state of the socket's life.            *)
(***************************************************************************)
THEOREM SocketCorrect == SocketAssumption /\ Spec => []SocketInv
<1>1. SocketAssumption /\ Init => SocketInv
  BY InitSocketInv
<1>2. SocketAssumption /\ SocketInv /\ [Next]_vars => SocketInv'
  BY StepSocketInv
<1> QED BY <1>1, <1>2, SocketAssumption, PTL DEF Spec

(***************************************************************************)
(* Every variable keeps its type; in particular m_descr is the             *)
(* constructor's number or -1, and never more than Size bytes are sent.    *)
(***************************************************************************)
THEOREM TypeCorrect == Spec => []TypeOK
<1>1. SocketInv => TypeOK
  BY DEF SocketInv
<1> QED BY <1>1, SocketCorrect, SocketAssumption, PTL

(***************************************************************************)
(* A call begun after a -1 was returned fails too: it is nowhere near a    *)
(* return of 0 or more, because m_descr had been cleared when it began.    *)
(***************************************************************************)
THEOREM FailsForBoth == Spec => []FailStop
<1>1. SocketInv => FailStop
  BY DEF SocketInv, StopInv, FailStop
<1> QED BY <1>1, SocketCorrect, SocketAssumption, PTL

(***************************************************************************)
(* Between calls, status() of a socket that has failed is an error: the    *)
(* thread that reset it last was on its way to setting it again.           *)
(***************************************************************************)
THEOREM StatusSticks == Spec => []FailureSticks
<1>1. SocketInv => FailureSticks
  BY DEF SocketInv, StopInv, StatusInv, Ending, Closing, Setting, Failures, Quiet, FailureSticks
<1> QED BY <1>1, SocketCorrect, SocketAssumption, PTL

(***************************************************************************)
(* The peer gets every datagram whole and in order, with no byte before    *)
(* its turn, however many datagrams there are and wherever send cuts them. *)
(***************************************************************************)
THEOREM DatagramsWhole == Spec => []WholeInOrder
<1>1. SocketInv => WholeInOrder
  BY DEF SocketInv, WireInv, Ordered, WholeInOrder
<1> QED BY <1>1, SocketCorrect, SocketAssumption, PTL

(***************************************************************************)
(* The destroyed socket has closed its descriptor, since whoever cleared   *)
(* m_descr had closed it before.                                           *)
(***************************************************************************)
THEOREM DescriptorReturned == Spec => []NoLeak
<1>1. SocketInv => NoLeak
  BY DEF SocketInv, CloseInv, NoLeak
<1> QED BY <1>1, SocketCorrect, SocketAssumption, PTL

(***************************************************************************)
(* What strays to another connection is a call in progress at the failure, *)
(* never one begun after it was returned.                                  *)
(***************************************************************************)
THEOREM NoLateStray == Spec => []OnlyRacingCallsStray
<1>1. SocketInv => OnlyRacingCallsStray
  BY DEF SocketInv
<1> QED BY <1>1, SocketCorrect, SocketAssumption, PTL
=============================================================================

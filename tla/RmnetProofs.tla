---------------------------- MODULE RmnetProofs ----------------------------
(***************************************************************************)
(* The network device, sending and taking apart (MhiNetTx and RmnetFrame): *)
(* for rings of any size, any number of virtual devices, and frames of any *)
(* number of packets of any sizes.                                         *)
(*                                                                         *)
(* MhiNetTx.  No packet finds the transmit ring full, for any two          *)
(* thresholds that the restarts of the device leave room between.          *)
(* NeverFull is not inductive: whether the next packet fits depends on     *)
(* where the call is and on whether the queue is stopped.  Room bounds the *)
(* ring in each of these cases.  A restart starts a queue that was stopped *)
(* for a reason, and so costs one descriptor.                              *)
(*                                                                         *)
(* RmnetFrame.  What the kernel is given is said of a frame that is done   *)
(* with; the invariant says it of each place in the frame.  LayInv: packet *)
(* k begins where packet k - 1 ends, so the handler that pulls what one    *)
(* header says finds the next header, and finds nothing behind the last.   *)
(* ParseInv: with k packets taken out, none of them in error, the chain    *)
(* and what was handed on are the data of these k, the acknowledgements    *)
(* their orders, and flow_control what the last order for each device      *)
(* asks; the handler goes over to hand on behind the last packet, in front *)
(* of one in error, or when memory runs short.  It leaves the table of     *)
(* devices only in front of a datagram of the session nobody has.          *)
(***************************************************************************)
EXTENDS MhiNetTx, RmnetFrame, SequenceTheorems, TLAPS

-----------------------------------------------------------------------------
(* Sending: the ring.                                                      *)

\* Restarts so far.
Restarted == Restarts - budget.restart

Room ==
  /\ budget.restart <= Restarts
  /\ ~up => pc.xmit = "idle"
  /\ pc.xmit = "idle" /\ ~stopped => ring <= N - Low + 1 + Restarted
  /\ pc.xmit = "idle" /\ stopped => ring <= N - Low + (IF up THEN 2 ELSE 1) + Restarted
  /\ pc.xmit = "stop" => ~stopped /\ ring <= N - Low + 1 + Restarted
  /\ pc.xmit = "queue" => ring <= N - Low + (IF stopped THEN 1 + Restarted ELSE 0)

IInv == TypeOK /\ Room /\ NeverFull

\* The assumption, constant by constant.
LEMMA Consts ==
  /\ N \in Nat /\ Low \in Nat /\ High \in Nat /\ V \in Nat
  /\ Packets \in Nat /\ Acks \in Nat /\ Restarts \in Nat
  /\ Restarts + 2 <= Low /\ Low <= High + 1 /\ High < N
BY NetTxAssumption DEF NetTxAssumption

\* The device starts with an empty ring and running queues.
LEMMA InitInv == Init => IInv
<1> SUFFICES ASSUME Init PROVE IInv
  OBVIOUS
<1> USE Consts DEF Init
<1>1. TypeOK
  <2>1. vstopped \in [Vnds -> BOOLEAN]
    BY Zenon
  <2>2. pc \in [xmit : {"idle", "stop", "queue"}, done : {"idle", "look", "wake"}]
    OBVIOUS
  <2>3. at \in [xmit : 1 .. V + 1, done : 1 .. V + 1] /\ budget \in [ack : Nat, restart : Nat]
    OBVIOUS
  <2>4. vpc \in [Vnds -> {"idle", "stop"}] /\ want \in [Vnds -> Nat]
    OBVIOUS
  <2>5. ring \in 0 .. N /\ backlog \in Nat /\ dropped \in Nat
    OBVIOUS
  <2>6. stopped \in BOOLEAN /\ up \in BOOLEAN
    BY Zenon
  <2>7. QED
    BY <2>1, <2>2, <2>3, <2>4, <2>5, <2>6, Zenon DEF TypeOK
<1>2. Room
  BY DEF Room, Restarted
<1>3. QED
  BY <1>1, <1>2 DEF IInv, NeverFull

\* A packet that is queued fits.
LEMMA QueueFits ==
  ASSUME IInv, pc.xmit = "queue"
  PROVE  ring < N
<1>1. Restarted \in 0 .. Restarts
  BY Consts DEF IInv, TypeOK, Room, Restarted
<1>2. QED
  BY <1>1, Consts DEF IInv, TypeOK, Room

\* The loop index of either end, moved or set.
LEMMA AtKeeps ==
  ASSUME at \in [xmit : 1 .. V + 1, done : 1 .. V + 1]
  PROVE  /\ [at EXCEPT !.xmit = 1] \in [xmit : 1 .. V + 1, done : 1 .. V + 1]
         /\ [at EXCEPT !.done = 1] \in [xmit : 1 .. V + 1, done : 1 .. V + 1]
         /\ at.xmit \in Vnds => [at EXCEPT !.xmit = @ + 1] \in [xmit : 1 .. V + 1, done : 1 .. V + 1]
         /\ at.done \in Vnds => [at EXCEPT !.done = @ + 1] \in [xmit : 1 .. V + 1, done : 1 .. V + 1]
BY Consts DEF Vnds

\* A packet of a virtual device goes to the queue of the real one, not to the ring
\* (rmnet_vnd_start_xmit).
LEMMA VndKeeps ==
  ASSUME IInv, NEW v \in Vnds, VndXmit(v) \/ VndStop(v)
  PROVE  IInv'
<1> USE Consts DEF IInv, TypeOK, Room, NeverFull, Restarted
<1>1. CASE VndXmit(v)
  <2>1. vstopped' \in [Vnds -> BOOLEAN] /\ missed' = missed
    BY <1>1 DEF VndXmit, queues
  <2>2. TypeOK'
    BY <1>1, <2>1 DEF VndXmit, queues
  <2>3. Room'
    BY <1>1 DEF VndXmit, queues
  <2>4. NeverFull'
    BY <1>1 DEF VndXmit, queues
  <2>5. QED
    BY <2>2, <2>3, <2>4
<1>2. CASE VndStop(v)
  BY <1>2 DEF VndStop, queues
<1>3. QED
  BY <1>1, <1>2

\* The transmit function fills the ring only as far as it left room (mhi_netdev_xmit).
LEMMA XmitKeeps ==
  ASSUME IInv, Xmit
  PROVE  IInv'
<1> USE Consts DEF IInv, TypeOK, Room, NeverFull, Restarted
<1>1. CASE XmitStart
  <2>1. vstopped' \in [Vnds -> BOOLEAN]
    BY <1>1 DEF XmitStart, TooFew, Free, queues
  <2>2. TypeOK'
    BY <1>1, <2>1 DEF XmitStart, TooFew, Free, queues
  <2>3. Room'
    BY <1>1 DEF XmitStart, TooFew, Free, queues
  <2>4. NeverFull'
    BY <1>1 DEF XmitStart, TooFew, Free, queues
  <2>5. QED
    BY <2>2, <2>3, <2>4
<1>2. CASE XmitStopVnd
  <2>1. vstopped' \in [Vnds -> BOOLEAN]
    BY <1>2 DEF XmitStopVnd, Vnds
  <2>2. at' \in [xmit : 1 .. V + 1, done : 1 .. V + 1]
    BY <1>2, AtKeeps DEF XmitStopVnd
  <2>3. TypeOK'
    <3>1. pc' \in [xmit : {"idle", "stop", "queue"}, done : {"idle", "look", "wake"}]
      BY <1>2 DEF XmitStopVnd
    <3>2. UNCHANGED <<ring, stopped, backlog, want, dropped, vpc, up, budget, missed>>
      BY <1>2 DEF XmitStopVnd
    <3>3. QED
      BY <2>1, <2>2, <3>1, <3>2
  <2>4. Room'
    BY <1>2 DEF XmitStopVnd, Vnds
  <2>5. NeverFull'
    BY <1>2 DEF XmitStopVnd, Vnds
  <2>6. QED
    BY <2>3, <2>4, <2>5
<1>3. CASE XmitStop
  BY <1>3 DEF XmitStop
<1>4. CASE XmitQueue
  <2>1. vstopped' \in [Vnds -> BOOLEAN]
    BY <1>4 DEF XmitQueue, queues
  <2>2. TypeOK'
    BY <1>4, <2>1, QueueFits DEF XmitQueue, queues
  <2>3. Room'
    BY <1>4, QueueFits DEF XmitQueue, queues
  <2>4. NeverFull'
    BY <1>4, QueueFits DEF XmitQueue, queues
  <2>5. QED
    BY <2>2, <2>3, <2>4
<1>5. QED
  BY <1>1, <1>2, <1>3, <1>4 DEF Xmit

\* A completion only gives room, and wakes the queue when there is enough.
LEMMA DoneKeeps ==
  ASSUME IInv, Done
  PROVE  IInv'
<1> USE Consts DEF IInv, TypeOK, Room, NeverFull, Restarted
<1>1. CASE DoneStart
  BY <1>1 DEF DoneStart, queues
<1>2. CASE DoneLook
  <2>1. UNCHANGED <<ring, vstopped, backlog, want, dropped, vpc, up, budget, missed>>
    BY <1>2 DEF DoneLook
  <2>2. /\ stopped' \in BOOLEAN /\ pc'.xmit = pc.xmit
        /\ pc' \in [xmit : {"idle", "stop", "queue"}, done : {"idle", "look", "wake"}]
    BY <1>2 DEF DoneLook
  <2>3. at' \in [xmit : 1 .. V + 1, done : 1 .. V + 1]
    BY <1>2, AtKeeps DEF DoneLook
  <2>4. TypeOK'
    BY <2>1, <2>2, <2>3
  <2>5. stopped' = stopped \/ (stopped /\ ~stopped' /\ ring <= N - Low)
    BY <1>2 DEF DoneLook, Free
  <2>6. Room' /\ NeverFull'
    BY <2>1, <2>2, <2>5
  <2>7. QED
    BY <2>4, <2>6
<1>3. CASE DoneWake
  <2>1. vstopped' \in [Vnds -> BOOLEAN]
    BY <1>3 DEF DoneWake, Vnds
  <2>2. at' \in [xmit : 1 .. V + 1, done : 1 .. V + 1]
    BY <1>3, AtKeeps DEF DoneWake
  <2>3. TypeOK'
    <3>1. pc' \in [xmit : {"idle", "stop", "queue"}, done : {"idle", "look", "wake"}]
      BY <1>3 DEF DoneWake
    <3>2. UNCHANGED <<ring, stopped, backlog, want, dropped, vpc, up, budget>>
      BY <1>3 DEF DoneWake
    <3>3. missed' \subseteq Vnds
      BY <1>3 DEF DoneWake
    <3>4. QED
      BY <2>1, <2>2, <3>1, <3>2, <3>3
  <2>4. Room'
    BY <1>3 DEF DoneWake, Vnds
  <2>5. NeverFull'
    BY <1>3 DEF DoneWake, Vnds
  <2>6. QED
    BY <2>3, <2>4, <2>5
<1>4. QED
  BY <1>1, <1>2, <1>3 DEF Done

\* An acknowledgement joins the queue; a restart uses up one of the descriptors kept for restarts.
LEMMA OutsideKeeps ==
  ASSUME IInv, SendAck \/ Down \/ Open
  PROVE  IInv'
<1> USE Consts DEF IInv, TypeOK, Room, NeverFull, Restarted
<1>1. CASE SendAck
  <2>1. /\ UNCHANGED <<ring, stopped, vstopped, want, dropped, pc, vpc, at, up, missed>>
        /\ backlog' = backlog + 1 /\ budget' \in [ack : Nat, restart : Nat]
        /\ budget'.restart = budget.restart
    BY <1>1 DEF SendAck, queues
  <2>2. QED
    BY <2>1
<1>2. CASE Down
  <2>1. /\ UNCHANGED <<ring, stopped, vstopped, want, dropped, pc, vpc, at, missed>>
        /\ up = TRUE /\ up' = FALSE /\ backlog' = 0 /\ pc.xmit = "idle"
        /\ budget' \in [ack : Nat, restart : Nat]
        /\ budget'.restart = budget.restart - 1
    BY <1>2 DEF Down, queues
  <2>2. TypeOK'
    BY <2>1
  <2>3. Restarted' = Restarted + 1 /\ budget'.restart <= Restarts
    BY <2>1
  <2>4. Room' /\ NeverFull'
    BY <2>1, <2>3
  <2>5. QED
    BY <2>2, <2>4
<1>3. CASE Open
  BY <1>3 DEF Open
<1>4. QED
  BY <1>1, <1>2, <1>3

\* Every step keeps the invariant.
LEMMA StepKeeps == IInv /\ [Next]_vars => IInv'
<1> SUFFICES ASSUME IInv, [Next]_vars PROVE IInv'
  OBVIOUS
<1>1. CASE UNCHANGED vars
  BY <1>1 DEF vars, queues, IInv, TypeOK, Room, NeverFull, Restarted
<1>2. CASE Next
  BY <1>2, VndKeeps, XmitKeeps, DoneKeeps, OutsideKeeps DEF Next
<1>3. QED
  BY <1>1, <1>2

\* Every variable of the transmit side keeps its type: ring and loop indices stay in range,
\* counts do not go below zero (mhi_netdev_xmit, mhi_netdev_xfer_ul_cb).
THEOREM TypeCorrect == Spec => []TypeOK
<1>1. IInv => TypeOK
  BY DEF IInv
<1>2. QED
  BY <1>1, InitInv, StepKeeps, PTL DEF Spec

\* mhi_netdev_xmit never hands mhi_queue_transfer a packet that does not fit.
THEOREM RingNeverFull == Spec => []NeverFull
<1>1. IInv => NeverFull
  BY DEF IInv
<1>2. QED
  BY <1>1, InitInv, StepKeeps, PTL DEF Spec

-----------------------------------------------------------------------------
(* Frames: how the modem lays them out.                                    *)

\* The header of a packet, in the format of the device, and where the first one is.
HeaderOf(p, offset) == IF format = "mbim" THEN MbimHeader(p, offset) ELSE QmiHeader(p, offset)
First == IF format = "mbim" THEN MbimHdr ELSE 0
Headers == {HeaderOf(p, offset) : p \in FramePackets, offset \in Nat}

Config ==
  /\ format \in {"qmap1", "qmap5", "mbim"} /\ minpad \in Nat
  /\ nets \subseteq Muxes /\ (format = "mbim" => nets = Muxes)

FrameTypes ==
  /\ meant \in Seq(FramePackets) /\ skb \in [len : Int, hdrs : Seq(Headers)]
  /\ Len(skb.hdrs) = Len(meant)
  /\ phase \in {"idle", "lay", "parse", "flush", "done", "wild"}
  /\ phase = "idle" <=> meant = <<>>

\* Each header is that of its packet, and begins where the one before it ends.
Offset(k) == skb.hdrs[k].offset
End(k)    == HeaderEnd(skb.hdrs[k])
Laid ==
  /\ \A k \in 1 .. Len(meant) : Offset(k) \in Nat /\ skb.hdrs[k] = HeaderOf(meant[k], Offset(k))
  /\ format = "mbim" => \A k \in 1 .. Len(meant) : meant[k] \in Datagrams
  /\ meant # <<>> => Offset(1) = First
  /\ \A k \in 1 .. Len(meant) : k > 1 => Offset(k) = End(k - 1)
  /\ \A i, j \in 1 .. Len(meant) : i < j => Offset(i) < Offset(j)

\* The frame ends with its last packet, of which the last byte may be missing.
FrameEnd == IF meant = <<>> THEN 0 ELSE End(Len(meant))
Whole ==
  /\ phase \in {"idle", "lay"} => skb.len = FrameEnd
  /\ phase \notin {"idle", "lay"} => skb.len \in {FrameEnd, FrameEnd - 1}

LayInv == Config /\ FrameTypes /\ Laid /\ Whole

\* The assumption, constant by constant.
LEMMA FrameConsts ==
  /\ QmapMode \in Nat /\ QmapMode >= 2 /\ Base \in Nat /\ Mtu \in Nat /\ RxMax \in Nat /\ MaxLen \in Nat /\ Fails \in Nat
  /\ Sizes \subseteq Nat \ {0}
BY FrameAssumption DEF FrameAssumption

\* Padding makes a packet a multiple of four bytes long (add_qhdr, the alignment of QMAP).
LEMMA PadBounds ==
  ASSUME NEW n \in Nat
  PROVE  PadTo4(n) \in 0 .. 3 /\ (n >= 1 => n + PadTo4(n) >= 4)
BY DEF PadTo4

\* What a packet can be.
LEMMA PacketTypes ==
  \A p \in FramePackets :
    /\ p.mux \in 0 .. QmapMode + 1 /\ p.data \in Nat /\ p.data >= 1
    /\ p.what \in {"ip", "on", "off", "junk", "other"}
<1> SUFFICES ASSUME NEW p \in FramePackets
             PROVE  /\ p.mux \in 0 .. QmapMode + 1 /\ p.data \in Nat /\ p.data >= 1
                    /\ p.what \in {"ip", "on", "off", "junk", "other"}
  OBVIOUS
<1>1. CASE p \in [mux : Muxes, what : {"ip"}, data : Sizes]
  <2>1. p.mux \in 1 .. QmapMode /\ p.data \in Sizes /\ p.what = "ip"
    BY <1>1 DEF Muxes
  <2>2. p.data \in Nat /\ p.data >= 1
    <3>1. p.data \in Nat \ {0}
      BY <2>1, FrameConsts
    <3>2. QED
      BY <3>1
  <2>3. 1 .. QmapMode \subseteq 0 .. QmapMode + 1
    BY FrameConsts
  <2>4. QED
    BY <2>1, <2>2, <2>3
<1>2. CASE p \in [mux : 1 .. QmapMode + 1, what : {"on", "off"}, data : {4}]
  BY <1>2, FrameConsts
<1>3. CASE p \in [mux : {0, QmapMode + 1}, what : {"ip"}, data : {4}]
  BY <1>3, FrameConsts
<1>4. CASE p \in [mux : {1}, what : {"junk", "other"}, data : {4}]
  BY <1>4, FrameConsts
<1>5. QED
  BY <1>1, <1>2, <1>3, <1>4 DEF FramePackets

\* A header and its packet take more than the QMAP header alone, and a datagram is not empty.
LEMMA SizeOf ==
  ASSUME Config, NEW p \in FramePackets, NEW o \in Nat
  PROVE  /\ HeaderOf(p, o).offset = o
         /\ HeaderEnd(HeaderOf(p, o)) \in Nat
         /\ HeaderEnd(HeaderOf(p, o)) >= o + (IF format = "mbim" THEN 1 ELSE 8)
<1>1. p.data \in Nat /\ p.data >= 1
  BY PacketTypes
<1>2. CASE format = "mbim"
  BY <1>1, <1>2 DEF HeaderOf, HeaderEnd, MbimHeader, MbimEnd
<1>3. CASE format # "mbim"
  <2>1. PadTo4(p.data) \in 0 .. 3 /\ p.data + PadTo4(p.data) >= 4
    BY <1>1, PadBounds
  <2>2. minpad \in Nat
    BY DEF Config
  <2> DEFINE h == QmiHeader(p, o)
  <2>3. h.offset = o /\ h.pkt_len = p.data + PadTo4(p.data) + minpad
    BY DEF QmiHeader
  <2>4. HdrSize(h) \in {4, 8}
    BY DEF HdrSize, Qhdr, V5hdr
  <2> HIDE DEF h
  <2>5. QmiEnd(h) \in Nat /\ QmiEnd(h) >= o + 8
    BY <1>1, <2>1, <2>2, <2>3, <2>4 DEF QmiEnd
  <2>6. HeaderOf(p, o) = h /\ HeaderEnd(h) = QmiEnd(h)
    BY <1>3 DEF HeaderOf, HeaderEnd, h
  <2>7. QED
    BY <1>3, <2>3, <2>5, <2>6
<1>4. QED
  BY <1>2, <1>3

\* Each packet of a frame ends behind its offset.
LEMMA EndOf ==
  ASSUME Config, FrameTypes, Laid, NEW k \in 1 .. Len(meant)
  PROVE  /\ meant[k] \in FramePackets
         /\ End(k) \in Nat /\ End(k) >= Offset(k) + (IF format = "mbim" THEN 1 ELSE 8)
<1>1. meant[k] \in FramePackets
  BY ElementOfSeq DEF FrameTypes
<1>2. Offset(k) \in Nat /\ skb.hdrs[k] = HeaderOf(meant[k], Offset(k))
  BY DEF Laid
<1>3. QED
  BY <1>1, <1>2, SizeOf DEF End

\* A device that has not received anything.
LEMMA LayStarts == FrameInit => LayInv
<1> SUFFICES ASSUME FrameInit PROVE LayInv
  OBVIOUS
<1>1. meant = <<>> /\ skb = [len |-> 0, hdrs |-> <<>>] /\ phase = "idle"
  BY DEF FrameInit, NoFrame
<1>2. meant \in Seq(FramePackets) /\ skb.hdrs \in Seq(Headers) /\ Len(meant) = 0 /\ Len(skb.hdrs) = 0
  BY <1>1, EmptySeq
<1>3. Config
  BY DEF FrameInit, Config
<1>4. FrameTypes
  BY <1>1, <1>2 DEF FrameTypes
<1>5. Laid
  BY <1>1, <1>2 DEF Laid
<1>6. Whole
  BY <1>1 DEF Whole, FrameEnd
<1>7. QED
  BY <1>3, <1>4, <1>5, <1>6 DEF LayInv

\* The modem lays one more packet behind the others.
LEMMA LayLays == LayInv /\ Lay => LayInv'
<1> SUFFICES ASSUME LayInv, Lay PROVE LayInv'
  OBVIOUS
<1> USE DEF LayInv
<1> DEFINE n == Len(meant)
<1> DEFINE start == IF format = "mbim" /\ meant = <<>> THEN MbimHdr ELSE skb.len
<1>1. phase \in {"idle", "lay"} /\ phase' = "lay" /\ format' = format /\ minpad' = minpad /\ nets' = nets
  BY DEF Lay, config
<1>2. \E p \in FramePackets :
        /\ format = "mbim" => p \in Datagrams
        /\ meant' = Append(meant, p)
        /\ skb' = [len |-> HeaderEnd(HeaderOf(p, start)), hdrs |-> Append(skb.hdrs, HeaderOf(p, start))]
  BY DEF Lay, HeaderOf, Datagrams
<1>3. PICK p \in FramePackets :
        /\ format = "mbim" => p \in Datagrams
        /\ meant' = Append(meant, p)
        /\ skb' = [len |-> HeaderEnd(HeaderOf(p, start)), hdrs |-> Append(skb.hdrs, HeaderOf(p, start))]
  BY <1>2
<1>4. /\ meant \in Seq(FramePackets) /\ skb.hdrs \in Seq(Headers)
      /\ n \in Nat /\ Len(skb.hdrs) = n /\ (meant = <<>> <=> n = 0)
  BY EmptySeq, LenProperties DEF FrameTypes
<1>5. \A k \in 1 .. n : Offset(k) \in Nat /\ End(k) \in Nat /\ End(k) > Offset(k)
  <2> TAKE k \in 1 .. n
  <2>1. Offset(k) \in Nat
    BY DEF Laid
  <2>2. End(k) \in Nat /\ End(k) >= Offset(k) + (IF format = "mbim" THEN 1 ELSE 8)
    BY EndOf
  <2>3. QED
    BY <2>1, <2>2
<1>6. skb.len = FrameEnd
  BY <1>1 DEF Whole
<1>7. start \in Nat /\ (n = 0 => start = First) /\ (n > 0 => start = End(n))
  <2>1. CASE n = 0
    BY <1>4, <1>6, <2>1 DEF FrameEnd, First, MbimHdr
  <2>2. CASE n > 0
    <3>1. start = End(n) /\ n \in 1 .. n
      BY <1>4, <1>6, <2>2 DEF FrameEnd
    <3>2. QED
      BY <1>5, <2>2, <3>1
  <2>3. QED
    BY <1>4, <2>1, <2>2
<1>8. \A i \in 1 .. n : Offset(i) < start
  <2> TAKE i \in 1 .. n
  <2>1. n \in 1 .. n /\ start = End(n) /\ End(n) > Offset(n) /\ Offset(n) \in Nat /\ Offset(i) \in Nat /\ End(n) \in Nat
    BY <1>4, <1>5, <1>7
  <2>2. i < n => Offset(i) < Offset(n)
    BY <1>4, <2>1 DEF Laid
  <2>3. i = n \/ i < n
    BY <1>4
  <2>4. QED
    BY <2>1, <2>2, <2>3
<1> HIDE DEF start
<1> DEFINE h == HeaderOf(p, start)
<1>9. h \in Headers /\ h.offset = start /\ HeaderEnd(h) \in Nat
  BY <1>7, SizeOf DEF Headers
<1> HIDE DEF h
<1>10. meant' = Append(meant, p) /\ skb' = [len |-> HeaderEnd(h), hdrs |-> Append(skb.hdrs, h)]
  BY <1>3 DEF h
<1>11. /\ meant' \in Seq(FramePackets) /\ Len(meant') = n + 1 /\ meant'[n + 1] = p
       /\ \A k \in 1 .. n : meant'[k] = meant[k]
  BY <1>4, <1>10, AppendProperties
<1>12. /\ skb'.hdrs = Append(skb.hdrs, h) /\ skb'.len = HeaderEnd(h)
       /\ skb' \in [len : Int, hdrs : Seq(Headers)]
  BY <1>4, <1>9, <1>10, AppendProperties
<1>13. /\ Len(skb'.hdrs) = n + 1 /\ skb'.hdrs[n + 1] = h
       /\ \A k \in 1 .. n : skb'.hdrs[k] = skb.hdrs[k]
  BY <1>4, <1>9, <1>12, AppendProperties
<1>14. \A k \in 1 .. n : Offset(k)' = Offset(k) /\ End(k)' = End(k)
  BY <1>1, <1>13 DEF Offset, End, HeaderEnd, MbimEnd, QmiEnd
<1>15. PICK m : m = n + 1
  OBVIOUS
<1>16. Offset(m)' = start /\ End(m)' = HeaderEnd(h)
  <2>1. Offset(m)' = skb'.hdrs[m].offset /\ End(m)' = HeaderEnd(skb'.hdrs[m])
    BY <1>1 DEF Offset, End, HeaderEnd, MbimEnd, QmiEnd
  <2>2. QED
    BY <1>9, <1>13, <1>15, <2>1
<1>17. \A q, o : HeaderOf(q, o)' = HeaderOf(q, o)
  BY <1>1 DEF HeaderOf, MbimHeader, QmiHeader
<1>18. Config'
  BY <1>1 DEF Config
<1>19. FrameTypes'
  <2>1. Len(meant') # 0
    BY <1>4, <1>11
  <2>2. meant' # <<>>
    BY <2>1, EmptySeq
  <2>3. Headers' = Headers
    BY <1>17 DEF Headers
  <2>4. QED
    BY <1>1, <1>11, <1>12, <1>13, <2>2, <2>3 DEF FrameTypes
<1>20. Laid'
  <2>1. \A k \in 1 .. m : k = m \/ k \in 1 .. n
    BY <1>4, <1>15
  <2>2. Len(meant') = m
    BY <1>11, <1>15
  <2>3. \A k \in 1 .. m : Offset(k)' \in Nat /\ skb'.hdrs[k] = HeaderOf(meant'[k], Offset(k)')
    <3> TAKE k \in 1 .. m
    <3>1. CASE k = m
      <4>1. skb'.hdrs[k] = h /\ meant'[k] = p /\ Offset(k)' = start
        BY <1>11, <1>13, <1>15, <1>16, <3>1
      <4>2. QED
        BY <1>7, <1>17, <4>1 DEF h
    <3>2. CASE k \in 1 .. n
      <4>1. skb'.hdrs[k] = skb.hdrs[k] /\ meant'[k] = meant[k] /\ Offset(k)' = Offset(k)
        BY <1>11, <1>13, <1>14, <3>2
      <4>2. Offset(k) \in Nat /\ skb.hdrs[k] = HeaderOf(meant[k], Offset(k))
        BY <3>2 DEF Laid
      <4>3. QED
        BY <1>17, <4>1, <4>2
    <3>3. QED
      BY <2>1, <3>1, <3>2
  <2>4. format = "mbim" => \A k \in 1 .. m : meant'[k] \in Datagrams
    BY <1>3, <1>11, <1>15, <2>1 DEF Laid
  <2>5. Offset(1)' = First
    <3>1. CASE n = 0
      BY <1>7, <1>15, <1>16, <3>1
    <3>2. CASE n > 0
      BY <1>4, <1>14, <3>2 DEF Laid
    <3>3. QED
      BY <1>4, <3>1, <3>2
  <2>6. \A k \in 1 .. m : k > 1 => Offset(k)' = End(k - 1)'
    <3> SUFFICES ASSUME NEW k \in 1 .. m, k > 1 PROVE Offset(k)' = End(k - 1)'
      OBVIOUS
    <3>0. k - 1 \in 1 .. n
      BY <1>4, <1>15
    <3>1. CASE k = m
      <4>1. k - 1 = n /\ n > 0
        BY <1>4, <1>15, <3>0, <3>1
      <4>2. QED
        BY <1>7, <1>14, <1>16, <3>0, <3>1, <4>1
    <3>2. CASE k \in 1 .. n
      <4>1. Offset(k) = End(k - 1)
        BY <3>2 DEF Laid
      <4>2. QED
        BY <1>14, <3>0, <3>2, <4>1
    <3>3. QED
      BY <2>1, <3>1, <3>2
  <2>7. \A i, j \in 1 .. m : i < j => Offset(i)' < Offset(j)'
    <3> SUFFICES ASSUME NEW i \in 1 .. m, NEW j \in 1 .. m, i < j PROVE Offset(i)' < Offset(j)'
      OBVIOUS
    <3>1. i \in 1 .. n
      BY <1>4, <1>15
    <3>2. CASE j = m
      BY <1>8, <1>14, <1>16, <3>1, <3>2
    <3>3. CASE j \in 1 .. n
      <4>1. Offset(i) < Offset(j)
        BY <3>1, <3>3 DEF Laid
      <4>2. QED
        BY <1>14, <3>1, <3>3, <4>1
    <3>4. QED
      BY <2>1, <3>2, <3>3
  <2>8. First' = First /\ format' = format /\ Datagrams' = Datagrams
    BY <1>1 DEF First, Datagrams, FramePackets
  <2>9. (\A k \in 1 .. Len(meant) : Offset(k) \in Nat /\ skb.hdrs[k] = HeaderOf(meant[k], Offset(k)))'
    BY <1>1, <2>2, <2>3 DEF HeaderOf, MbimHeader, QmiHeader
  <2>10. QED
    BY <2>2, <2>4, <2>5, <2>6, <2>7, <2>8, <2>9 DEF Laid
<1>21. Whole'
  <2>1. FrameEnd' = End(m)'
    <3>1. Len(meant') = m /\ m # 0
      BY <1>4, <1>11, <1>15
    <3>2. meant' # <<>>
      BY <3>1, EmptySeq
    <3>3. FrameEnd' = HeaderEnd(skb.hdrs[m])'
      BY <3>1, <3>2 DEF FrameEnd, End
    <3>4. QED
      BY <3>3 DEF End
  <2>2. QED
    BY <1>1, <1>12, <1>16, <2>1 DEF Whole
<1>22. QED
  BY <1>18, <1>19, <1>20, <1>21

\* Nothing but the receive handler moves on while a frame is taken apart.
LEMMA LayStays ==
  /\ LayInv /\ UNCHANGED <<config, input>> /\ phase \in {"parse", "flush"} /\ phase' \in {"parse", "flush", "done", "wild"}
     => LayInv'
  /\ LayInv /\ UNCHANGED <<config, input, phase>> => LayInv'
<1>1. UNCHANGED <<config, input>> =>
        /\ UNCHANGED <<format, minpad, nets, meant, skb>> /\ Config' = Config
        /\ Headers' = Headers /\ FrameEnd' = FrameEnd /\ Laid' = Laid
  <2> SUFFICES ASSUME UNCHANGED <<config, input>>
               PROVE  /\ UNCHANGED <<format, minpad, nets, meant, skb>> /\ Config' = Config
                      /\ Headers' = Headers /\ FrameEnd' = FrameEnd /\ Laid' = Laid
    OBVIOUS
  <2>1. UNCHANGED <<format, minpad, nets, meant, skb>>
    BY DEF config, input
  <2>2. Config' = Config
    BY <2>1 DEF Config
  <2>3. Headers' = Headers /\ FrameEnd' = FrameEnd
    BY <2>1 DEF Headers, HeaderOf, MbimHeader, QmiHeader, FrameEnd, End, HeaderEnd, MbimEnd, QmiEnd
  <2>4. Laid' = Laid
    BY <2>1 DEF Laid, Offset, End, HeaderEnd, MbimEnd, QmiEnd, HeaderOf, MbimHeader, QmiHeader, First,
                Datagrams
  <2>5. QED
    BY <2>1, <2>2, <2>3, <2>4
<1>2. LayInv /\ UNCHANGED <<config, input>> /\ phase \in {"parse", "flush"} /\ phase' \in {"parse", "flush", "done", "wild"}
      => LayInv'
  <2> SUFFICES ASSUME LayInv, UNCHANGED <<config, input>>, phase \in {"parse", "flush"},
                      phase' \in {"parse", "flush", "done", "wild"}
               PROVE  LayInv'
    OBVIOUS
  <2>1. FrameTypes'
    BY <1>1 DEF LayInv, FrameTypes
  <2>2. Whole'
    BY <1>1 DEF LayInv, Whole
  <2>3. QED
    BY <1>1, <2>1, <2>2 DEF LayInv
<1>3. LayInv /\ UNCHANGED <<config, input, phase>> => LayInv'
  BY <1>1 DEF LayInv, FrameTypes, Whole
<1>4. QED
  BY <1>2, <1>3

\* The frame arrives, or is released.
LEMMA LayMoves == LayInv /\ (Receive \/ Release) => LayInv'
<1>1. ASSUME LayInv, Receive PROVE LayInv'
  <2>1. PICK cut \in 0 .. 1 : skb' = [skb EXCEPT !.len = @ - cut]
    BY <1>1 DEF Receive
  <2>2. phase = "lay" /\ phase' = "parse" /\ UNCHANGED <<format, minpad, nets, meant>>
    BY <1>1 DEF Receive, config
  <2>3. skb \in [len : Int, hdrs : Seq(Headers)] /\ skb.len = FrameEnd
    BY <1>1, <2>2 DEF LayInv, FrameTypes, Whole
  <2>4. skb' \in [len : Int, hdrs : Seq(Headers)] /\ skb'.hdrs = skb.hdrs /\ skb'.len = skb.len - cut
    BY <2>1, <2>3
  <2>5. Config' /\ Headers' = Headers /\ FrameEnd' = FrameEnd
    BY <1>1, <2>2, <2>4 DEF LayInv, Config, Headers, HeaderOf, MbimHeader, QmiHeader, FrameEnd, End,
                            HeaderEnd, MbimEnd, QmiEnd
  <2>6. Laid'
    BY <1>1, <2>2, <2>4 DEF LayInv, Laid, Offset, End, HeaderEnd, MbimEnd, QmiEnd, HeaderOf, MbimHeader,
                            QmiHeader, First, Datagrams
  <2>7. FrameTypes'
    BY <1>1, <2>2, <2>4, <2>5 DEF LayInv, FrameTypes
  <2>8. skb'.len \in {FrameEnd, FrameEnd - 1}
    <3>1. FrameEnd \in Int
      BY <2>3
    <3>2. cut = 0 \/ cut = 1
      BY <2>1
    <3>3. QED
      BY <2>3, <2>4, <3>1, <3>2
  <2>9. Whole'
    BY <2>2, <2>5, <2>8 DEF Whole
  <2>10. QED
    BY <2>5, <2>6, <2>7, <2>9 DEF LayInv
<1>2. ASSUME LayInv, Release PROVE LayInv'
  <2>1. meant' = <<>> /\ skb' = [len |-> 0, hdrs |-> <<>>] /\ phase' = "idle" /\ UNCHANGED <<format, minpad, nets>>
    BY <1>2 DEF Release, config, NoFrame
  <2>2. /\ meant' \in Seq(FramePackets) /\ skb'.hdrs \in Seq(Headers') /\ Len(meant') = 0
        /\ Len(skb'.hdrs) = 0 /\ skb' \in [len : Int, hdrs : Seq(Headers')]
    BY <2>1, EmptySeq
  <2>3. Config'
    BY <1>2, <2>1 DEF LayInv, Config
  <2>4. FrameTypes'
    BY <2>1, <2>2 DEF FrameTypes
  <2>5. Laid'
    BY <2>1, <2>2 DEF Laid
  <2>6. Whole'
    BY <2>1 DEF Whole, FrameEnd
  <2>7. QED
    BY <2>3, <2>4, <2>5, <2>6 DEF LayInv
<1>3. QED
  BY <1>1, <1>2

-----------------------------------------------------------------------------
(* Frames: how far the receive handler is.                                 *)

\* Of the first k packets: data, orders, and what the orders ask for.
DataTo(k)   == {i \in 1 .. k : IsData(meant[i])}
OrdersTo(k) == {i \in 1 .. k : IsOrder(meant[i])}
OrderedTo(k) ==
  {v \in Muxes :
     \/ \E i \in OrdersTo(k) : /\ meant[i].mux = v /\ meant[i].what = "on"
                              /\ \A j \in OrdersTo(k) : j > i => meant[j].mux # v
     \/ (v \in before /\ \A i \in OrdersTo(k) : meant[i].mux # v)}

DataItems == [vnd : Muxes, len : Nat]
AckItems  == [mux : Muxes, what : {"on", "off"}]

\* k packets were taken out, none of which ended the frame.
Progress(k) ==
  /\ \A i \in 1 .. k : ~Ends(i)
  /\ Lists(given \o chain, DataTo(k), DataItem)
  /\ ~short => Lists(answered, OrdersTo(k), OrderItem)
  /\ flow = OrderedTo(k)

\* Where the handler reads on.
Place(k) == IF format = "mbim" THEN k + 1 ELSE IF k = 0 THEN 0 ELSE End(k)

OutputTypes ==
  /\ chain \in Seq(DataItems) /\ given \in Seq(DataItems) /\ answered \in Seq(AckItems)
  /\ flow \subseteq Muxes /\ before \subseteq Muxes /\ short \in BOOLEAN

Empty     == chain = <<>> /\ given = <<>> /\ answered = <<>> /\ short = FALSE
Parsing   == \E k \in 0 .. Len(meant) : pulled = Place(k) /\ Progress(k)
HandingOn == \E k \in 0 .. Len(meant) : Progress(k) /\ (short \/ k = Len(meant) \/ Ends(k + 1))
ParseInv ==
  /\ phase \in {"idle", "lay"} => Empty
  /\ phase = "parse" => Parsing
  /\ phase \in {"flush", "done"} => HandingOn
  /\ phase = "done" => chain = <<>>
  /\ phase = "wild" => OffTable

FrameInv == LayInv /\ OutputTypes /\ ParseInv

\* Lists of items: the empty one, and one with an item more.
LEMMA ListsNothing == ASSUME NEW item PROVE Lists(<<>>, {}, item)
<1>1. DOMAIN <<>> = {}
  OBVIOUS
<1> DEFINE f == [i \in {} |-> 0]
<1>2. f \in [DOMAIN <<>> -> {}]
  BY <1>1
<1>3. QED
  BY <1>1, <1>2 DEF Lists

LEMMA ListsOneMore ==
  ASSUME NEW S, NEW s \in Seq(S), NEW e \in S, NEW ks \in SUBSET Int, NEW k \in Int, NEW item,
         \A i \in ks : i < k, item[k] = e, Lists(s, ks, item)
  PROVE  Lists(Append(s, e), ks \cup {k}, item)
<1> DEFINE n == Len(s)
<1> DEFINE t == Append(s, e)
<1>1. /\ n \in Nat /\ DOMAIN s = 1 .. n /\ t \in Seq(S) /\ Len(t) = n + 1 /\ t[n + 1] = e
      /\ \A i \in 1 .. n : t[i] = s[i]
  BY AppendProperties, LenProperties
<1>2. DOMAIN t = 1 .. n + 1
  BY <1>1, LenProperties
<1> HIDE DEF n, t
<1>3. PICK f \in [DOMAIN s -> ks] :
        /\ \A i, j \in DOMAIN s : i < j => f[i] < f[j]
        /\ \A l \in ks : \E i \in DOMAIN s : f[i] = l
        /\ \A i \in DOMAIN s : s[i] = item[f[i]]
  BY DEF Lists
<1>4. /\ \A i, j \in 1 .. n : i < j => f[i] < f[j]
      /\ \A l \in ks : \E i \in 1 .. n : f[i] = l
      /\ \A i \in 1 .. n : s[i] = item[f[i]]
  BY <1>1, <1>3, Zenon
<1>5. \A i \in 1 .. n : f[i] \in ks /\ f[i] < k
  BY <1>1, <1>3
<1> DEFINE g == [i \in 1 .. n + 1 |-> IF i = n + 1 THEN k ELSE f[i]]
<1>6. g \in [1 .. n + 1 -> ks \cup {k}] /\ g[n + 1] = k /\ \A i \in 1 .. n : g[i] = f[i]
  <2>1. \A i \in 1 .. n : i \in 1 .. n + 1 /\ i # n + 1
    BY <1>1
  <2>2. n + 1 \in 1 .. n + 1 /\ \A i \in 1 .. n + 1 : i = n + 1 \/ i \in 1 .. n
    BY <1>1
  <2>3. g[n + 1] = k /\ \A i \in 1 .. n : g[i] = f[i]
    BY <2>1, <2>2
  <2>4. \A i \in 1 .. n + 1 : g[i] \in ks \cup {k}
    BY <1>5, <2>2, <2>3
  <2>5. QED
    BY <2>3, <2>4
<1>7. \A i \in 1 .. n + 1 : i \in 1 .. n \/ i = n + 1
  BY <1>1
<1> HIDE DEF g
<1>8. \A i, j \in 1 .. n + 1 : i < j => g[i] < g[j]
  <2> SUFFICES ASSUME NEW i \in 1 .. n + 1, NEW j \in 1 .. n + 1, i < j PROVE g[i] < g[j]
    OBVIOUS
  <2>1. i \in 1 .. n
    BY <1>1
  <2>2. QED
    BY <1>4, <1>5, <1>6, <1>7, <2>1
<1>9. \A l \in ks \cup {k} : \E i \in 1 .. n + 1 : g[i] = l
  <2> TAKE l \in ks \cup {k}
  <2>1. 1 .. n \subseteq 1 .. n + 1 /\ n + 1 \in 1 .. n + 1
    BY <1>1
  <2>2. CASE l \in ks
    BY <1>4, <1>6, <2>1, <2>2
  <2>3. CASE l = k
    BY <1>6, <2>1, <2>3
  <2>4. QED
    BY <2>2, <2>3
<1>10. \A i \in 1 .. n + 1 : t[i] = item[g[i]]
  BY <1>1, <1>4, <1>6, <1>7
<1>11. Lists(t, ks \cup {k}, item)
  <2>1. /\ g \in [DOMAIN t -> ks \cup {k}] /\ \A i, j \in DOMAIN t : i < j => g[i] < g[j]
        /\ \A l \in ks \cup {k} : \E i \in DOMAIN t : g[i] = l
        /\ \A i \in DOMAIN t : t[i] = item[g[i]]
    BY <1>2, <1>6, <1>8, <1>9, <1>10, Zenon
  <2>2. QED
    BY <2>1, Zenon DEF Lists
<1>12. QED
  BY <1>11 DEF t

\* One packet more.
LEMMA OneMore ==
  ASSUME NEW k \in Nat
  PROVE  /\ DataTo(k + 1) = DataTo(k) \cup (IF IsData(meant[k + 1]) THEN {k + 1} ELSE {})
         /\ OrdersTo(k + 1) = OrdersTo(k) \cup (IF IsOrder(meant[k + 1]) THEN {k + 1} ELSE {})
         /\ DataTo(k) \in SUBSET Int /\ \A i \in DataTo(k) : i < k + 1
         /\ OrdersTo(k) \in SUBSET Int /\ \A i \in OrdersTo(k) : i < k + 1
<1>1. \A i : i \in 1 .. k + 1 <=> (i \in 1 .. k \/ i = k + 1)
  OBVIOUS
<1>2. DataTo(k + 1) = DataTo(k) \cup (IF IsData(meant[k + 1]) THEN {k + 1} ELSE {})
  BY <1>1 DEF DataTo
<1>3. OrdersTo(k + 1) = OrdersTo(k) \cup (IF IsOrder(meant[k + 1]) THEN {k + 1} ELSE {})
  BY <1>1 DEF OrdersTo
<1>4. DataTo(k) \subseteq 1 .. k /\ OrdersTo(k) \subseteq 1 .. k
  BY DEF DataTo, OrdersTo
<1>5. \A i \in 1 .. k : i \in Int /\ i < k + 1
  OBVIOUS
<1>6. QED
  BY <1>2, <1>3, <1>4, <1>5

\* The last order for a device counts: what flow_control is after one order more.
LEMMA OneOrderMore ==
  ASSUME NEW k \in Nat
  PROVE  /\ ~IsOrder(meant[k + 1]) => OrderedTo(k + 1) = OrderedTo(k)
         /\ IsOrder(meant[k + 1]) /\ meant[k + 1].mux \in Muxes =>
              /\ meant[k + 1].what = "on" => OrderedTo(k + 1) = OrderedTo(k) \cup {meant[k + 1].mux}
              /\ meant[k + 1].what # "on" => OrderedTo(k + 1) = OrderedTo(k) \ {meant[k + 1].mux}
<1> DEFINE p == meant[k + 1]
<1> DEFINE Says(v, j, ks) ==
      meant[j].mux = v /\ meant[j].what = "on" /\ \A i \in ks : i > j => meant[i].mux # v
<1>1. \A l : OrderedTo(l) =
        {v \in Muxes : \/ \E j \in OrdersTo(l) : Says(v, j, OrdersTo(l))
                      \/ (v \in before /\ \A i \in OrdersTo(l) : meant[i].mux # v)}
  BY DEF OrderedTo
<1>2. CASE ~IsOrder(p)
  <2>1. OrdersTo(k + 1) = OrdersTo(k)
    BY <1>2, OneMore
  <2>2. QED
    BY <1>2, <2>1 DEF OrderedTo
<1>3. CASE IsOrder(p)
  <2>1. OrdersTo(k + 1) = OrdersTo(k) \cup {k + 1} /\ \A i \in OrdersTo(k) : i \in Int /\ i < k + 1
    BY <1>3, OneMore
  <2>2. \A v : p.mux = v => \A j \in OrdersTo(k) : ~Says(v, j, OrdersTo(k + 1))
    BY <2>1
  <2>3. \A v : p.mux # v => \A j \in OrdersTo(k) : Says(v, j, OrdersTo(k + 1)) <=> Says(v, j, OrdersTo(k))
    BY <2>1
  <2>4. \A v : Says(v, k + 1, OrdersTo(k + 1)) <=> (p.mux = v /\ p.what = "on")
    BY <2>1
  <2> HIDE DEF Says
  <2>5. \A v \in Muxes : v = p.mux => (v \in OrderedTo(k + 1) <=> p.what = "on")
    BY <1>1, <2>1, <2>2, <2>4
  <2>6. \A v \in Muxes : v # p.mux => (v \in OrderedTo(k + 1) <=> v \in OrderedTo(k))
    BY <1>1, <2>1, <2>3, <2>4
  <2>7. OrderedTo(k) \subseteq Muxes /\ OrderedTo(k + 1) \subseteq Muxes
    BY DEF OrderedTo
  <2>8. QED
    BY <1>3, <2>5, <2>6, <2>7
<1>4. QED
  BY <1>2, <1>3

\* What the QMAP handler finds where it reads on: the next packet, and it stops where that
\* packet ends the frame.
LEMMA QmiFinds ==
  ASSUME LayInv, phase = "parse", format # "mbim", NEW k \in 0 .. Len(meant), k < Len(meant), pulled = Place(k)
  PROVE  /\ Header.mux = meant[k + 1].mux /\ Header.what = meant[k + 1].what
         /\ QmiLen(Header) = meant[k + 1].data
         /\ pulled + Header.pkt_len + HdrSize(Header) = Place(k + 1)
         /\ Verdict(Header) = "stop" => Ends(k + 1)
         /\ Verdict(Header) # "stop" => ~Ends(k + 1)
         /\ Verdict(Header) = "skip" => ~Known(meant[k + 1])
         /\ Verdict(Header) \in {"command", "data"} => Known(meant[k + 1])
         /\ Verdict(Header) = "command" => meant[k + 1].what \in Commands
         /\ Verdict(Header) = "data" => meant[k + 1].what = "ip"
         /\ Verdict(Header) \in {"stop", "skip", "command", "data"}
<1> DEFINE n == Len(meant)
<1> DEFINE m == k + 1
<1> DEFINE h == skb.hdrs[m]
<1>1. n \in Nat /\ m \in 1 .. n /\ n \in 1 .. n /\ DOMAIN skb.hdrs = 1 .. n
  <2>1. n \in Nat /\ Len(skb.hdrs) = n /\ skb.hdrs \in Seq(Headers)
    BY LenProperties DEF LayInv, FrameTypes
  <2>2. QED
    BY <2>1, LenProperties
<1>2. \A i \in 1 .. n : Offset(i) \in Nat /\ End(i) \in Nat /\ End(i) >= Offset(i) + 8
  BY EndOf DEF LayInv, Laid
<1>3. \A i, j \in 1 .. n : i < j => Offset(i) < Offset(j)
  BY DEF LayInv, Laid
<1>4. pulled = Offset(m)
  <2>1. CASE k = 0
    <3>1. m = 1 /\ meant # <<>>
      BY <1>1, <2>1, EmptySeq
    <3>2. QED
      BY <2>1, <3>1 DEF Place, LayInv, Laid, First
  <2>2. CASE k # 0
    <3>1. m > 1 /\ k = m - 1
      BY <1>1, <2>2
    <3>2. Offset(m) = End(k)
      BY <1>1, <3>1 DEF LayInv, Laid
    <3>3. QED
      BY <2>2, <3>2 DEF Place
  <2>3. QED
    BY <2>1, <2>2
<1>5. Header = h
  <2>1. m \in DOMAIN skb.hdrs /\ skb.hdrs[m].offset = pulled
    BY <1>1, <1>4 DEF Offset
  <2>2. \A i \in DOMAIN skb.hdrs : skb.hdrs[i].offset = pulled => i = m
    <3>1. \A i \in 1 .. n : Offset(i) = pulled => i = m
      BY <1>1, <1>2, <1>3, <1>4
    <3>2. QED
      BY <1>1, <3>1 DEF Offset
  <2>3. QED
    BY <2>1, <2>2 DEF Header
<1>6. PICK p \in FramePackets : p = meant[m]
  BY <1>1, EndOf DEF LayInv
<1>7. PICK q : q = PadTo4(p.data)
  OBVIOUS
<1>8. /\ h = QmiHeader(p, pulled) /\ p.data \in Nat /\ p.data >= 1 /\ q \in 0 .. 3 /\ minpad \in Nat
      /\ p.mux \in 0 .. QmapMode + 1 /\ p.what \in {"ip", "on", "off", "junk", "other"}
  BY <1>1, <1>4, <1>6, <1>7, PacketTypes, PadBounds DEF LayInv, Laid, HeaderOf, Config
<1> HIDE DEF h
<1>9. /\ h.mux = p.mux /\ h.what = p.what /\ (h.cd <=> p.what \in Commands) /\ h.offset = pulled /\ h.pad = q
      /\ h.pkt_len = p.data + q + minpad /\ HdrSize(h) \in {4, 8} /\ QmiLen(h) = p.data
  <2>1. /\ h.mux = p.mux /\ h.what = p.what /\ h.offset = pulled /\ h.pad = q
        /\ h.pkt_len = p.data + q + minpad
    BY <1>7, <1>8 DEF QmiHeader
  <2>2. h.cd <=> p.what \in Commands
    BY <1>8, Zenon DEF QmiHeader
  <2>3. HdrSize(h) \in {4, 8}
    BY DEF HdrSize, Qhdr, V5hdr
  <2>4. QED
    BY <1>8, <2>1, <2>2, <2>3 DEF QmiLen
<1>10. pulled \in Nat /\ h.pkt_len \in Nat /\ HdrSize(h) \in Nat
  <2>1. pulled \in Nat
    BY <1>1, <1>2, <1>4
  <2>2. p.data + q + minpad \in Nat
    BY <1>8
  <2>3. QED
    BY <1>9, <2>1, <2>2
<1>11. End(m) = pulled + HdrSize(h) + h.pkt_len
  BY <1>9 DEF h, End, HeaderEnd, QmiEnd
<1>12. Place(m) = pulled + h.pkt_len + HdrSize(h)
  <2>1. Place(m) = End(m)
    BY <1>1 DEF Place
  <2>2. QED
    BY <1>11, <1>10, <2>1
<1>13. skb.len \in Int /\ skb.len >= End(n) - 1
  <2>1. FrameEnd = End(n)
    BY <1>1, EmptySeq DEF FrameEnd
  <2>2. skb.len \in {End(n), End(n) - 1}
    BY <2>1 DEF LayInv, Whole
  <2>3. QED
    BY <1>1, <1>2, <2>2
<1>14. Rest > Qhdr /\ Rest \in Int
  <2>1. Offset(n) >= pulled
    <3>1. m = n \/ m < n
      BY <1>1
    <3>2. Offset(m) \in Nat /\ Offset(n) \in Nat
      BY <1>1, <1>2
    <3>3. m < n => Offset(m) < Offset(n)
      BY <1>1, <1>3
    <3>4. QED
      BY <1>4, <3>1, <3>2, <3>3
  <2>2. End(n) >= pulled + 8 /\ End(n) \in Int /\ pulled \in Nat
    BY <1>1, <1>2, <1>4, <2>1
  <2>3. QED
    BY <1>13, <2>2 DEF Rest, Qhdr
<1>15. Rest < h.pkt_len + HdrSize(h) <=> HeaderEnd(skb.hdrs[m]) > skb.len
  <2>1. HeaderEnd(skb.hdrs[m]) = pulled + HdrSize(h) + h.pkt_len
    BY <1>11 DEF End
  <2>2. QED
    BY <1>13, <1>10, <2>1 DEF Rest
<1>16. Ends(m) <=> \/ p.mux \notin Muxes
                   \/ p.mux \in nets /\ (p.data > Mtu \/ p.what = "junk" \/ Rest < h.pkt_len + HdrSize(h))
  BY <1>6, <1>15 DEF Ends, Known, TooLong
<1>17. Verdict(h) =
         IF p.mux \notin Muxes THEN "stop"
         ELSE IF p.mux \notin nets THEN "skip"
         ELSE IF p.data > Mtu \/ Rest < h.pkt_len + HdrSize(h) THEN "stop"
         ELSE IF p.what \in Commands THEN "command" ELSE IF p.what = "junk" THEN "stop" ELSE "data"
  <2>1. ~(Rest <= Qhdr)
    BY <1>14 DEF Qhdr
  <2>2. QED
    BY <1>9, <2>1 DEF Verdict
<1> HIDE DEF m
<1>18. /\ Verdict(h) = "stop" => Ends(m)
       /\ Verdict(h) # "stop" => ~Ends(m)
       /\ Verdict(h) = "skip" => p.mux \notin nets
       /\ Verdict(h) \in {"command", "data"} => p.mux \in nets
       /\ Verdict(h) = "command" => p.what \in Commands
       /\ Verdict(h) = "data" => p.what = "ip"
       /\ Verdict(h) \in {"stop", "skip", "command", "data"}
  BY <1>8, <1>16, <1>17 DEF Commands
<1>19. QED
  BY <1>5, <1>6, <1>9, <1>12, <1>18 DEF m, Known

\* Behind the last packet the QMAP handler stops.
LEMMA QmiFinished ==
  ASSUME LayInv, phase = "parse", format # "mbim", pulled = Place(Len(meant))
  PROVE  Verdict(Header) = "stop"
<1> DEFINE n == Len(meant)
<1>1. n \in Nat /\ n \in 1 .. n /\ meant # <<>>
  <2>1. n \in Nat /\ meant # <<>>
    BY LenProperties DEF LayInv, FrameTypes
  <2>2. n # 0
    BY <2>1, EmptySeq DEF LayInv, FrameTypes
  <2>3. QED
    BY <2>1, <2>2
<1>2. End(n) \in Nat
  BY <1>1, EndOf DEF LayInv
<1>3. pulled = End(n)
  BY <1>1 DEF Place
<1>4. skb.len \in {End(n), End(n) - 1}
  BY <1>1 DEF LayInv, Whole, FrameEnd
<1>5. Rest <= Qhdr
  BY <1>2, <1>3, <1>4 DEF Rest, Qhdr
<1>6. QED
  BY <1>5 DEF Verdict

\* No datagram is longer than its frame.
LEMMA FrameLongest ==
  ASSUME LayInv, format = "mbim", NEW m \in 1 .. Len(meant)
  PROVE  /\ meant # <<>> /\ Len(skb.hdrs) = Len(meant) /\ BlockLength = End(Len(meant))
         /\ End(m) \in Nat /\ End(Len(meant)) \in Nat /\ End(m) <= End(Len(meant))
<1> DEFINE n == Len(meant)
<1>1. n \in Nat /\ Len(skb.hdrs) = n /\ n \in 1 .. n /\ meant # <<>>
  BY LenProperties, EmptySeq DEF LayInv, FrameTypes
<1>2. BlockLength = End(n)
  BY <1>1 DEF BlockLength, End
<1>3. \A i \in 1 .. n : Offset(i) \in Nat /\ End(i) \in Nat /\ End(i) >= Offset(i) + 1
  BY EndOf DEF LayInv, Laid
<1>4. m = n \/ m < n
  BY <1>1
<1>5. m < n => End(m) <= End(n)
  <2> SUFFICES ASSUME m < n PROVE End(m) <= End(n)
    OBVIOUS
  <2>1. PICK l \in 1 .. n : l = m + 1
    BY <1>1
  <2>2. Offset(l) = End(m)
    <3>1. l > 1 /\ l - 1 = m
      BY <2>1
    <3>2. Offset(l) = End(l - 1)
      BY <3>1 DEF LayInv, Laid
    <3>3. QED
      BY <3>1, <3>2
  <2>3. l = n \/ l < n
    BY <1>1, <2>1
  <2>4. l < n => Offset(l) < Offset(n)
    BY <1>1 DEF LayInv, Laid
  <2>5. QED
    BY <1>1, <1>3, <2>2, <2>3, <2>4
<1>6. QED
  BY <1>1, <1>2, <1>3, <1>4, <1>5

\* What the MBIM handler finds in a frame that is not too long.
LEMMA MbimFinds ==
  ASSUME LayInv, phase = "parse", format = "mbim", NEW k \in 0 .. Len(meant), pulled = Place(k)
  PROVE  /\ k = Len(meant) => pulled \notin DOMAIN skb.hdrs
         /\ k < Len(meant) /\ Refused => Ends(k + 1)
         /\ k < Len(meant) /\ ~Refused =>
              /\ pulled \in DOMAIN skb.hdrs
              /\ SessionVnd(skb.hdrs[pulled].tci) = meant[k + 1].mux
              /\ skb.hdrs[pulled].len = meant[k + 1].data
              /\ MbimVerdict(skb.hdrs[pulled]) = "stop" => Ends(k + 1)
              /\ MbimVerdict(skb.hdrs[pulled]) = "wild" => meant[k + 1].mux = 0
              /\ MbimVerdict(skb.hdrs[pulled]) = "data" =>
                   ~Ends(k + 1) /\ Known(meant[k + 1]) /\ meant[k + 1].what = "ip"
<1> DEFINE n == Len(meant)
<1> DEFINE m == k + 1
<1> DEFINE d == skb.hdrs[m]
<1>1. n \in Nat /\ DOMAIN skb.hdrs = 1 .. n /\ pulled = m
  <2>1. n \in Nat /\ Len(skb.hdrs) = n /\ skb.hdrs \in Seq(Headers)
    BY LenProperties DEF LayInv, FrameTypes
  <2>2. QED
    BY <2>1, LenProperties DEF Place
<1>2. k = n => m \notin 1 .. n
  BY <1>1
<1>3. ASSUME k < n
      PROVE  /\ m \in 1 .. n /\ SessionVnd(d.tci) = meant[m].mux /\ d.len = meant[m].data
             /\ Refused => Ends(m)
             /\ ~Refused =>
                  /\ MbimVerdict(d) = "stop" => Ends(m)
                  /\ MbimVerdict(d) = "wild" => meant[m].mux = 0
                  /\ MbimVerdict(d) = "data" => ~Ends(m) /\ Known(meant[m]) /\ meant[m].what = "ip"
  <2>1. m \in 1 .. n
    BY <1>1, <1>3
  <2>2. PICK p \in FramePackets : p = meant[m]
    BY <2>1, EndOf DEF LayInv
  <2>3. p \in Datagrams /\ nets = Muxes
    BY <2>1, <2>2 DEF LayInv, Laid, Config
  <2>4. p.mux \in 0 .. QmapMode + 1 /\ p.data \in Nat /\ p.what \in {"ip", "junk"}
    BY <2>3, PacketTypes DEF Datagrams, Commands
  <2>5. d = MbimHeader(p, Offset(m)) /\ Offset(m) \in Nat
    BY <2>1, <2>2 DEF LayInv, Laid, HeaderOf
  <2> HIDE DEF d
  <2>6. d.tci = Base + p.mux /\ d.what = p.what /\ d.len = p.data /\ d.offset = Offset(m)
    BY <2>5 DEF MbimHeader
  <2>7. SessionVnd(d.tci) = p.mux
    BY <2>4, <2>6, FrameConsts DEF SessionVnd
  <2>8. HeaderEnd(skb.hdrs[m]) = d.offset + d.len
    BY DEF d, HeaderEnd, MbimEnd
  <2>9. p.mux \in Muxes <=> p.mux # 0 /\ ~(p.mux > QmapMode)
    BY <2>4, FrameConsts DEF Muxes
  <2>10. Refused <=> TooLong(p)
    BY <2>1, FrameLongest DEF Refused, TooLong, BlockLength
  <2>11. Ends(m) <=> \/ p.mux \notin Muxes \/ Refused
                     \/ p.mux \in Muxes /\ (p.what = "junk" \/ d.offset + d.len > skb.len)
    BY <2>2, <2>3, <2>8, <2>10 DEF Ends, Known
  <2>12. ~Refused => ~(d.len > RxMax)
    <3>1. End(m) = d.offset + d.len
      BY <2>8 DEF End
    <3>2. End(m) \in Nat /\ BlockLength \in Nat /\ End(m) <= BlockLength
      BY <2>1, FrameLongest
    <3>3. QED
      BY <2>4, <2>5, <2>6, <3>1, <3>2, FrameConsts DEF Refused
  <2>13. MbimVerdict(d) =
           IF p.mux > QmapMode THEN "stop" ELSE IF p.mux = 0 THEN "wild"
           ELSE IF d.offset + d.len > skb.len \/ d.len > RxMax \/ p.what = "junk" THEN "stop" ELSE "data"
    BY <2>6, <2>7 DEF MbimVerdict
  <2> HIDE DEF m
  <2>14. Ends(m) \/ ~Refused
    BY <2>11
  <2>15. ~Refused /\ MbimVerdict(d) = "stop" => Ends(m)
    BY <2>9, <2>11, <2>12, <2>13
  <2>16. MbimVerdict(d) = "wild" => p.mux = 0
    BY <2>13
  <2>17. ~Refused /\ MbimVerdict(d) = "data" => ~Ends(m) /\ Known(p) /\ p.what = "ip"
    BY <2>3, <2>4, <2>9, <2>11, <2>13 DEF Known
  <2>18. QED
    BY <2>1, <2>2, <2>6, <2>7, <2>14, <2>15, <2>16, <2>17
<1>4. QED
  BY <1>1, <1>2, <1>3

\* What is said of the frame stays while it is taken apart.
LEMMA FrameStays ==
  ASSUME UNCHANGED <<config, input, before>>
  PROVE  /\ UNCHANGED <<format, minpad, nets, meant, skb, before>>
         /\ \A k : /\ Ends(k)' = Ends(k) /\ DataTo(k)' = DataTo(k) /\ OrdersTo(k)' = OrdersTo(k)
                  /\ OrderedTo(k)' = OrderedTo(k) /\ Place(k)' = Place(k)
         /\ DataItem' = DataItem /\ OrderItem' = OrderItem
<1>1. UNCHANGED <<format, minpad, nets, meant, skb, before>>
  BY DEF config, input
<1>2. \A k : Ends(k)' = Ends(k)
  BY <1>1 DEF Ends, Known, TooLong, HeaderEnd, MbimEnd, QmiEnd
<1>3. \A k : DataTo(k)' = DataTo(k) /\ OrdersTo(k)' = OrdersTo(k)
  BY <1>1 DEF DataTo, OrdersTo, IsData, IsOrder, Known
<1>4. \A k : OrderedTo(k)' = OrderedTo(k)
  BY <1>1, <1>3 DEF OrderedTo
<1>5. \A k : Place(k)' = Place(k)
  BY <1>1 DEF Place, End, HeaderEnd, MbimEnd, QmiEnd
<1>6. DataItem' = DataItem /\ OrderItem' = OrderItem
  BY <1>1 DEF DataItem, OrderItem
<1>7. QED
  BY <1>1, <1>2, <1>3, <1>4, <1>5, <1>6

\* A packet is taken out: data goes to the chain, an order is obeyed and acknowledged.
LEMMA TakesOne ==
  ASSUME LayInv, OutputTypes, NEW k \in 0 .. Len(meant), k < Len(meant), Progress(k), ~Ends(k + 1),
         UNCHANGED <<config, input, before, given>>, short' \in BOOLEAN, ~short' => ~short,
         \/ ~IsData(meant[k + 1]) /\ chain' = chain
         \/ IsData(meant[k + 1]) /\ chain' = Append(chain, DataItem[k + 1]),
         \/ ~IsOrder(meant[k + 1]) /\ UNCHANGED <<flow, answered>>
         \/ /\ IsOrder(meant[k + 1])
            /\ meant[k + 1].what = "on" => flow' = flow \cup {meant[k + 1].mux}
            /\ meant[k + 1].what # "on" => flow' = flow \ {meant[k + 1].mux}
            /\ answered' = Append(answered, OrderItem[k + 1]) \/ (short' /\ answered' = answered)
  PROVE  OutputTypes' /\ Progress(k + 1)'
<1> DEFINE p == meant[k + 1]
<1>1. Len(meant) \in Nat /\ k \in Nat /\ k + 1 \in 1 .. Len(meant) /\ k + 1 \in DOMAIN meant
  BY LenProperties DEF LayInv, FrameTypes
<1>2. p \in FramePackets /\ p.data \in Nat /\ nets \subseteq Muxes
  BY <1>1, EndOf, PacketTypes DEF LayInv, Config
<1>3. IsData(p) => DataItem[k + 1] = [vnd |-> p.mux, len |-> p.data] /\ DataItem[k + 1] \in DataItems
  BY <1>1, <1>2 DEF DataItem, DataItems, IsData, Known
<1>4. IsOrder(p) => /\ p.mux \in Muxes /\ OrderItem[k + 1] = [mux |-> p.mux, what |-> p.what]
                    /\ OrderItem[k + 1] \in AckItems
  BY <1>1, <1>2 DEF OrderItem, AckItems, IsOrder, Known
<1>5. /\ chain \in Seq(DataItems) /\ given \in Seq(DataItems) /\ answered \in Seq(AckItems)
      /\ flow \subseteq Muxes /\ before \subseteq Muxes
  BY DEF OutputTypes
<1>6. OutputTypes'
  <2>1. chain' \in Seq(DataItems)
    <3>1. CASE chain' = chain
      BY <1>5, <3>1
    <3>2. CASE IsData(p) /\ chain' = Append(chain, DataItem[k + 1])
      <4>1. DataItem[k + 1] \in DataItems
        BY <1>3, <3>2
      <4>2. Append(chain, DataItem[k + 1]) \in Seq(DataItems)
        BY <1>5, <4>1, AppendProperties
      <4>3. QED
        BY <3>2, <4>2
    <3>3. QED
      BY <3>1, <3>2
  <2>2. answered' \in Seq(AckItems)
    <3>1. CASE answered' = answered
      BY <1>5, <3>1
    <3>2. CASE IsOrder(p) /\ answered' = Append(answered, OrderItem[k + 1])
      <4>1. OrderItem[k + 1] \in AckItems
        BY <1>4, <3>2
      <4>2. Append(answered, OrderItem[k + 1]) \in Seq(AckItems)
        BY <1>5, <4>1, AppendProperties
      <4>3. QED
        BY <3>2, <4>2
    <3>3. QED
      BY <3>1, <3>2
  <2>3. flow' \subseteq Muxes
    BY <1>4, <1>5
  <2>4. QED
    BY <1>5, <2>1, <2>2, <2>3 DEF OutputTypes
<1>7. \A i \in 1 .. k + 1 : ~Ends(i)'
  <2>1. \A i \in 1 .. k + 1 : i \in 1 .. k \/ i = k + 1
    BY <1>1
  <2>2. QED
    BY <2>1, FrameStays DEF Progress
<1>8. Lists(given' \o chain', DataTo(k + 1), DataItem)
  <2>1. CASE ~IsData(p)
    <3>1. DataTo(k + 1) = DataTo(k) /\ given' \o chain' = given \o chain
      BY <1>1, <2>1, OneMore
    <3>2. QED
      BY <3>1 DEF Progress
  <2>2. CASE IsData(p)
    <3>1. DataTo(k + 1) = DataTo(k) \cup {k + 1} /\ DataTo(k) \in SUBSET Int /\ \A i \in DataTo(k) : i < k + 1
      BY <1>1, <2>2, OneMore
    <3>2. given' = given /\ chain' = Append(chain, DataItem[k + 1])
      BY <2>2
    <3>3. /\ given \o chain \in Seq(DataItems)
          /\ given \o Append(chain, DataItem[k + 1]) = Append(given \o chain, DataItem[k + 1])
      BY <1>3, <1>5, <2>2, ConcatProperties, AppendIsConcat
    <3>4. Lists(Append(given \o chain, DataItem[k + 1]), DataTo(k) \cup {k + 1}, DataItem)
      <4>1. PICK t, ks, e : t = given \o chain /\ ks = DataTo(k) /\ e = DataItem[k + 1]
        OBVIOUS
      <4>2. /\ t \in Seq(DataItems) /\ e \in DataItems /\ ks \in SUBSET Int /\ k + 1 \in Int
            /\ \A i \in ks : i < k + 1
        BY <1>1, <1>3, <2>2, <3>1, <3>3, <4>1
      <4>3. Lists(t, ks, DataItem)
        BY <4>1 DEF Progress
      <4>4. Lists(Append(t, e), ks \cup {k + 1}, DataItem)
        BY <4>1, <4>2, <4>3, ListsOneMore
      <4>5. QED
        BY <4>1, <4>4
    <3>5. QED
      BY <3>1, <3>2, <3>3, <3>4
  <2>3. QED
    BY <2>1, <2>2
<1>9. ~short' => Lists(answered', OrdersTo(k + 1), OrderItem)
  <2> SUFFICES ASSUME ~short' PROVE Lists(answered', OrdersTo(k + 1), OrderItem)
    OBVIOUS
  <2>1. Lists(answered, OrdersTo(k), OrderItem)
    BY DEF Progress
  <2>2. CASE ~IsOrder(p)
    <3>1. OrdersTo(k + 1) = OrdersTo(k) /\ answered' = answered
      BY <1>1, <2>2, OneMore
    <3>2. QED
      BY <2>1, <3>1
  <2>3. CASE IsOrder(p)
    <3>1. /\ OrdersTo(k + 1) = OrdersTo(k) \cup {k + 1} /\ OrdersTo(k) \in SUBSET Int
          /\ \A i \in OrdersTo(k) : i < k + 1
      BY <1>1, <2>3, OneMore
    <3>2. answered' = Append(answered, OrderItem[k + 1])
      BY <2>3
    <3>3. Lists(Append(answered, OrderItem[k + 1]), OrdersTo(k) \cup {k + 1}, OrderItem)
      <4>1. PICK ks, e : ks = OrdersTo(k) /\ e = OrderItem[k + 1]
        OBVIOUS
      <4>2. /\ answered \in Seq(AckItems) /\ e \in AckItems /\ ks \in SUBSET Int /\ k + 1 \in Int
            /\ \A i \in ks : i < k + 1
        BY <1>1, <1>4, <1>5, <2>3, <3>1, <4>1
      <4>3. Lists(answered, ks, OrderItem)
        BY <2>1, <4>1
      <4>4. Lists(Append(answered, e), ks \cup {k + 1}, OrderItem)
        BY <4>1, <4>2, <4>3, ListsOneMore
      <4>5. QED
        BY <4>1, <4>4
    <3>4. QED
      BY <3>1, <3>2, <3>3
  <2>4. QED
    BY <2>2, <2>3
<1>10. flow' = OrderedTo(k + 1)
  <2>1. flow = OrderedTo(k)
    BY DEF Progress
  <2>2. CASE ~IsOrder(p)
    BY <1>1, <2>1, <2>2, OneOrderMore
  <2>3. CASE IsOrder(p)
    BY <1>1, <1>4, <2>1, <2>3, OneOrderMore
  <2>4. QED
    BY <2>2, <2>3
<1>11. Progress(k + 1)'
  BY <1>7, <1>8, <1>9, <1>10, FrameStays DEF Progress
<1>12. QED
  BY <1>6, <1>11

\* Nothing is taken out: what was collected is the same, or memory ran short.
LEMMA KeepsProgress ==
  ASSUME UNCHANGED <<config, input, before, answered, flow>>, given' \o chain' = given \o chain,
         ~short' => ~short, NEW k, Progress(k)
  PROVE  Progress(k)'
<1>1. /\ \A i \in 1 .. k : ~Ends(i)'
      /\ Lists(given' \o chain', DataTo(k)', DataItem')
      /\ ~short' => Lists(answered', OrdersTo(k)', OrderItem')
      /\ flow' = OrderedTo(k)'
  BY FrameStays DEF Progress
<1>2. QED
  BY <1>1 DEF Progress

\* The handler reads on behind a packet, or goes over to hand on what it collected.
LEMMA ReadsOn ==
  ASSUME LayInv, phase = "parse", phase' = "parse", UNCHANGED <<config, input, before>>, OutputTypes',
         NEW k \in 0 .. Len(meant), k < Len(meant), pulled' = Place(k + 1), Progress(k + 1)'
  PROVE  FrameInv'
<1>1. Len(meant) \in Nat /\ meant' = meant
  BY LenProperties, FrameStays DEF LayInv, FrameTypes
<1>2. k + 1 \in 0 .. Len(meant')
  BY <1>1
<1>3. pulled' = Place(k + 1)'
  BY FrameStays
<1>4. PICK m : m = k + 1
  OBVIOUS
<1>5. Parsing'
  <2>1. m \in 0 .. Len(meant') /\ pulled' = Place(m)' /\ Progress(m)'
    BY <1>2, <1>3, <1>4
  <2>2. QED
    BY <2>1 DEF Parsing
<1>6. LayInv'
  BY LayStays
<1>7. QED
  BY <1>5, <1>6 DEF FrameInv, ParseInv

LEMMA GoesOver ==
  ASSUME LayInv, OutputTypes, phase = "parse", phase' = "flush", UNCHANGED <<config, input, before, chain, given>>,
         UNCHANGED <<answered, flow>>, short' \in BOOLEAN, ~short' => ~short,
         NEW k \in 0 .. Len(meant), Progress(k), (short' \/ k = Len(meant)) \/ Ends(k + 1)
  PROVE  FrameInv'
<1>1. Len(meant) \in Nat /\ meant' = meant
  BY LenProperties, FrameStays DEF LayInv, FrameTypes
<1>2. OutputTypes'
  BY DEF OutputTypes
<1>3. Progress(k)'
  BY KeepsProgress
<1>4. PICK m : m = k + 1
  OBVIOUS
<1>5. (short' \/ k = Len(meant')) \/ Ends(m)'
  BY <1>1, <1>4, FrameStays
<1>6. HandingOn'
  BY <1>1, <1>3, <1>4, <1>5 DEF HandingOn
<1>7. LayInv'
  BY LayStays
<1>8. QED
  BY <1>2, <1>6, <1>7 DEF FrameInv, ParseInv

\* A step of rmnet_qmi_rx_handler.
LEMMA QmiSteps == FrameInv /\ QmiRx => FrameInv'
<1> SUFFICES ASSUME FrameInv, QmiRx PROVE FrameInv'
  OBVIOUS
<1> DEFINE h == Header
<1> DEFINE n == Len(meant)
<1>1. phase = "parse" /\ format # "mbim" /\ UNCHANGED <<config, input, before>>
  BY DEF QmiRx
<1>2. LayInv /\ OutputTypes /\ short \in BOOLEAN /\ Parsing /\ n \in Nat
  BY <1>1, LenProperties DEF FrameInv, ParseInv, OutputTypes, LayInv, FrameTypes
<1>3. PICK k \in 0 .. n : pulled = Place(k) /\ Progress(k)
  BY <1>2 DEF Parsing
<1>4. k < n \/ (k = n /\ Verdict(h) = "stop")
  <2>1. k < n \/ k = n
    BY <1>2
  <2>2. k = n => Verdict(h) = "stop"
    BY <1>1, <1>2, <1>3, QmiFinished
  <2>3. QED
    BY <2>1, <2>2
<1> DEFINE p == meant[k + 1]
<1>5. k < n =>
        /\ h.mux = p.mux /\ h.what = p.what /\ QmiLen(h) = p.data
        /\ pulled + h.pkt_len + HdrSize(h) = Place(k + 1)
        /\ Verdict(h) = "stop" => Ends(k + 1)
        /\ Verdict(h) # "stop" => ~Ends(k + 1)
        /\ Verdict(h) = "skip" => ~Known(p)
        /\ Verdict(h) \in {"command", "data"} => Known(p)
        /\ Verdict(h) = "command" => p.what \in Commands
        /\ Verdict(h) = "data" => p.what = "ip"
  BY <1>1, <1>2, <1>3, QmiFinds
<1> HIDE DEF h
<1>6. CASE Verdict(h) = "stop" /\ Stop
  <2>1. phase' = "flush" /\ UNCHANGED <<chain, given, answered, flow, short>>
    BY <1>6 DEF Stop, output
  <2>2. (short' \/ k = n) \/ Ends(k + 1)
    BY <1>4, <1>5, <1>6
  <2>3. QED
    BY <1>1, <1>2, <1>3, <2>1, <2>2, GoesOver
<1>7. CASE Verdict(h) = "skip" /\ Pull(h) /\ UNCHANGED <<output, phase, fails>>
  <2>1. k < n /\ ~Ends(k + 1) /\ ~IsData(p) /\ ~IsOrder(p)
    BY <1>4, <1>5, <1>7 DEF IsData, IsOrder
  <2>2. UNCHANGED <<phase, chain, given, answered, flow, short>>
    BY <1>7 DEF output
  <2>3. OutputTypes' /\ Progress(k + 1)'
    BY <1>1, <1>2, <1>3, <2>1, <2>2, TakesOne
  <2>4. pulled' = Place(k + 1)
    BY <1>5, <1>7, <2>1 DEF Pull
  <2>5. QED
    BY <1>1, <1>2, <2>1, <2>2, <2>3, <2>4, ReadsOn
<1>8. CASE Verdict(h) = "command" /\ MapCommand(h) /\ Pull(h) /\ UNCHANGED <<chain, given, phase>>
  <2>1. k < n /\ ~Ends(k + 1) /\ Known(p) /\ p.what \in Commands /\ ~IsData(p)
    BY <1>4, <1>5, <1>8 DEF IsData, Commands
  <2>2. h.mux = p.mux /\ h.what = p.what
    BY <1>5, <2>1
  <2>3. k + 1 \in DOMAIN meant
    <3>1. k + 1 \in 1 .. n /\ DOMAIN meant = 1 .. n
      BY <1>2, <2>1, LenProperties DEF LayInv, FrameTypes
    <3>2. QED
      BY <3>1
  <2>4. OrderItem[k + 1] = [mux |-> p.mux, what |-> p.what]
    BY <2>3 DEF OrderItem
  <2>5. CASE p.what = "other"
    <3>1. ~IsOrder(p) /\ UNCHANGED <<flow, answered, short>>
      BY <1>8, <2>2, <2>5 DEF MapCommand, IsOrder
    <3>2. OutputTypes' /\ Progress(k + 1)'
      BY <1>1, <1>2, <1>3, <1>8, <2>1, <3>1, TakesOne
    <3>3. pulled' = Place(k + 1)
      BY <1>5, <1>8, <2>1 DEF Pull
    <3>4. QED
      BY <1>1, <1>2, <1>8, <2>1, <3>2, <3>3, ReadsOn
  <2>6. CASE p.what # "other"
    <3>1. IsOrder(p)
      BY <2>1, <2>6 DEF IsOrder, Commands
    <3>2. DoFlowControl(h) /\ MapSendAck(h)
      BY <1>8, <2>2, <2>6 DEF MapCommand
    <3>3. /\ p.what = "on" => flow' = flow \cup {p.mux}
          /\ p.what # "on" => flow' = flow \ {p.mux}
      BY <2>2, <3>2 DEF DoFlowControl
    <3>4. \/ answered' = Append(answered, OrderItem[k + 1]) /\ short' = short
          \/ short' = TRUE /\ answered' = answered
      BY <2>2, <2>4, <3>2 DEF MapSendAck, NoMemory
    <3>5. short' \in BOOLEAN /\ (~short' => ~short)
      BY <1>2, <3>4
    <3>6. answered' = Append(answered, OrderItem[k + 1]) \/ (short' /\ answered' = answered)
      BY <3>4
    <3>7. OutputTypes' /\ Progress(k + 1)'
      BY <1>1, <1>2, <1>3, <1>8, <2>1, <3>1, <3>3, <3>5, <3>6, TakesOne
    <3>8. pulled' = Place(k + 1)
      BY <1>5, <1>8, <2>1 DEF Pull
    <3>9. QED
      BY <1>1, <1>2, <1>8, <2>1, <3>7, <3>8, ReadsOn
  <2>7. QED
    BY <2>5, <2>6
<1>9. CASE /\ Verdict(h) = "data" /\ Pull(h) /\ Collect(h.mux, QmiLen(h))
           /\ UNCHANGED <<given, answered, flow, short, phase, fails>>
  <2>1. k < n /\ ~Ends(k + 1) /\ IsData(p) /\ ~IsOrder(p)
    BY <1>4, <1>5, <1>9 DEF IsData, IsOrder
  <2>2. k + 1 \in DOMAIN meant
    <3>1. k + 1 \in 1 .. n /\ DOMAIN meant = 1 .. n
      BY <1>2, <2>1, LenProperties DEF LayInv, FrameTypes
    <3>2. QED
      BY <3>1
  <2>3. chain' = Append(chain, DataItem[k + 1])
    BY <1>5, <1>9, <2>1, <2>2 DEF Collect, DataItem
  <2>4. OutputTypes' /\ Progress(k + 1)'
    BY <1>1, <1>2, <1>3, <1>9, <2>1, <2>3, TakesOne
  <2>5. pulled' = Place(k + 1)
    BY <1>5, <1>9, <2>1 DEF Pull
  <2>6. QED
    BY <1>1, <1>2, <1>9, <2>1, <2>4, <2>5, ReadsOn
<1>10. CASE /\ Verdict(h) = "data" /\ NoMemory /\ phase' = "flush"
            /\ UNCHANGED <<pulled, chain, given, answered, flow>>
  <2>1. short' = TRUE
    BY <1>10 DEF NoMemory
  <2>2. QED
    BY <1>1, <1>2, <1>3, <1>10, <2>1, GoesOver
<1>11. QED
  BY <1>6, <1>7, <1>8, <1>9, <1>10 DEF QmiRx, h

\* A step of rmnet_mbim_rx_handler.
LEMMA MbimSteps == FrameInv /\ MbimRx => FrameInv'
<1> SUFFICES ASSUME FrameInv, MbimRx PROVE FrameInv'
  OBVIOUS
<1> DEFINE n == Len(meant)
<1>1. phase = "parse" /\ format = "mbim" /\ UNCHANGED <<config, input, before>>
  BY DEF MbimRx
<1>2. LayInv /\ OutputTypes /\ short \in BOOLEAN /\ Parsing /\ n \in Nat
  BY <1>1, LenProperties DEF FrameInv, ParseInv, OutputTypes, LayInv, FrameTypes
<1>3. PICK k \in 0 .. n : pulled = Place(k) /\ Progress(k)
  BY <1>2 DEF Parsing
<1> DEFINE p == meant[k + 1]
<1>4. PICK d : d = skb.hdrs[pulled]
  OBVIOUS
<1>5. /\ k = n => pulled \notin DOMAIN skb.hdrs
      /\ k < n /\ Refused => Ends(k + 1)
      /\ k < n /\ ~Refused =>
           /\ pulled \in DOMAIN skb.hdrs
           /\ SessionVnd(d.tci) = p.mux /\ d.len = p.data
           /\ MbimVerdict(d) = "stop" => Ends(k + 1)
           /\ MbimVerdict(d) = "wild" => p.mux = 0
           /\ MbimVerdict(d) = "data" => ~Ends(k + 1) /\ Known(p) /\ p.what = "ip"
  BY <1>1, <1>2, <1>3, <1>4, MbimFinds
<1>6. pulled = k + 1
  BY <1>1, <1>3 DEF Place
<1>7. CASE Stop /\ ((Refused \/ pulled \notin DOMAIN skb.hdrs) \/ MbimVerdict(d) = "stop")
  <2>1. phase' = "flush" /\ UNCHANGED <<chain, given, answered, flow, short>>
    BY <1>7 DEF Stop, output
  <2>2. k < n \/ k = n
    BY <1>2
  <2>3. (short' \/ k = n) \/ Ends(k + 1)
    BY <1>5, <1>7, <2>2
  <2>4. QED
    BY <1>1, <1>2, <1>3, <2>1, <2>3, GoesOver
<1>8. CASE /\ ~Refused /\ pulled \in DOMAIN skb.hdrs /\ MbimVerdict(d) = "data" /\ pulled' = pulled + 1
           /\ Collect(SessionVnd(d.tci), d.len) /\ UNCHANGED <<given, answered, flow, short, phase, fails>>
  <2>0. k < n \/ k = n
    BY <1>2
  <2>1. k < n /\ ~Ends(k + 1) /\ IsData(p) /\ ~IsOrder(p)
    BY <1>5, <1>8, <2>0 DEF IsData, IsOrder
  <2>2. k + 1 \in DOMAIN meant
    <3>1. k + 1 \in 1 .. n /\ DOMAIN meant = 1 .. n
      BY <1>2, <2>1, LenProperties DEF LayInv, FrameTypes
    <3>2. QED
      BY <3>1
  <2>3. chain' = Append(chain, DataItem[k + 1])
    BY <1>5, <1>8, <2>1, <2>2 DEF Collect, DataItem
  <2>4. OutputTypes' /\ Progress(k + 1)'
    BY <1>1, <1>2, <1>3, <1>8, <2>1, <2>3, TakesOne
  <2>5. pulled' = Place(k + 1)
    BY <1>1, <1>2, <1>6, <1>8 DEF Place
  <2>6. QED
    BY <1>1, <1>2, <1>8, <2>1, <2>4, <2>5, ReadsOn
<1>9. CASE /\ MbimVerdict(d) = "data" /\ NoMemory /\ phase' = "flush"
           /\ UNCHANGED <<pulled, chain, given, answered, flow>>
  <2>1. short' = TRUE
    BY <1>9 DEF NoMemory
  <2>2. QED
    BY <1>1, <1>2, <1>3, <1>9, <2>1, GoesOver
<1>10. CASE ~Refused /\ pulled \in DOMAIN skb.hdrs /\ MbimVerdict(d) = "wild" /\ Wild
  <2>1. phase' = "wild" /\ UNCHANGED <<chain, given, answered, flow, short>>
    BY <1>10 DEF Wild, output
  <2>2. k < n /\ p.mux = 0 /\ k + 1 \in DOMAIN meant
    <3>1. k < n /\ p.mux = 0
      BY <1>2, <1>5, <1>10
    <3>2. DOMAIN meant = 1 .. n
      BY <1>2, LenProperties DEF LayInv, FrameTypes
    <3>3. QED
      BY <1>2, <3>1, <3>2
  <2>3. OffTable
    <3>1. BlockLength <= RxMax
      <4>1. k + 1 \in 1 .. n
        BY <1>2, <2>2
      <4>2. BlockLength \in Nat
        BY <1>1, <1>2, <4>1, FrameLongest
      <4>3. QED
        BY <1>10, <4>2, FrameConsts DEF Refused
    <3>2. PICK m \in DOMAIN meant : m = k + 1
      BY <2>2
    <3>3. meant[m].mux = 0
      BY <2>2, <3>2
    <3>4. \A j \in 1 .. m - 1 : ~Ends(j)
      <4>1. m - 1 = k
        BY <3>2
      <4>2. QED
        BY <1>3, <4>1 DEF Progress
    <3>5. QED
      BY <1>1, <3>1, <3>3, <3>4 DEF OffTable
  <2>4. OffTable'
    <3>1. UNCHANGED <<format, meant, skb>> /\ BlockLength' = BlockLength
      BY <1>1, FrameStays DEF BlockLength, HeaderEnd, MbimEnd, QmiEnd
    <3>2. QED
      BY <1>1, <2>3, <3>1, FrameStays DEF OffTable
  <2>5. OutputTypes' /\ LayInv'
    <3>1. OutputTypes'
      BY <1>1, <1>2, <2>1 DEF OutputTypes
    <3>2. LayInv'
      BY <1>1, <1>2, <2>1, LayStays
    <3>3. QED
      BY <3>1, <3>2
  <2>6. QED
    BY <2>1, <2>4, <2>5 DEF FrameInv, ParseInv
<1>11. QED
  BY <1>4, <1>7, <1>8, <1>9, <1>10 DEF MbimRx

\* netif_receive_skb takes the packets in their order.
LEMMA FlushSteps == FrameInv /\ Flush => FrameInv'
<1> SUFFICES ASSUME FrameInv, Flush PROVE FrameInv'
  OBVIOUS
<1>1. phase = "flush" /\ UNCHANGED <<config, input, before, answered, flow, short>>
  BY DEF Flush
<1>2. LayInv /\ OutputTypes /\ HandingOn
  BY <1>1 DEF FrameInv, ParseInv
<1>3. chain \in Seq(DataItems) /\ given \in Seq(DataItems)
  BY <1>2 DEF OutputTypes
<1>4. /\ phase' = "flush" \/ (phase' = "done" /\ chain' = <<>>)
      /\ given' \o chain' = given \o chain /\ chain' \in Seq(DataItems) /\ given' \in Seq(DataItems)
  <2>1. CASE chain = <<>>
    BY <1>1, <1>3, <2>1 DEF Flush
  <2>2. CASE chain # <<>>
    <3>1. phase' = "flush" /\ given' = Append(given, Head(chain)) /\ chain' = Tail(chain)
      BY <1>1, <2>2 DEF Flush
    <3>2. Head(chain) \in DataItems /\ Tail(chain) \in Seq(DataItems) /\ chain = <<Head(chain)>> \o Tail(chain)
      BY <1>3, <2>2, HeadTailProperties, HeadTailAppend
    <3>3. Append(given, Head(chain)) \in Seq(DataItems)
      BY <1>3, <3>2, AppendProperties
    <3>4. Append(given, Head(chain)) \o Tail(chain) = given \o chain
      BY <1>3, <3>2
    <3>5. QED
      BY <3>1, <3>2, <3>3, <3>4
  <2>3. QED
    BY <2>1, <2>2
<1>5. PICK k \in 0 .. Len(meant) : Progress(k) /\ ((short \/ k = Len(meant)) \/ Ends(k + 1))
  BY <1>2 DEF HandingOn
<1>6. Progress(k)'
  BY <1>1, <1>4, <1>5, KeepsProgress
<1>7. PICK m : m = k + 1
  OBVIOUS
<1>8. (short' \/ k = Len(meant')) \/ Ends(m)'
  BY <1>1, <1>5, <1>7, FrameStays
<1>9. HandingOn'
  <2>1. meant' = meant
    BY <1>1, FrameStays
  <2>2. QED
    BY <1>6, <1>7, <1>8, <2>1 DEF HandingOn
<1>10. OutputTypes'
  BY <1>1, <1>2, <1>4 DEF OutputTypes
<1>11. LayInv'
  BY <1>1, <1>2, <1>4, LayStays
<1>12. QED
  BY <1>4, <1>9, <1>10, <1>11 DEF FrameInv, ParseInv

\* A frame that has just come: nothing is taken out, and the devices are as they were.
LEMMA ReceiveSteps == FrameInv /\ Receive => FrameInv'
<1> SUFFICES ASSUME FrameInv, Receive PROVE FrameInv'
  OBVIOUS
<1>1. /\ phase = "lay" /\ phase' = "parse" /\ UNCHANGED <<format, meant, chain, given, answered, flow, short>>
      /\ before' = flow /\ pulled' = (IF format = "mbim" THEN 1 ELSE 0)
  BY DEF Receive, config, output
<1>2. LayInv' /\ OutputTypes /\ Empty /\ Len(meant) \in Nat
  BY <1>1, LayMoves, LenProperties DEF FrameInv, ParseInv, LayInv, FrameTypes
<1>3. OutputTypes'
  BY <1>1, <1>2 DEF OutputTypes
<1>4. pulled' = Place(0)'
  BY <1>1 DEF Place
<1>5. Progress(0)'
  <2>1. (\A i \in 1 .. 0 : ~Ends(i))'
    OBVIOUS
  <2>2. DataTo(0)' = {} /\ OrdersTo(0)' = {}
    BY DEF DataTo, OrdersTo
  <2>3. given' \o chain' = <<>> /\ answered' = <<>>
    BY <1>1, <1>2 DEF Empty
  <2>4. Lists(given', DataTo(0)', DataItem')
    BY <1>1, <1>2, <2>2, ListsNothing DEF Empty
  <2>5. Lists(given' \o chain', DataTo(0)', DataItem') /\ Lists(answered', OrdersTo(0)', OrderItem')
    BY <2>2, <2>3, ListsNothing
  <2>6. flow' = OrderedTo(0)'
    <3>1. OrderedTo(0)' = {v \in Muxes : v \in before'}
      BY <2>2 DEF OrderedTo
    <3>2. QED
      BY <1>1, <1>3, <3>1 DEF OutputTypes
  <2>7. QED
    BY <2>1, <2>5, <2>6 DEF Progress
<1>6. Parsing'
  BY <1>1, <1>2, <1>4, <1>5 DEF Parsing
<1>7. QED
  BY <1>1, <1>2, <1>3, <1>6 DEF FrameInv, ParseInv

\* Every step, and the first state.
LEMMA FrameInvHolds == FrameSpec => []FrameInv
<1>1. FrameInit => FrameInv
  <2> SUFFICES ASSUME FrameInit PROVE FrameInv
    OBVIOUS
  <2>1. OutputTypes
    BY EmptySeq DEF FrameInit, OutputTypes
  <2>2. ParseInv
    BY DEF FrameInit, ParseInv, Empty
  <2>3. QED
    BY <2>1, <2>2, LayStarts DEF FrameInv
<1>2. ASSUME FrameInv, Lay PROVE FrameInv'
  <2>1. phase \in {"idle", "lay"} /\ phase' = "lay" /\ UNCHANGED <<chain, given, answered, flow, before, short>>
    BY <1>2 DEF Lay, output
  <2>2. LayInv'
    BY <1>2, LayLays DEF FrameInv
  <2>3. QED
    BY <1>2, <2>1, <2>2 DEF FrameInv, OutputTypes, ParseInv, Empty
<1>3. ASSUME FrameInv, Release PROVE FrameInv'
  <2>1. /\ phase = "done" /\ phase' = "idle" /\ given' = <<>> /\ answered' = <<>> /\ short' = FALSE
        /\ before' = {} /\ UNCHANGED <<chain, flow>>
    BY <1>3 DEF Release
  <2>2. LayInv'
    BY <1>3, LayMoves DEF FrameInv
  <2>3. OutputTypes'
    BY <1>3, <2>1, EmptySeq DEF FrameInv, OutputTypes
  <2>4. QED
    BY <1>3, <2>1, <2>2, <2>3 DEF FrameInv, ParseInv, Empty
<1>4. ASSUME FrameInv, UNCHANGED <<config, input, pulled, output, before, phase>> PROVE FrameInv'
  <2>1. LayInv'
    BY <1>4, LayStays DEF FrameInv
  <2>2. UNCHANGED <<chain, given, answered, flow, short, pulled, phase, before, meant>>
    BY <1>4 DEF output, input
  <2>3. OutputTypes'
    BY <1>4, <2>2 DEF FrameInv, OutputTypes
  <2>4. \A k : Progress(k) => Progress(k)'
    <3>1. given' \o chain' = given \o chain /\ (~short' => ~short)
      BY <2>2
    <3>2. QED
      BY <1>4, <2>2, <3>1, KeepsProgress
  <2>5. Parsing => Parsing'
    BY <1>4, <2>2, <2>4, FrameStays DEF Parsing
  <2>6. HandingOn => HandingOn'
    BY <1>4, <2>2, <2>4, FrameStays DEF HandingOn
  <2>7. OffTable => OffTable'
    <3>1. UNCHANGED <<format, meant, skb>> /\ BlockLength' = BlockLength
      BY <1>4, FrameStays DEF BlockLength, HeaderEnd, MbimEnd, QmiEnd
    <3>2. QED
      BY <1>4, <3>1, FrameStays DEF OffTable
  <2>8. ParseInv'
    BY <1>4, <2>2, <2>5, <2>6, <2>7 DEF FrameInv, ParseInv, Empty
  <2>9. QED
    BY <2>1, <2>3, <2>8 DEF FrameInv
<1>5. FrameInv /\ [FrameNext]_frameVars => FrameInv'
  <2> SUFFICES ASSUME FrameInv, [FrameNext]_frameVars PROVE FrameInv'
    OBVIOUS
  <2>1. CASE AddHeader
    BY <1>4, <2>1 DEF AddHeader
  <2>2. CASE UNCHANGED frameVars
    BY <1>4, <2>2 DEF frameVars
  <2>3. QED
    BY <1>2, <1>3, <2>1, <2>2, QmiSteps, MbimSteps, FlushSteps, ReceiveSteps DEF FrameNext
<1>6. QED
  BY <1>1, <1>5, PTL DEF FrameSpec

-----------------------------------------------------------------------------
(* Frames: the theorems.                                                   *)

\* The packets before the first in error are those that were taken out, or, when memory ran
\* short, the first of them.
LEMMA GoodOnes ==
  ASSUME LayInv, NEW k \in 0 .. Len(meant), \A i \in 1 .. k : ~Ends(i)
  PROVE  /\ Data \cap 1 .. k = DataTo(k)
         /\ k = Len(meant) \/ Ends(k + 1) => Data = DataTo(k) /\ Orders = OrdersTo(k) /\ Data \subseteq 1 .. Len(meant)
<1>1. Len(meant) \in Nat /\ DOMAIN meant = 1 .. Len(meant)
  BY LenProperties DEF LayInv, FrameTypes
<1>2. \A i \in 1 .. k : i \in Good
  <2> TAKE i \in 1 .. k
  <2>1. i \in DOMAIN meant /\ \A j \in 1 .. i : j \in 1 .. k
    BY <1>1
  <2>2. QED
    BY <2>1 DEF Good
<1>3. k = Len(meant) \/ Ends(k + 1) => \A i \in Good : i \in 1 .. k
  <2> SUFFICES ASSUME k = Len(meant) \/ Ends(k + 1), NEW i \in Good PROVE i \in 1 .. k
    OBVIOUS
  <2>1. i \in 1 .. Len(meant) /\ \A j \in 1 .. i : ~Ends(j)
    BY <1>1 DEF Good
  <2>2. CASE k = Len(meant)
    BY <2>1, <2>2
  <2>3. CASE Ends(k + 1)
    <3>1. k + 1 \notin 1 .. i
      BY <2>1, <2>3
    <3>2. PICK l \in Nat : l = Len(meant)
      BY <1>1
    <3>3. i \in 1 .. l /\ k \in 0 .. l
      BY <2>1, <3>2
    <3>4. QED
      BY <3>1, <3>2, <3>3
  <2>4. QED
    BY <2>2, <2>3
<1>4. Good \subseteq 1 .. Len(meant)
  BY <1>1 DEF Good
<1>5. QED
  BY <1>2, <1>3, <1>4 DEF Data, Orders, DataTo, OrdersTo

\* The kernel is given the packets of the frame, each for its device, with its length and in
\* order, up to the first in error (rmnet_qmi_rx_handler, rmnet_mbim_rx_handler), or, behind good
\* packets, the MBIM handler leaves its table for session mbim_mux_id: for every number of devices,
\* packet size, limit and length of the frame.
THEOREM PacketsExact == FrameSpec => []FrameExact
<1>1. FrameInv => FrameExact
  <2> SUFFICES ASSUME FrameInv, phase = "done"
               PROVE  \E n \in 0 .. Len(meant) :
                        (~short => n = Len(meant)) /\ Lists(given, Data \cap 1 .. n, DataItem)
    BY DEF FrameExact, Exact, FrameInv, ParseInv
  <2>1. LayInv /\ OutputTypes /\ HandingOn /\ chain = <<>>
    BY DEF FrameInv, ParseInv
  <2>2. PICK k \in 0 .. Len(meant) : Progress(k) /\ ((short \/ k = Len(meant)) \/ Ends(k + 1))
    BY <2>1 DEF HandingOn
  <2>3. Lists(given, DataTo(k), DataItem)
    <3>1. given \in Seq(DataItems) /\ given \o chain = given
      BY <2>1 DEF OutputTypes
    <3>2. QED
      BY <2>2, <3>1 DEF Progress
  <2>4. /\ Data \cap 1 .. k = DataTo(k)
        /\ k = Len(meant) \/ Ends(k + 1) => Data = DataTo(k) /\ Data \subseteq 1 .. Len(meant)
    BY <2>1, <2>2, GoodOnes DEF Progress
  <2>5. CASE short
    BY <2>3, <2>4, <2>5
  <2>6. CASE ~short
    <3>1. Data \cap 1 .. Len(meant) = DataTo(k)
      BY <2>2, <2>4, <2>6
    <3>2. Len(meant) \in 0 .. Len(meant)
      BY <2>1, LenProperties DEF LayInv, FrameTypes
    <3>3. QED
      BY <2>3, <3>1, <3>2
  <2>7. QED
    BY <2>5, <2>6
<1>2. QED
  BY <1>1, FrameInvHolds, PTL

\* Unless memory runs short, each flow-control command before the first packet in error is
\* obeyed and acknowledged once and in order, and the last one for a device counts
\* (rmnet_data_map_command, rmnet_map_do_flow_control, rmnet_map_send_ack).
THEOREM CommandsObeyed == FrameSpec => []OrdersObeyed
<1>1. FrameInv => OrdersObeyed
  <2> SUFFICES ASSUME FrameInv, phase = "done", ~short
               PROVE  flow = Ordered /\ Lists(answered, Orders, OrderItem)
    BY DEF OrdersObeyed
  <2>1. LayInv /\ HandingOn
    BY DEF FrameInv, ParseInv
  <2>2. PICK k \in 0 .. Len(meant) : Progress(k) /\ (k = Len(meant) \/ Ends(k + 1))
    BY <2>1 DEF HandingOn
  <2>3. Orders = OrdersTo(k)
    BY <2>1, <2>2, GoodOnes DEF Progress
  <2>4. \A i \in Orders : i \in DOMAIN meant
    BY DEF Orders, Good
  <2>5. \A v : \A i \in Orders :
          OrderItem[i] = [mux |-> v, what |-> "on"] <=> (meant[i].mux = v /\ meant[i].what = "on")
    BY <2>4 DEF OrderItem
  <2>6. Ordered = OrderedTo(k)
    BY <2>3, <2>5 DEF Ordered, OrderedTo, LastOn
  <2>7. QED
    BY <2>2, <2>3, <2>6 DEF Progress
<1>2. QED
  BY <1>1, FrameInvHolds, PTL

\* Padded or not, under QMAP or MBIM, the header that is put before a packet names the device
\* and the length the packet has (add_qhdr, add_qhdr_v5, add_mbim_hdr).
THEOREM HeadersReadable == FrameSpec => []UplinkReadable
<1> DEFINE HdrOf(v, data, room) ==
      IF format = "mbim" THEN AddMbimHdr(Base + v - 1, data) ELSE AddQhdr(format = "qmap5", v, data, room)
<1> DEFINE UplinkInv ==
      uplink = <<>> \/ \E v \in Muxes, data \in Sizes, room \in {0, 3} :
                         uplink = [vnd |-> v, len |-> data, hdr |-> HdrOf(v, data, room)]
<1>1. FrameInit => UplinkInv
  BY DEF FrameInit
<1>2. UplinkInv /\ [FrameNext]_frameVars => UplinkInv'
  <2> SUFFICES ASSUME UplinkInv, [FrameNext]_frameVars PROVE UplinkInv'
    OBVIOUS
  <2>1. format' = format
    BY DEF FrameNext, Lay, Receive, QmiRx, MbimRx, Flush, Release, AddHeader, frameVars, config
  <2>2. CASE AddHeader
    <3>1. \E v \in Muxes, data \in Sizes, room \in {0, 3} :
            uplink' = [vnd |-> v, len |-> data, hdr |-> HdrOf(v, data, room)]
      BY <2>2 DEF AddHeader
    <3>2. QED
      BY <2>1, <3>1
  <2>3. CASE uplink' \in {uplink, <<>>}
    BY <2>1, <2>3
  <2>4. AddHeader \/ uplink' \in {uplink, <<>>}
    BY DEF FrameNext, Lay, Receive, QmiRx, MbimRx, Flush, Release, frameVars
  <2>5. QED
    BY <2>2, <2>3, <2>4
<1>3. UplinkInv => UplinkReadable
  <2> SUFFICES ASSUME NEW v \in Muxes, NEW data \in Sizes, NEW room \in {0, 3},
                      uplink = [vnd |-> v, len |-> data, hdr |-> HdrOf(v, data, room)]
               PROVE  UplinkReadable
    BY DEF UplinkReadable
  <2>1. v \in Nat /\ data \in Nat /\ QmapMode > 1 /\ Base \in Nat
    BY FrameConsts DEF Muxes
  <2>2. CASE format = "mbim"
    <3>1. uplink.hdr = AddMbimHdr(Base + v - 1, data)
      BY <2>2
    <3>2. uplink.hdr.tci = Base + v - 1 + 1 /\ uplink.hdr.len = data
      BY <2>1, <3>1 DEF AddMbimHdr
    <3>3. SessionVnd(uplink.hdr.tci) = v
      BY <2>1, <3>2 DEF SessionVnd
    <3>4. QED
      BY <2>2, <3>2, <3>3 DEF UplinkReadable
  <2>3. CASE format # "mbim"
    <3>1. PICK pad \in Nat : uplink.hdr.mux = v /\ uplink.hdr.pad = pad /\ uplink.hdr.pkt_len = data + pad
      <4>1. PadTo4(data) \in Nat
        BY <2>1, PadBounds
      <4>2. QED
        BY <2>3, <4>1 DEF AddQhdr
    <3>2. QED
      BY <2>1, <2>3, <3>1 DEF UplinkReadable
  <2>4. QED
    BY <2>2, <2>3
<1> HIDE DEF UplinkInv
<1>4. QED
  BY <1>1, <1>2, <1>3, PTL DEF FrameSpec
=============================================================================

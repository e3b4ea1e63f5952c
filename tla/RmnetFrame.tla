----------------------------- MODULE RmnetFrame -----------------------------
(***************************************************************************)
(* What a frame of the network device holds (mhi_netdev_quectel.c): the    *)
(* packets of several virtual devices behind QMAP headers (version 1 or 5) *)
(* or under the NDPs of MBIM, and flow-control commands.  The receive      *)
(* handlers take a frame apart; the transmit path puts one packet into a   *)
(* frame of its own.                                                       *)
(*                                                                         *)
(* Lengths are in bytes.  Of a packet only what the headers say is kept.   *)
(* Virtual devices are numbered from 1: mux 0x81 is 1.  Number 0 is the    *)
(* session mbim_mux_id itself, or mux 0x80, which no device has.  (Numbers *)
(* below it are rejected as those above are: the subtractions of mux_id    *)
(* and tci are compared without sign.)                                     *)
(***************************************************************************)
EXTENDS Integers, Sequences

CONSTANTS
  QmapMode,  \* virtual devices, at least 2
  Base,      \* mbim_mux_id
  Mtu,       \* of the virtual devices
  RxMax,     \* rx_max: the longest frame of MBIM
  Sizes,     \* of packets
  MaxLen,    \* packets of a frame
  Fails      \* allocations that fail

ASSUME FrameAssumption ==
  /\ QmapMode \in Nat /\ QmapMode >= 2 /\ {Base, Mtu, RxMax, MaxLen, Fails} \subseteq Nat
  /\ Sizes \subseteq Nat \ {0}

VARIABLES
  format, minpad, nets,  \* qmap1, qmap5 or mbim; dl_minimum_padding; devices that were registered
  meant, skb,            \* the frame: its packets, and as it is laid out
  pulled,                \* bytes pulled, or the datagram of MBIM
  chain, given,          \* skb_chain; what the kernel was given
  answered,              \* acknowledgements of commands
  flow, before,          \* flow_control: devices enabled, now and when the frame came
  short,                 \* memory ran short while the frame was taken apart
  uplink,                \* a packet to send, and the header it was given
  phase, fails           \* where the receive handler is; allocations that may still fail

config    == <<format, minpad, nets>>
input     == <<meant, skb>>
output    == <<chain, given, answered, flow, short>>
frameVars == <<config, input, pulled, output, before, uplink, phase, fails>>

Muxes    == 1 .. QmapMode
Qhdr     == 4
V5hdr    == 4
MbimHdr  == 12 + 8 + 2 * 4
Commands == {"on", "off", "other"}

\* Packets: data for a device or for none, data of no known protocol, commands.
FramePackets ==
  [mux : Muxes, what : {"ip"}, data : Sizes] \cup [mux : 1 .. QmapMode + 1, what : {"on", "off"}, data : {4}]
    \cup [mux : {0, QmapMode + 1}, what : {"ip"}, data : {4}] \cup [mux : {1}, what : {"junk", "other"}, data : {4}]
Datagrams == {p \in FramePackets : p.what \notin Commands}

NoFrame == [len |-> 0, hdrs |-> <<>>]

FrameInit ==
  /\ format \in {"qmap1", "qmap5", "mbim"}
  /\ minpad \in (IF format = "qmap5" THEN {0, 2} ELSE {0})
  /\ nets \in (IF format = "mbim" THEN {Muxes} ELSE {Muxes, Muxes \ {1}})
  /\ meant = <<>> /\ skb = NoFrame /\ pulled = 0
  /\ chain = <<>> /\ given = <<>> /\ answered = <<>> /\ flow = {} /\ before = {} /\ short = FALSE
  /\ uplink = <<>> /\ phase = "idle" /\ fails = Fails

-----------------------------------------------------------------------------
(* Headers.                                                                *)

PadTo4(n) == (4 - (n % 4)) % 4
HdrSize(h) == IF h.v5 THEN Qhdr + V5hdr ELSE Qhdr

\* Mutant: the length does not count the padding.
AddQhdr_Unpadded(v5, mux, data, tailroom) ==
  LET pad == IF PadTo4(data) <= tailroom THEN PadTo4(data) ELSE 0
  IN  [mux |-> mux, what |-> "ip", cd |-> FALSE, v5 |-> v5, pad |-> pad, pkt_len |-> data]

\* add_qhdr and add_qhdr_v5: the packet is padded if it has the room.
AddQhdr(v5, mux, data, tailroom) ==
  LET pad == IF PadTo4(data) <= tailroom THEN PadTo4(data) ELSE 0
  IN  [mux |-> mux, what |-> "ip", cd |-> FALSE, v5 |-> v5, pad |-> pad, pkt_len |-> data + pad]

\* add_mbim_hdr: one NDP with one datagram; of several devices, X has session X.
AddMbimHdr(mux, data) == [tci |-> IF QmapMode > 1 THEN mux + 1 ELSE mux, offset |-> MbimHdr, len |-> data]

\* What a header says of its packet.
QmiLen(h) == h.pkt_len - h.pad - minpad

\* The device of a session.
SessionVnd(tci) == tci - Base

-----------------------------------------------------------------------------
(* The modem.                                                              *)

QmiHeader(p, offset) ==
  [mux |-> p.mux, what |-> p.what, cd |-> p.what \in Commands, offset |-> offset,
   v5 |-> format = "qmap5" /\ p.what \notin Commands, pad |-> PadTo4(p.data),
   pkt_len |-> p.data + PadTo4(p.data) + minpad]
QmiEnd(h) == h.offset + HdrSize(h) + h.pkt_len

\* The datagrams come after header and tables; those of one session may share an NDP.
MbimHeader(p, offset) == [tci |-> Base + p.mux, what |-> p.what, offset |-> offset, len |-> p.data]
MbimEnd(h) == h.offset + h.len

HeaderEnd(h) == IF format = "mbim" THEN MbimEnd(h) ELSE QmiEnd(h)

\* Packet after packet is laid into a frame.
Lay ==
  /\ phase \in {"idle", "lay"} /\ Len(meant) < MaxLen /\ phase' = "lay"
  /\ \E p \in IF format = "mbim" THEN Datagrams ELSE FramePackets :
       LET start == IF format = "mbim" /\ meant = <<>> THEN MbimHdr ELSE skb.len
           h     == IF format = "mbim" THEN MbimHeader(p, start) ELSE QmiHeader(p, start)
       IN  meant' = Append(meant, p) /\ skb' = [len |-> HeaderEnd(h), hdrs |-> Append(skb.hdrs, h)]
  /\ uplink' = <<>> /\ UNCHANGED <<config, pulled, output, before, fails>>

\* The frame arrives, whole or without its last byte.
Receive ==
  /\ phase = "lay" /\ phase' = "parse"
  /\ \E cut \in 0 .. 1 : skb' = [skb EXCEPT !.len = @ - cut]
  /\ pulled' = (IF format = "mbim" THEN 1 ELSE 0)
  /\ before' = flow /\ UNCHANGED <<config, meant, output, uplink, fails>>

-----------------------------------------------------------------------------
(* rmnet_qmi_rx_handler, one packet a step.                                *)

Rest == skb.len - pulled

\* Bytes that are no header are taken for one of an unknown device.
Header ==
  IF \E k \in DOMAIN skb.hdrs : skb.hdrs[k].offset = pulled
  THEN skb.hdrs[CHOOSE k \in DOMAIN skb.hdrs : skb.hdrs[k].offset = pulled]
  ELSE [mux |-> QmapMode + 1, what |-> "junk", cd |-> FALSE, offset |-> pulled, v5 |-> FALSE,
        pad |-> 0, pkt_len |-> 0]

Verdict(h) ==
  IF Rest <= Qhdr \/ h.mux \notin Muxes THEN "stop"
  ELSE IF h.mux \notin nets THEN "skip"
  ELSE IF QmiLen(h) > Mtu \/ Rest < h.pkt_len + HdrSize(h) THEN "stop"
  ELSE IF h.cd THEN "command" ELSE IF h.what = "junk" THEN "stop" ELSE "data"

\* error_pkt and error: what was collected so far is handed on.
Stop == phase' = "flush" /\ UNCHANGED <<pulled, output, fails>>

\* An allocation fails.
NoMemory == fails > 0 /\ fails' = fails - 1 /\ short' = TRUE

\* Mutant: the second header is forgotten when a packet is pulled.
Pull_OneHeader(h) == pulled' = pulled + h.pkt_len + Qhdr

\* skip_pkt
Pull(h) == pulled' = pulled + h.pkt_len + HdrSize(h)

\* A packet on the chain.
Collect(v, len) == chain' = Append(chain, [vnd |-> v, len |-> len])

\* Mutant: enabling one device forgets the others.
DoFlowControl_Only(h) == flow' = IF h.what = "on" THEN {h.mux} ELSE flow \ {h.mux}

\* rmnet_map_do_flow_control
DoFlowControl(h) == flow' = IF h.what = "on" THEN flow \cup {h.mux} ELSE flow \ {h.mux}

\* rmnet_map_send_ack: the command with its type changed, in a buffer of its own.
MapSendAck(h) ==
  \/ answered' = Append(answered, [mux |-> h.mux, what |-> h.what]) /\ UNCHANGED <<short, fails>>
  \/ NoMemory /\ UNCHANGED answered

\* rmnet_data_map_command
MapCommand(h) ==
  IF h.what = "other" THEN UNCHANGED <<flow, answered, short, fails>> ELSE DoFlowControl(h) /\ MapSendAck(h)

QmiRx ==
  /\ phase = "parse" /\ format # "mbim"
  /\ LET h == Header
     IN  \/ Verdict(h) = "stop" /\ Stop
         \/ Verdict(h) = "skip" /\ Pull(h) /\ UNCHANGED <<output, phase, fails>>
         \/ Verdict(h) = "command" /\ MapCommand(h) /\ Pull(h) /\ UNCHANGED <<chain, given, phase>>
         \/ /\ Verdict(h) = "data" /\ Pull(h) /\ Collect(h.mux, QmiLen(h))
            /\ UNCHANGED <<given, answered, flow, short, phase, fails>>
         \/ /\ Verdict(h) = "data" /\ NoMemory /\ phase' = "flush"
            /\ UNCHANGED <<pulled, chain, given, answered, flow>>
  /\ UNCHANGED <<config, input, before, uplink>>

-----------------------------------------------------------------------------
(* rmnet_mbim_rx_handler, one datagram a step, NDP after NDP.              *)

\* wBlockLength, which the modem wrote: a frame that lost its end still claims it.
BlockLength == HeaderEnd(skb.hdrs[Len(skb.hdrs)])

\* A frame that claims to be longer than rx_max is not looked into.
Refused == BlockLength > RxMax

\* The number of the device is tested from above only: session mbim_mux_id indexes the table of
\* devices in front of its first element.
MbimVerdict(d) ==
  IF SessionVnd(d.tci) > QmapMode THEN "stop"
  ELSE IF SessionVnd(d.tci) = 0 THEN "wild"
  ELSE IF d.offset + d.len > skb.len \/ d.len > RxMax \/ d.what = "junk" THEN "stop" ELSE "data"

\* Undefined: the kernel oopses, or goes on with what it takes for a device.
Wild == phase' = "wild" /\ UNCHANGED <<pulled, output, fails>>

MbimRx ==
  /\ phase = "parse" /\ format = "mbim"
  /\ IF Refused \/ pulled \notin DOMAIN skb.hdrs THEN Stop
     ELSE LET d == skb.hdrs[pulled]
          IN  \/ MbimVerdict(d) = "stop" /\ Stop
              \/ MbimVerdict(d) = "wild" /\ Wild
              \/ /\ MbimVerdict(d) = "data" /\ pulled' = pulled + 1 /\ Collect(SessionVnd(d.tci), d.len)
                 /\ UNCHANGED <<given, answered, flow, short, phase, fails>>
              \/ /\ MbimVerdict(d) = "data" /\ NoMemory /\ phase' = "flush"
                 /\ UNCHANGED <<pulled, chain, given, answered, flow>>
  /\ UNCHANGED <<config, input, before, uplink>>

\* netif_receive_skb for one packet after the other.
Flush ==
  /\ phase = "flush"
  /\ IF chain = <<>> THEN phase' = "done" /\ UNCHANGED <<chain, given>>
     ELSE given' = Append(given, Head(chain)) /\ chain' = Tail(chain) /\ UNCHANGED phase
  /\ UNCHANGED <<config, input, pulled, answered, flow, short, before, uplink, fails>>

\* The end of rmnet_rx_handler: the frame goes back to the pool (MhiNetRx!Recycle).
Release ==
  /\ phase = "done" /\ phase' = "idle" /\ meant' = <<>> /\ skb' = NoFrame /\ pulled' = 0
  /\ given' = <<>> /\ answered' = <<>> /\ short' = FALSE
  /\ before' = {} /\ UNCHANGED <<config, chain, flow, uplink, fails>>

\* rmnet_vnd_start_xmit puts a header in front; for want of headroom MBIM drops the packet.
AddHeader ==
  /\ phase = "idle"
  /\ \E v \in Muxes, data \in Sizes, room \in {0, 3} :
       uplink' = [vnd |-> v, len |-> data,
                  hdr |-> IF format = "mbim" THEN AddMbimHdr(Base + v - 1, data)
                          ELSE AddQhdr(format = "qmap5", v, data, room)]
  /\ UNCHANGED <<config, input, pulled, output, before, phase, fails>>

FrameNext == Lay \/ Receive \/ QmiRx \/ MbimRx \/ Flush \/ Release \/ AddHeader

FrameSpec == FrameInit /\ [][FrameNext]_frameVars

-----------------------------------------------------------------------------
(* Properties.                                                             *)

\* What the frame was meant to hold.  Packets that end it: for a device that cannot be, of no known
\* protocol or cut off; under QMAP one that is too long for its device, under MBIM any packet of a
\* frame that is too long.
Known(p) == p.mux \in nets
TooLong(p) == IF format = "mbim" THEN HeaderEnd(skb.hdrs[Len(meant)]) > RxMax ELSE Known(p) /\ p.data > Mtu
Ends(k) ==
  LET p == meant[k]
  IN  p.mux \notin Muxes \/ TooLong(p) \/ (Known(p) /\ (p.what = "junk" \/ HeaderEnd(skb.hdrs[k]) > skb.len))
Good == {k \in DOMAIN meant : \A j \in 1 .. k : ~Ends(j)}

IsData(p)  == Known(p) /\ p.what = "ip"
IsOrder(p) == Known(p) /\ p.what \in {"on", "off"}
Data   == {k \in Good : IsData(meant[k])}
Orders == {k \in Good : IsOrder(meant[k])}

DataItem  == [k \in DOMAIN meant |-> [vnd |-> meant[k].mux, len |-> meant[k].data]]
OrderItem == [k \in DOMAIN meant |-> [mux |-> meant[k].mux, what |-> meant[k].what]]

\* s holds the items of the packets ks, once each and in their order.
Lists(s, ks, item) ==
  \E f \in [DOMAIN s -> ks] :
    /\ \A i, j \in DOMAIN s : i < j => f[i] < f[j]
    /\ \A k \in ks : \E i \in DOMAIN s : f[i] = k
    /\ \A i \in DOMAIN s : s[i] = item[f[i]]

\* The last order for a device counts.
LastOn(v) ==
  \E k \in Orders : /\ OrderItem[k] = [mux |-> v, what |-> "on"]
                    /\ \A j \in Orders : j > k => meant[j].mux # v
Ordered == {v \in Muxes : LastOn(v) \/ (v \in before /\ \A k \in Orders : meant[k].mux # v)}

\* The kernel is given the packets of the frame, each for its device, with its length and in
\* order, up to the first that is in error (the receive handlers); memory that runs short cuts
\* this list, and never changes it.  The handler leaves its table of devices only for a datagram
\* of session mbim_mux_id behind good ones: what becomes of such a frame nobody can say.
Exact ==
  \E n \in 0 .. Len(meant) : (~short => n = Len(meant)) /\ Lists(given, Data \cap 1 .. n, DataItem)
OffTable ==
  /\ format = "mbim" /\ BlockLength <= RxMax
  /\ \E k \in DOMAIN meant : meant[k].mux = 0 /\ \A j \in 1 .. k - 1 : ~Ends(j)
FrameExact == (phase = "done" => Exact) /\ (phase = "wild" => OffTable)

\* Each flow-control command before that is obeyed and acknowledged once, in order, and the last
\* one for a device counts (rmnet_data_map_command).
OrdersObeyed == phase = "done" /\ ~short => flow = Ordered /\ Lists(answered, Orders, OrderItem)

\* What is sent can be read as what is received is: same device, same length (add_qhdr,
\* add_qhdr_v5, add_mbim_hdr).
UplinkReadable ==
  uplink # <<>> =>
    LET h == uplink.hdr
    IN  IF format = "mbim" THEN SessionVnd(h.tci) = uplink.vnd /\ h.len = uplink.len
        ELSE h.mux = uplink.vnd /\ h.pkt_len - h.pad = uplink.len
=============================================================================

------------------------------ MODULE MhiNetTx ------------------------------
(***************************************************************************)
(* The transmit side of the network device (mhi_netdev_quectel.c): packets *)
(* of the virtual devices pass through the queue of the real device into   *)
(* one transfer ring, and a ring that runs full stops all of them.         *)
(*                                                                         *)
(* A packet is counted.  The kernel calls start_xmit of a device under the *)
(* lock of its queue and not while the queue is stopped, keeps what it     *)
(* could not hand over, and tries again when the queue is woken.           *)
(***************************************************************************)
EXTENDS Integers

CONSTANTS
  N,        \* descriptors of the transmit ring
  Low,      \* fewer free ones than this stop the queues (16)
  High,     \* more free ones than this wake them (32)
  V,        \* virtual devices (qmap_mode)
  Packets,  \* packets for each of them
  Acks,     \* flow-control commands of the modem, each to be acknowledged
  Restarts  \* times the real device is taken down and up

ASSUME NetTxAssumption ==
  /\ {N, Low, High, V} \subseteq Nat /\ {Packets, Acks, Restarts} \subseteq Nat
  /\ Restarts + 2 <= Low /\ Low <= High + 1 /\ High < N

VARIABLES
  ring,      \* descriptors in use
  stopped,   \* queue of the real device is stopped
  vstopped,  \* queues of the virtual ones
  backlog,   \* packets in the queue of the real device
  want,      \* packets in the queues of the virtual ones
  dropped,   \* packets the ring did not take
  pc,        \* the two ends of the real device: start_xmit and the completion
  vpc,       \* start_xmit of the virtual devices
  at,        \* where the two loops over the virtual devices are
  up, budget,
  missed     \* history: virtual devices whose last wake came before the stop it should have ended

queues == <<stopped, vstopped>>
vars   == <<ring, queues, backlog, want, dropped, pc, vpc, at, up, budget, missed>>

Vnds == 1 .. V
Free == N - ring

Init ==
  /\ ring = 0 /\ stopped = FALSE /\ vstopped = [v \in Vnds |-> FALSE]
  /\ backlog = 0 /\ want = [v \in Vnds |-> Packets] /\ dropped = 0
  /\ pc = [xmit |-> "idle", done |-> "idle"] /\ vpc = [v \in Vnds |-> "idle"]
  /\ at = [xmit |-> 1, done |-> 1]
  /\ up = TRUE /\ budget = [ack |-> Acks, restart |-> Restarts]
  /\ missed = {}

TypeOK ==
  /\ ring \in 0 .. N /\ stopped \in BOOLEAN /\ vstopped \in [Vnds -> BOOLEAN]
  /\ backlog \in Nat /\ want \in [Vnds -> Nat] /\ dropped \in Nat
  /\ pc \in [xmit : {"idle", "stop", "queue"}, done : {"idle", "look", "wake"}]
  /\ vpc \in [Vnds -> {"idle", "stop"}]
  /\ at \in [xmit : 1 .. V + 1, done : 1 .. V + 1]
  /\ up \in BOOLEAN /\ budget \in [ack : Nat, restart : Nat]
  /\ missed \subseteq Vnds

-----------------------------------------------------------------------------
(* rmnet_vnd_start_xmit.                                                   *)

\* It looks at the queue of the real device; a running one is given the packet, header in front.
VndXmit(v) ==
  /\ vpc[v] = "idle" /\ want[v] > 0 /\ ~vstopped[v]
  /\ IF stopped
     THEN vpc' = [vpc EXCEPT ![v] = "stop"] /\ UNCHANGED <<backlog, want>>
     ELSE /\ backlog' = backlog + 1 /\ want' = [want EXCEPT ![v] = @ - 1]
          /\ UNCHANGED vpc
  /\ UNCHANGED <<ring, queues, dropped, pc, at, up, budget, missed>>

\* The stop of its own queue, and NETDEV_TX_BUSY: the kernel keeps the packet.
VndStop(v) ==
  /\ vpc[v] = "stop"
  /\ vstopped' = [vstopped EXCEPT ![v] = TRUE] /\ vpc' = [vpc EXCEPT ![v] = "idle"]
  /\ UNCHANGED <<ring, stopped, backlog, want, dropped, pc, at, up, budget, missed>>

\* rmnet_map_send_ack, from the receive path.
SendAck ==
  /\ budget.ack > 0 /\ budget' = [budget EXCEPT !.ack = @ - 1] /\ backlog' = backlog + 1
  /\ UNCHANGED <<ring, queues, want, dropped, pc, vpc, at, up, missed>>

-----------------------------------------------------------------------------
(* mhi_netdev_xmit.                                                        *)

\* Mutant: the queues are stopped when the last descriptor is used, not before.
TooFew_None == Free < 1

TooFew == Free < Low

XmitStart ==
  /\ pc.xmit = "idle" /\ backlog > 0 /\ ~stopped /\ up
  /\ backlog' = backlog - 1
  /\ pc' = [pc EXCEPT !.xmit = IF TooFew THEN "stop" ELSE "queue"]
  /\ at' = [at EXCEPT !.xmit = 1]
  /\ UNCHANGED <<ring, queues, want, dropped, vpc, up, budget, missed>>

\* The virtual devices one after the other, then the real one.
XmitStopVnd ==
  /\ pc.xmit = "stop" /\ at.xmit \in Vnds
  /\ vstopped' = [vstopped EXCEPT ![at.xmit] = TRUE] /\ at' = [at EXCEPT !.xmit = @ + 1]
  /\ UNCHANGED <<ring, stopped, backlog, want, dropped, pc, vpc, up, budget, missed>>

XmitStop ==
  /\ pc.xmit = "stop" /\ at.xmit = V + 1
  /\ stopped' = TRUE /\ pc' = [pc EXCEPT !.xmit = "queue"]
  /\ UNCHANGED <<ring, vstopped, backlog, want, dropped, vpc, at, up, budget, missed>>

\* mhi_queue_transfer; a packet the ring does not take is freed and counted in tx_errors.
XmitQueue ==
  /\ pc.xmit = "queue" /\ pc' = [pc EXCEPT !.xmit = "idle"]
  /\ IF ring < N THEN ring' = ring + 1 /\ dropped' = dropped
                 ELSE ring' = ring /\ dropped' = dropped + 1
  /\ UNCHANGED <<queues, backlog, want, vpc, at, up, budget, missed>>

Xmit == XmitStart \/ XmitStopVnd \/ XmitStop \/ XmitQueue

-----------------------------------------------------------------------------
(* mhi_netdev_xfer_ul_cb, called for one buffer after the other.           *)

\* The event task has taken the element off the ring.
DoneStart ==
  /\ pc.done = "idle" /\ ring > 0 /\ ring' = ring - 1
  /\ pc' = [pc EXCEPT !.done = "look"]
  /\ UNCHANGED <<queues, backlog, want, dropped, vpc, at, up, budget, missed>>

DoneLook ==
  /\ pc.done = "look"
  /\ IF stopped /\ Free > High
     THEN /\ stopped' = FALSE /\ pc' = [pc EXCEPT !.done = "wake"] /\ at' = [at EXCEPT !.done = 1]
     ELSE /\ pc' = [pc EXCEPT !.done = "idle"] /\ UNCHANGED <<stopped, at>>
  /\ UNCHANGED <<ring, vstopped, backlog, want, dropped, vpc, up, budget, missed>>

\* Mutant: the virtual devices are left to wake by themselves.
DoneWake_MainOnly ==
  /\ pc.done = "wake" /\ pc' = [pc EXCEPT !.done = "idle"]
  /\ UNCHANGED <<ring, queues, backlog, want, dropped, vpc, at, up, budget, missed>>

\* netif_wake_queue of the virtual devices, one after the other.
DoneWake ==
  /\ pc.done = "wake"
  /\ IF at.done \in Vnds
     THEN /\ vstopped' = [vstopped EXCEPT ![at.done] = FALSE] /\ at' = [at EXCEPT !.done = @ + 1]
          /\ missed' = (IF vpc[at.done] = "stop" THEN missed \cup {at.done} ELSE missed \ {at.done})
          /\ UNCHANGED pc
     ELSE pc' = [pc EXCEPT !.done = "idle"] /\ UNCHANGED <<vstopped, at, missed>>
  /\ UNCHANGED <<ring, stopped, backlog, want, dropped, vpc, up, budget>>

Done == DoneStart \/ DoneLook \/ DoneWake

-----------------------------------------------------------------------------
\* The real device is taken down: what its queue holds is dropped by the kernel.
Down ==
  /\ up /\ pc.xmit = "idle" /\ budget.restart > 0
  /\ budget' = [budget EXCEPT !.restart = @ - 1]
  /\ up' = FALSE /\ backlog' = 0
  /\ UNCHANGED <<ring, queues, want, dropped, pc, vpc, at, missed>>

\* mhi_netdev_open: the queue starts, whatever the virtual ones do.
Open ==
  /\ ~up /\ up' = TRUE /\ stopped' = FALSE
  /\ UNCHANGED <<ring, vstopped, backlog, want, dropped, pc, vpc, at, budget, missed>>

Next ==
  \/ \E v \in Vnds : VndXmit(v) \/ VndStop(v)
  \/ SendAck \/ Xmit \/ Done \/ Down \/ Open

\* Queues that run are served, calls end, the modem takes what is in the ring.
Fairness ==
  /\ \A v \in Vnds : WF_vars(VndXmit(v) \/ VndStop(v))
  /\ WF_vars(Xmit) /\ WF_vars(Done) /\ WF_vars(Open)

Spec == Init /\ [][Next]_vars
FairSpec == Spec /\ Fairness

-----------------------------------------------------------------------------
(* Properties.                                                             *)

\* The queues stop early enough: no packet finds the ring full (mhi_netdev_xmit stops them with
\* descriptors to spare, of which each restart of a stopped device may cost one).
NeverFull == dropped = 0

\* A packet of a virtual device gets through, or its last wake was missed: the completion came between
\* the look at the real queue and the stop of its own in rmnet_vnd_start_xmit, and the code does
\* nothing against that.  Every other stop is undone, although the completions that could do so may
\* all come while the queues are being stopped.  (A restart of the real device wakes only its queue.)
EverySent ==
  \A v \in Vnds : \A k \in 1 .. Packets :
    want[v] >= k ~> (want[v] < k \/ v \in missed \/ budget.restart < Restarts)
=============================================================================

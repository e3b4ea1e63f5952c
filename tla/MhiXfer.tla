------------------------------ MODULE MhiXfer -------------------------------
(***************************************************************************)
(* One transfer channel: the client that queues buffers, the modem that    *)
(* moves them, the event task that gives them back, and the channel being  *)
(* prepared, unprepared and removed around them (core/mhi_main.c).         *)
(*                                                                         *)
(* A buffer is its number in the order of queueing.  Power management is   *)
(* what MhiPm makes of it, seen from here: M0, LOW (no doorbells), ERR.    *)
(* A section under a write lock is one step; the sections that only read   *)
(* pm_lock or the channel's lock are several, and the guards below name    *)
(* who is in one.                                                          *)
(***************************************************************************)
EXTENDS MhiRing, Integers

CONSTANTS
  Kinds,     \* clients there are: of mhi_queue_skb (TRUE), of mhi_queue_buf (FALSE)
  Uplink,    \* DMA_TO_DEVICE: counted in pending_pkts
  Burst,     \* doorbells in burst mode (the IP_HW_0 channels)
  Submits,   \* buffers the client queues
  Lows,      \* times the link leaves M0
  Cycles,    \* times the channel is unprepared
  Crashes, BufCrashes  \* errors of the modem, for the two kinds of client

ASSUME XferAssumption ==
  /\ Kinds \cup {Uplink, Burst} \subseteq BOOLEAN
  /\ {Submits, Lows, Cycles, Crashes, BufCrashes} \subseteq Nat

VARIABLES
  inline,                          \* the client calls mhi_queue_skb
  tre, buf,                        \* contents of the two rings
  tre_rp, tre_wp, buf_rp, buf_wp,  \* and their pointers
  ctxt_wp,                         \* wp in the channel context, in memory of the host
  db, kick,                        \* doorbell register: last value, not yet seen by the modem
  db_mode,                         \* burst mode: the next doorbell has to be rung
  base,                            \* the rings are allocated
  ch_state,
  m_on, m_burst, m_rp, m_wp,       \* the modem's side of the channel
  events,                          \* transfer events in the event ring
  pm_state, m0_ring,               \* the link; mhi_pm_m0_transition has doorbells to ring
  pending_pkts,
  pc,                              \* client, event task, channel life cycle
  hand, target,                    \* the task's buffer and the slot it stops at
  sent, got, returned,             \* queued so far; moved and not returned; returned
  budget

rings  == <<tre, buf, tre_rp, tre_wp, buf_rp, buf_wp, base>>
bell   == <<ctxt_wp, db, kick, db_mode>>
modem  == <<m_on, m_burst, m_rp, m_wp>>
link   == <<pm_state, m0_ring>>
task   == <<hand, target>>
ledger == <<sent, got, returned, pending_pkts>>
vars   == <<rings, bell, ch_state, modem, events, link, pc, task, ledger, inline, budget>>

Calling == {"lock", "fill", "adv_tre", "adv_buf", "db"}
Labels == [client |-> {"closed", "idle"} \cup Calling,
           task   |-> {"idle", "loop", "del", "cb"},
           life   |-> {"idle", "reset", "drain", "wait", "deinit"}]

At(p, l) == pc[p] = l
Goto(p, l) == pc' = [pc EXCEPT ![p] = l]
Spend(what) ==
  budget[what] > 0 /\ budget' = [budget EXCEPT ![what] = @ - 1] /\ UNCHANGED inline

\* Who reads pm_lock, and who reads the channel's lock, across steps.
PmReaders == (inline /\ pc["client"] \in {"adv_tre", "adv_buf"}) \/ At("life", "drain")
Completing == pc["task"] \notin {"idle"}
ChanReaders == (inline /\ At("client", "adv_buf")) \/ Completing

Init ==
  /\ tre = [i \in Slots |-> 0] /\ buf = [i \in Slots |-> 0]
  /\ tre_rp = 0 /\ tre_wp = 0 /\ buf_rp = 0 /\ buf_wp = 0 /\ base = FALSE
  /\ ctxt_wp = 0 /\ db = 0 /\ kick = FALSE /\ db_mode = FALSE
  /\ ch_state = "DISABLED"
  /\ m_on = FALSE /\ m_burst = FALSE /\ m_rp = 0 /\ m_wp = 0
  /\ events = <<>>
  /\ pm_state = "M0" /\ m0_ring = FALSE
  /\ pc = [client |-> "closed", task |-> "idle", life |-> "idle"]
  /\ hand = 0 /\ target = 0
  /\ sent = 0 /\ got = <<>> /\ returned = <<>> /\ pending_pkts = 0
  /\ inline \in Kinds
  /\ budget = [low |-> Lows, cycle |-> Cycles, crash |-> IF inline THEN Crashes ELSE BufCrashes]

TypeOK ==
  /\ tre \in [Slots -> 0 .. Submits] /\ buf \in [Slots -> 0 .. Submits]
  /\ {tre_rp, tre_wp, buf_rp, buf_wp, ctxt_wp, db, m_rp, m_wp, target} \subseteq Slots
  /\ {inline, base, kick, db_mode, m_on, m_burst, m0_ring} \subseteq BOOLEAN
  /\ ch_state \in {"DISABLED", "ENABLED", "SUSPENDED"}
  /\ events \in Seq([type : {"EOT", "OOB"}, ptr : Slots])
  /\ pm_state \in {"M0", "LOW", "ERR"}
  /\ DOMAIN pc = DOMAIN Labels /\ \A p \in DOMAIN pc : pc[p] \in Labels[p]
  /\ hand \in 0 .. Submits /\ sent \in 0 .. Submits
  /\ got \in Seq(0 .. Submits) /\ returned \in Seq((0 .. Submits) \X {"done", "notconn"})
  /\ pending_pkts \in -Submits .. Submits
  /\ budget \in [{"low", "cycle", "crash"} -> Nat]

-----------------------------------------------------------------------------
(* Doorbells.                                                              *)

\* Mutant: burst mode is not remembered.
RingChanDb_AlwaysRings(wp) == ctxt_wp' = wp /\ db' = wp /\ kick' = TRUE /\ UNCHANGED db_mode

\* Mutant: the channel context is only written along with the doorbell.
RingChanDb_ContextLate(wp) ==
  IF Burst /\ ~db_mode
  THEN UNCHANGED bell
  ELSE ctxt_wp' = wp /\ db' = wp /\ kick' = TRUE /\ db_mode' = (db_mode /\ ~Burst)

\* mhi_ring_chan_db with mhi_db_brstmode or mhi_db_brstmode_disable, wp being where the ring ends.
RingChanDb(wp) ==
  /\ ctxt_wp' = wp
  /\ IF Burst /\ ~db_mode
     THEN UNCHANGED <<db, kick, db_mode>>
     ELSE db' = wp /\ kick' = TRUE /\ db_mode' = (db_mode /\ ~Burst)

-----------------------------------------------------------------------------
(* Queueing a buffer: mhi_queue_skb and mhi_queue_buf.                     *)

\* The checks; a call that is turned away changes nothing.
Accepts == sent < Submits /\ ~Full(tre_rp, tre_wp) /\ (inline \/ pm_state # "ERR")
Call == /\ At("client", "idle") /\ Accepts
        /\ Goto("client", IF inline THEN "lock" ELSE "fill")
        /\ UNCHANGED <<rings, bell, ch_state, modem, events, link, task, ledger, inline, budget>>

Returns == Goto("client", "idle")

\* Both elements are written where both rings end.
Fill == /\ sent' = sent + 1
        /\ buf' = [buf EXCEPT ![buf_wp] = sent + 1]
        /\ tre' = [tre EXCEPT ![tre_wp] = sent + 1]
        /\ pending_pkts' = IF inline /\ Uplink THEN pending_pkts + 1 ELSE pending_pkts
        /\ Goto("client", "adv_tre")
        /\ UNCHANGED <<tre_rp, tre_wp, buf_rp, buf_wp, base, got, returned>>

\* mhi_queue_skb takes pm_lock, and keeps it, before it looks at pm_state.
LockPm == /\ At("client", "lock")
          /\ \/ pm_state = "ERR" /\ Returns /\ UNCHANGED <<rings, ledger>>
             \/ pm_state # "ERR" /\ Fill
          /\ UNCHANGED <<bell, ch_state, modem, events, link, task, inline, budget>>

\* mhi_gen_tre takes no lock.
GenTre == /\ At("client", "fill") /\ Fill
          /\ UNCHANGED <<bell, ch_state, modem, events, link, task, inline, budget>>

AdvanceTre == /\ At("client", "adv_tre")
              /\ tre_wp' = NextSlot(tre_wp)
              /\ Goto("client", "adv_buf")
              /\ UNCHANGED <<tre, buf, tre_rp, buf_rp, buf_wp, base, bell, ch_state, modem, events,
                             link, task, ledger, inline, budget>>

AdvanceBuf == /\ At("client", "adv_buf")
              /\ buf_wp' = NextSlot(buf_wp)
              /\ IF inline
                 THEN /\ Returns
                      /\ IF pm_state = "M0" THEN RingChanDb(tre_wp) ELSE UNCHANGED bell
                 ELSE Goto("client", "db") /\ UNCHANGED bell
              /\ UNCHANGED <<tre, buf, tre_rp, tre_wp, buf_rp, base, ch_state, modem, events, link,
                             task, ledger, inline, budget>>

\* The rest of mhi_queue_buf, under pm_lock and the channel's lock.
Doorbell == /\ At("client", "db")
            /\ pending_pkts' = IF Uplink THEN pending_pkts + 1 ELSE pending_pkts
            /\ IF pm_state = "M0" THEN RingChanDb(tre_wp) ELSE UNCHANGED bell
            /\ Returns
            /\ UNCHANGED <<rings, ch_state, modem, events, link, task, sent, got, returned, inline, budget>>

CallGoesOn == LockPm \/ GenTre \/ AdvanceTre \/ AdvanceBuf \/ Doorbell
Client == Call \/ CallGoesOn

-----------------------------------------------------------------------------
(* The event task: parse_xfer_event, holding the channel's lock.           *)

Event == Head(events)

\* An event of a channel that is not enabled is passed over.
TaskDrop == /\ At("task", "idle") /\ events # <<>>
            /\ ch_state # "ENABLED"
            /\ events' = Tail(events)
            /\ UNCHANGED <<rings, bell, ch_state, modem, link, pc, task, ledger, inline, budget>>

\* MHI_EV_CC_EOT: release up to and including the element the event points at ...
TaskEot == /\ At("task", "idle") /\ events # <<>> /\ Event.type = "EOT"
           /\ ch_state = "ENABLED"
           /\ events' = Tail(events)
           /\ target' = NextSlot(Event.ptr)
           /\ Goto("task", "loop")
           /\ UNCHANGED <<rings, bell, ch_state, modem, link, hand, ledger, inline, budget>>

\* ... the buffer first, then the element, then the callback.
TaskLoop == /\ At("task", "loop")
            /\ \/ /\ tre_rp = target
                  /\ Goto("task", "idle") /\ UNCHANGED <<buf_rp, hand>>
               \/ /\ tre_rp # target
                  /\ hand' = buf[buf_rp] /\ buf_rp' = NextSlot(buf_rp)
                  /\ Goto("task", "del")
            /\ UNCHANGED <<tre, buf, tre_rp, tre_wp, buf_wp, base, bell, ch_state, modem, events, link,
                           target, ledger, inline, budget>>

TaskDel == /\ At("task", "del")
           /\ tre_rp' = NextSlot(tre_rp)
           /\ Goto("task", "cb")
           /\ UNCHANGED <<tre, buf, tre_wp, buf_rp, buf_wp, base, bell, ch_state, modem, events, link,
                          task, ledger, inline, budget>>

\* Mutant: a packet that was not sent is not discounted.
Give_DoneOnly(id, fate) ==
  /\ returned' = Append(returned, <<id, fate>>)
  /\ got' = IF got = <<>> THEN got ELSE Tail(got)
  /\ pending_pkts' = IF Uplink /\ fate = "done" THEN pending_pkts - 1 ELSE pending_pkts
  /\ sent' = sent

\* A buffer goes back to the client.
Give(id, fate) == /\ returned' = Append(returned, <<id, fate>>)
                  /\ got' = IF got = <<>> THEN got ELSE Tail(got)
                  /\ pending_pkts' = IF Uplink THEN pending_pkts - 1 ELSE pending_pkts
                  /\ sent' = sent

TaskCallback == /\ At("task", "cb")
                /\ Give(hand, "done")
                /\ hand' = 0 /\ target' = target
                /\ Goto("task", "loop")
                /\ UNCHANGED <<rings, bell, ch_state, modem, events, link, inline, budget>>

\* Mutant: the doorbell is left to the next buffer.
TaskOob_Quiet == /\ At("task", "idle") /\ events # <<>> /\ Event.type = "OOB"
                 /\ ch_state = "ENABLED" /\ ~ChanReaders
                 /\ events' = Tail(events)
                 /\ db_mode' = TRUE /\ UNCHANGED <<ctxt_wp, db, kick>>
                 /\ UNCHANGED <<rings, ch_state, modem, link, pc, task, ledger, inline, budget>>

\* MHI_EV_CC_OOB: the modem has left burst mode.
TaskOob == /\ At("task", "idle") /\ events # <<>> /\ Event.type = "OOB"
           /\ ch_state = "ENABLED" /\ ~ChanReaders
           /\ events' = Tail(events)
           /\ IF tre_wp # tre_rp /\ pm_state = "M0"
              THEN /\ ctxt_wp' = tre_wp /\ db' = tre_wp /\ kick' = TRUE
                   /\ db_mode' = ~Burst
              ELSE db_mode' = TRUE /\ UNCHANGED <<ctxt_wp, db, kick>>
           /\ UNCHANGED <<rings, ch_state, modem, link, pc, task, ledger, inline, budget>>

\* mhi_process_data_event_ring looks at pm_state before its loop only, so a run that is under way
\* goes on after an error.
TaskEvent == TaskDrop \/ TaskEot \/ TaskOob
TaskInside == TaskLoop \/ TaskDel \/ TaskCallback
Task == TaskEvent \/ TaskInside

-----------------------------------------------------------------------------
(* The modem.                                                              *)

\* It sees the doorbell, and goes into burst mode if the channel has one ...
ModemKick == /\ m_on /\ kick
             /\ kick' = FALSE /\ m_wp' = db /\ m_burst' = Burst
             /\ UNCHANGED <<rings, ctxt_wp, db, db_mode, ch_state, m_on, m_rp, events, link, pc, task,
                            ledger, inline, budget>>

\* ... in which it reads wp from the channel context ...
ModemPoll == /\ m_on /\ m_burst /\ m_wp # ctxt_wp
             /\ m_wp' = ctxt_wp
             /\ UNCHANGED <<rings, bell, ch_state, m_on, m_burst, m_rp, events, link, pc, task, ledger,
                            inline, budget>>

\* ... until it has done everything it knows of.
ModemLeave == /\ m_on /\ m_burst /\ m_rp = m_wp
              /\ m_burst' = FALSE
              /\ events' = Append(events, [type |-> "OOB", ptr |-> m_rp])
              /\ UNCHANGED <<rings, bell, ch_state, m_on, m_rp, m_wp, link, pc, task, ledger, inline, budget>>

\* It moves some buffers and reports the last of them.
ModemMove == /\ m_on /\ m_rp # m_wp
             /\ \E k \in 1 .. Used(m_rp, m_wp) :
                  /\ m_rp' = Ahead(m_rp, k)
                  /\ got' = got \o SubSeq(Between(tre, m_rp, m_wp), 1, k)
                  /\ events' = Append(events, [type |-> "EOT", ptr |-> Ahead(m_rp, k - 1)])
             /\ UNCHANGED <<rings, bell, ch_state, m_on, m_burst, m_wp, link, pc, task, sent, returned,
                            pending_pkts, inline, budget>>

Modem == ModemKick \/ ModemPoll \/ ModemMove

-----------------------------------------------------------------------------
(* The link.                                                               *)

GoLow == /\ pm_state = "M0" /\ ~PmReaders /\ Spend("low")
         /\ pm_state' = "LOW" /\ m0_ring' = m0_ring
         /\ UNCHANGED <<rings, bell, ch_state, modem, events, pc, task, ledger>>

\* mhi_pm_m0_transition: first the state, ...
WakeM0 == /\ pm_state = "LOW" /\ ~PmReaders /\ ~m0_ring
          /\ pm_state' = "M0" /\ m0_ring' = TRUE
          /\ UNCHANGED <<rings, bell, ch_state, modem, events, pc, task, ledger, inline, budget>>

\* ... then the doorbells of every ring that is not empty, whatever the state is by then.
RingM0 == /\ m0_ring /\ ~ChanReaders
          /\ IF base /\ tre_wp # tre_rp THEN RingChanDb(tre_wp) ELSE UNCHANGED bell
          /\ m0_ring' = FALSE /\ pm_state' = pm_state
          /\ UNCHANGED <<rings, ch_state, modem, events, pc, task, ledger, inline, budget>>

Crash == /\ pm_state # "ERR" /\ ~PmReaders /\ Spend("crash")
         /\ pm_state' = "ERR" /\ m0_ring' = m0_ring
         /\ m_on' = FALSE
         /\ UNCHANGED <<rings, bell, ch_state, m_burst, m_rp, m_wp, events, pc, task, ledger>>

\* The modem comes back with empty event rings, once the devices are gone.
Recover == /\ pm_state = "ERR" /\ ch_state = "DISABLED" /\ At("life", "idle")
           /\ ~Completing /\ ~m0_ring
           /\ pm_state' = "M0" /\ m0_ring' = m0_ring /\ events' = <<>>
           /\ UNCHANGED <<rings, bell, ch_state, modem, pc, task, ledger, inline, budget>>

Link == GoLow \/ WakeM0 \/ RingM0 \/ Crash \/ Recover

-----------------------------------------------------------------------------
(* The life of the channel.                                                *)

\* __mhi_prepare_channel with mhi_init_chan_ctxt, its START command answered.
Prepare == /\ At("life", "idle") /\ At("client", "closed")
           /\ ch_state = "DISABLED" /\ pm_state = "M0" /\ ~m0_ring
           /\ base' = TRUE /\ buf' = [i \in Slots |-> 0]
           /\ tre_rp' = 0 /\ tre_wp' = 0 /\ buf_rp' = 0 /\ buf_wp' = 0 /\ tre' = tre
           /\ ctxt_wp' = 0 /\ db' = db /\ kick' = FALSE /\ db_mode' = TRUE
           /\ m_on' = TRUE /\ m_burst' = FALSE /\ m_rp' = 0 /\ m_wp' = 0
           /\ ch_state' = "ENABLED"
           /\ Goto("client", "idle")
           /\ UNCHANGED <<events, link, task, ledger, inline, budget>>

\* __mhi_unprepare_channel, called by a client that has stopped queueing.
Unprepare == /\ At("life", "idle") /\ At("client", "idle")
             /\ ch_state = "ENABLED" /\ ~ChanReaders /\ Spend("cycle")
             /\ ch_state' = "DISABLED"
             /\ pc' = [pc EXCEPT !["life"] = "reset", !["client"] = "closed"]
             /\ UNCHANGED <<rings, bell, modem, events, link, task, ledger>>

\* Mutant: the events are left as they are.
MarkStale_Not == events' = events /\ Goto("life", "drain")

\* mhi_mark_stale_events: what the event ring still holds will be passed over.
MarkStale == events' = <<>> /\ Goto("life", "drain")

\* RESET is answered, or skipped after an error.
ResetDone == /\ At("life", "reset") /\ pm_state \in {"M0", "ERR"}
             /\ m_on' = FALSE /\ MarkStale
             /\ UNCHANGED <<rings, bell, ch_state, m_burst, m_rp, m_wp, link, task, ledger, inline, budget>>

\* mhi_driver_remove, which runs after an error only.
Remove == /\ At("life", "idle") /\ pm_state = "ERR"
          /\ ch_state = "ENABLED" /\ ~ChanReaders
          /\ ch_state' = "SUSPENDED" /\ MarkStale
          /\ UNCHANGED <<rings, bell, modem, link, task, ledger, inline, budget>>

\* mhi_reset_data_chan gives back what is left, under pm_lock.
Drain == /\ At("life", "drain") /\ tre_rp # tre_wp
         /\ Give(buf[buf_rp], "notconn")
         /\ buf_rp' = NextSlot(buf_rp) /\ tre_rp' = NextSlot(tre_rp)
         /\ UNCHANGED <<tre, buf, tre_wp, buf_wp, base, bell, ch_state, modem, events, link, pc, task,
                        inline, budget>>
Drained == /\ At("life", "drain") /\ tre_rp = tre_wp
           /\ Goto("life", IF ch_state = "SUSPENDED" THEN "wait" ELSE "deinit")
           /\ UNCHANGED <<rings, bell, ch_state, modem, events, link, task, ledger, inline, budget>>

\* Mutant: remove does not wait for the client's calls.
Leave_AtOnce == /\ At("life", "wait")
                /\ Goto("life", "deinit")
                /\ UNCHANGED <<rings, bell, ch_state, modem, events, link, task, ledger, inline, budget>>

\* The remove callback of the client driver: it turns new calls away and waits for the last one
\* (mhi_uci and mhi_netdev by a lock and a flag, mhi_dtr by the mutex of its channel).
Leave == /\ At("life", "wait") /\ At("client", "idle")
         /\ pc' = [pc EXCEPT !["life"] = "deinit", !["client"] = "closed"]
         /\ UNCHANGED <<rings, bell, ch_state, modem, events, link, task, ledger, inline, budget>>

\* mhi_deinit_chan_ctxt
Deinit == /\ At("life", "deinit")
          /\ base' = FALSE /\ ch_state' = "DISABLED"
          /\ Goto("life", "idle")
          /\ UNCHANGED <<tre, buf, tre_rp, tre_wp, buf_rp, buf_wp, bell, modem, events, link, task,
                         ledger, inline, budget>>

Teardown == ResetDone \/ Remove \/ Drain \/ Drained \/ Leave \/ Deinit

-----------------------------------------------------------------------------
Next == Client \/ Task \/ Modem \/ ModemLeave \/ Link \/ Prepare \/ Unprepare \/ Teardown

\* A call goes on; events are handled until there is an error, and one that is being handled to
\* its end; an awake modem works; a teardown ends.
Fairness ==
  /\ WF_vars(CallGoesOn)
  /\ WF_vars(TaskEvent /\ pm_state # "ERR") /\ WF_vars(TaskInside)
  /\ WF_vars(pm_state = "M0" /\ Modem)
  /\ WF_vars(WakeM0) /\ WF_vars(RingM0) /\ WF_vars(Teardown)

Spec == Init /\ [][Next]_vars
FairSpec == Spec /\ Fairness
-----------------------------------------------------------------------------
(* Properties.                                                             *)

\* Whoever has checked only the transfer ring finds room in the buffer ring too: the comment at
\* the two rings in struct mhi_chan, on which mhi_queue_skb and mhi_queue_buf rely.
SpaceForBuf == pc["client"] \in {"lock", "fill"} => ~Full(buf_rp, buf_wp)

\* In burst mode somebody has the next word, and only one: the host may ring, the bell is
\* ringing, the modem is reading by itself, or it has just said that it stopped (parse_xfer_event
\* and mhi_db_brstmode).
BurstToken ==
  Burst /\ ch_state = "ENABLED" /\ m_on =>
    LET left == {i \in DOMAIN events : events[i].type = "OOB"}
    IN  \/ db_mode /\ ~kick /\ ~m_burst /\ left = {}
        \/ ~db_mode /\ kick /\ ~m_burst /\ left = {}
        \/ ~db_mode /\ ~kick /\ m_burst /\ left = {}
        \/ ~db_mode /\ ~kick /\ ~m_burst /\ \E i \in left : left = {i}

\* The state is well formed: everything has its type, the two rings room for the same, and a
\* burst-mode channel one next word.
WellFormed == TypeOK /\ SpaceForBuf /\ BurstToken

\* Nobody is about to ring, yet buffers are queued that the modem will not hear of.
Settled == /\ pm_state = "M0" /\ ~m0_ring /\ ch_state = "ENABLED"
           /\ pc["client"] \notin Calling
\* A queued buffer is announced even when it was queued while the link was down, or while the
\* modem was leaving burst mode (mhi_queue_skb, mhi_queue_buf, mhi_pm_m0_transition).
Announced ==
  Settled =>
    \/ m_wp = tre_wp
    \/ kick /\ (db = tre_wp \/ (Burst /\ ctxt_wp = tre_wp))
    \/ m_burst /\ ctxt_wp = tre_wp
    \/ \E i \in DOMAIN events : events[i].type = "OOB"

\* pending_pkts is what mhi_system_suspend goes by: when nothing is under way it counts the
\* uplink buffers in the ring, whatever errors and teardowns went before.
PendingExact ==
  At("life", "idle") /\ ~Completing /\ pc["client"] \notin Calling =>
    pending_pkts = IF Uplink /\ base THEN Used(tre_rp, tre_wp) ELSE 0

\* Nothing is written into a buffer ring after mhi_deinit_chan_ctxt has freed it.
NoWriteAfterFree == [][buf' # buf => base']_vars

\* The channel is the queue of XferQueue: first in, first out, nothing lost or returned twice,
\* and completed buffers are those the modem moved.
InHand == IF pc["task"] \in {"del", "cb"} THEN <<hand>> ELSE <<>>
Queue == INSTANCE XferQueue WITH
           open <- ch_state = "ENABLED",
           queue <- InHand \o Between(buf, buf_rp, tre_wp),
           moved <- got
QueueSpec == Queue!Spec

\* Every buffer that is queued comes back (parse_xfer_event or mhi_reset_data_chan).
AllReturned == \A k \in 1 .. Submits : sent >= k ~> Len(returned) >= k
=============================================================================

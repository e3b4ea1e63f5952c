------------------------------ MODULE MhiNetRx ------------------------------
(***************************************************************************)
(* The receive side of the network device (devices/mhi_netdev_quectel.c):  *)
(* the buffers of the ring, how they are polled (NAPI), handed to the      *)
(* demultiplexer, recycled and queued again, the worker that steps in when *)
(* memory is short, probe and remove.  Below it the data event ring        *)
(* (core/mhi_main.c): its interrupt, and mhi_poll.                         *)
(*                                                                         *)
(* A socket buffer is counted, not named: every step that allocates or     *)
(* frees one moves live.  What a frame holds is in RmnetFrame.             *)
(***************************************************************************)
EXTENDS Integers

CONSTANTS
  N,        \* descriptors of the receive ring
  PoolMax,  \* buffers kept for reuse (128)
  Weight,   \* events a poll may handle (poll_weight)
  Frames,   \* frames the modem sends
  Fails,    \* allocations that fail
  Crashes,  \* errors of the modem, each followed by a removal
  Early,    \* may frames come before probe is done?
  Short     \* may allocations fail during removal?

ASSUME NetRxAssumption ==
  /\ {N, PoolMax, Weight} \subseteq Nat \ {0}
  /\ {Frames, Fails, Crashes} \subseteq Nat /\ {Early, Short} \subseteq BOOLEAN

VARIABLES
  ring, events, msi,           \* descriptors queued; those with an event; the interrupt
  chain, pool, live,           \* qmap_chain, rx_allocated, buffers that exist
  napi, missed,                \* NAPI: off, idle, sched, disabled; scheduled once more
  did,                         \* rx_work of the poll
  hand, left,                  \* mhi_netdev_alloc_skb: the buffer in hand, no_tre to go
  pending, barrier,            \* alloc_work: queued; the run that remove waits for
  enabled, handler,            \* the flag under pm_lock; rx_handler is registered
  pm, sent, seen,              \* the modem; frames sent, and frames handed to the demultiplexer
  pc, budget

device == <<ring, events, msi>>
bufs   == <<chain, pool, live>>
poller == <<napi, missed>>
queuer == <<hand, left>>
worker == <<pending, barrier>>
state  == <<enabled, handler>>
modem  == <<pm, sent>>
vars   == <<device, bufs, poller, did, queuer, worker, state, modem, seen, pc, budget>>

Actors == {"poll", "work", "life"}
PollAt == {"idle", "events", "drain", "refill", "push", "complete"}
WorkAt == {"idle", "refill", "push"}
LifeAt == {"enable", "refill", "push", "napi_on", "handler", "bound", "disable", "unhook",
           "drop_chain", "drop_pool", "napi_off", "dealloc", "flush", "gone"}

At(a, l) == pc[a] = l
Goto(a, l) == pc' = [pc EXCEPT ![a] = l]
Spend(what) == budget[what] > 0 /\ budget' = [budget EXCEPT ![what] = @ - 1]

Init ==
  /\ ring = 0 /\ events = 0 /\ msi = FALSE
  /\ chain = 0 /\ pool = 0 /\ live = 0
  /\ napi = "off" /\ missed = FALSE /\ did = 0
  /\ hand = [a \in Actors |-> 0] /\ left = [a \in Actors |-> 0]
  /\ pending = FALSE /\ barrier = "none"
  /\ enabled = FALSE /\ handler = FALSE
  /\ pm = "ok" /\ sent = 0 /\ seen = 0
  /\ pc = [a \in Actors |-> IF a = "life" THEN "enable" ELSE "idle"]
  /\ budget = [fail |-> Fails, crash |-> Crashes]

TypeOK ==
  /\ ring \in 0 .. N /\ events \in 0 .. ring /\ msi \in BOOLEAN
  /\ chain \in 0 .. Weight /\ pool \in 0 .. PoolMax /\ live \in Nat
  /\ napi \in {"off", "idle", "sched", "disabled"} /\ missed \in BOOLEAN /\ did \in 0 .. Weight
  /\ hand \in [Actors -> 0 .. 1] /\ left \in [Actors -> 0 .. N]
  /\ pending \in BOOLEAN /\ barrier \in {"none", "queued", "running", "done"}
  /\ enabled \in BOOLEAN /\ handler \in BOOLEAN
  /\ pm \in {"ok", "err"} /\ sent \in 0 .. Frames /\ seen \in Nat
  /\ pc \in [Actors -> PollAt \cup WorkAt \cup LifeAt]
  /\ pc["poll"] \in PollAt /\ pc["work"] \in WorkAt /\ pc["life"] \in LifeAt
  /\ budget \in [{"fail", "crash"} -> Nat]

-----------------------------------------------------------------------------
(* The modem and its interrupt.                                            *)

ModemSend ==
  /\ pm = "ok" /\ events < ring /\ sent < Frames /\ (Early \/ At("life", "bound"))
  /\ events' = events + 1 /\ msi' = TRUE /\ sent' = sent + 1
  /\ UNCHANGED <<ring, bufs, poller, did, queuer, worker, state, pm, seen, pc, budget>>

ModemFail ==
  /\ pm = "ok" /\ At("life", "bound") /\ Spend("crash") /\ pm' = "err"
  /\ UNCHANGED <<device, bufs, poller, did, queuer, worker, state, sent, seen, pc>>

\* napi_schedule_prep and __napi_schedule: a poll that is already due is due once more.
NapiSchedule ==
  CASE napi = "idle"     -> napi' = "sched" /\ missed' = missed
    [] napi = "disabled" -> UNCHANGED poller
    [] OTHER             -> napi' = napi /\ missed' = TRUE

\* mhi_msi_handlr of an event ring its client manages, and mhi_netdev_status_cb.
Msi ==
  /\ msi /\ msi' = FALSE
  /\ IF events > 0 THEN NapiSchedule ELSE UNCHANGED poller
  /\ UNCHANGED <<ring, events, bufs, did, queuer, worker, state, modem, seen, pc, budget>>

-----------------------------------------------------------------------------
(* mhi_netdev_alloc_skb, by a poll, by the worker, by probe.               *)

\* schedule_delayed_work
ScheduleWork == pending' = TRUE

\* Mutant: a poll that finds no memory leaves it at that.
Result_NoWorker(a, ret) ==
  CASE a = "poll" -> Goto(a, "complete") /\ UNCHANGED worker
    [] a = "work" -> /\ Goto(a, "idle")
                     /\ barrier' = IF barrier = "running" THEN "done" ELSE barrier
                     /\ IF ret = "nomem" THEN ScheduleWork ELSE UNCHANGED pending
    [] a = "life" -> /\ Goto(a, "napi_on") /\ UNCHANGED barrier
                     /\ IF ret # "ok" THEN ScheduleWork ELSE UNCHANGED pending

\* What the caller does with the answer: the poll asks the worker for help when there is no
\* memory, the worker asks itself, probe asks it whatever went wrong.
Result(a, ret) ==
  CASE a = "poll" -> /\ Goto(a, "complete") /\ UNCHANGED barrier
                     /\ IF ret = "nomem" THEN ScheduleWork ELSE UNCHANGED pending
    [] a = "work" -> /\ Goto(a, "idle")
                     /\ barrier' = IF barrier = "running" THEN "done" ELSE barrier
                     /\ IF ret = "nomem" THEN ScheduleWork ELSE UNCHANGED pending
    [] a = "life" -> /\ Goto(a, "napi_on") /\ UNCHANGED barrier
                     /\ IF ret # "ok" THEN ScheduleWork ELSE UNCHANGED pending

\* A buffer from the pool, or a new one, or none.
TakePooled(a) ==
  /\ At(a, "refill") /\ left[a] > 0 /\ pool > 0
  /\ pool' = pool - 1 /\ hand' = [hand EXCEPT ![a] = 1] /\ Goto(a, "push")
  /\ UNCHANGED <<device, chain, live, poller, did, left, worker, state, modem, seen, budget>>
TakeNew(a) ==
  /\ At(a, "refill") /\ left[a] > 0 /\ pool = 0
  /\ live' = live + 1 /\ hand' = [hand EXCEPT ![a] = 1] /\ Goto(a, "push")
  /\ UNCHANGED <<device, chain, pool, poller, did, left, worker, state, modem, seen, budget>>
TakeNone(a) ==
  /\ At(a, "refill") /\ left[a] > 0 /\ pool = 0 /\ (enabled \/ Short)
  /\ Spend("fail") /\ Result(a, "nomem")
  /\ UNCHANGED <<device, bufs, poller, did, queuer, state, modem, seen>>

Taken(a) ==
  /\ At(a, "refill") /\ left[a] = 0 /\ Result(a, "ok")
  /\ UNCHANGED <<device, bufs, poller, did, queuer, state, modem, seen, budget>>

\* Mutant: a buffer that cannot be queued is forgotten.
Push_Leaks(a) ==
  /\ At(a, "push") /\ hand' = [hand EXCEPT ![a] = 0]
  /\ IF enabled /\ pm = "ok" /\ ring < N
     THEN /\ ring' = ring + 1 /\ left' = [left EXCEPT ![a] = @ - 1]
          /\ Goto(a, "refill") /\ UNCHANGED <<live, worker>>
     ELSE Result(a, "io") /\ UNCHANGED <<ring, left, live>>
  /\ UNCHANGED <<events, msi, chain, pool, poller, did, state, modem, seen, budget>>

\* With pm_lock read, and rx_lock around mhi_queue_transfer: free descriptors were counted
\* before, so that the ring may be full by now.
Push(a) ==
  /\ At(a, "push") /\ hand' = [hand EXCEPT ![a] = 0]
  /\ IF enabled /\ pm = "ok" /\ ring < N
     THEN /\ ring' = ring + 1 /\ left' = [left EXCEPT ![a] = @ - 1]
          /\ Goto(a, "refill") /\ UNCHANGED <<live, worker>>
     ELSE Result(a, "io") /\ live' = live - 1 /\ UNCHANGED <<ring, left>>
  /\ UNCHANGED <<events, msi, chain, pool, poller, did, state, modem, seen, budget>>

AllocSkb(a) == TakePooled(a) \/ TakeNew(a) \/ TakeNone(a) \/ Taken(a) \/ Push(a)

\* mhi_get_no_free_descriptors and the loop's start.
AllocStart(a) == Goto(a, "refill") /\ left' = [left EXCEPT ![a] = N - ring]

\* mhi_netdev_alloc_work begins.
WorkStart ==
  /\ pending /\ At("work", "idle") /\ pending' = FALSE
  /\ barrier' = IF barrier = "queued" THEN "running" ELSE barrier
  /\ AllocStart("work")
  /\ UNCHANGED <<device, bufs, poller, did, hand, state, modem, seen, budget>>

-----------------------------------------------------------------------------
(* mhi_netdev_poll.                                                        *)

\* napi_complete: a poll that was due once more begins again.
NapiComplete == IF missed THEN napi' = napi /\ missed' = FALSE ELSE napi' = "idle" /\ UNCHANGED missed

\* mhi_poll turns a poll away when the modem has failed.
PollStart ==
  /\ napi = "sched" /\ At("poll", "idle") /\ did' = 0
  /\ IF pm = "err" THEN NapiComplete /\ UNCHANGED pc ELSE Goto("poll", "events") /\ UNCHANGED poller
  /\ UNCHANGED <<device, bufs, queuer, worker, state, modem, seen, budget>>

\* mhi_process_data_event_ring with mhi_netdev_xfer_dl_cb for one event, the ring's lock held.
PollEvent ==
  /\ At("poll", "events") /\ events > 0 /\ did < Weight
  /\ events' = events - 1 /\ ring' = ring - 1 /\ chain' = chain + 1 /\ did' = did + 1
  /\ UNCHANGED <<msi, pool, live, poller, queuer, worker, state, modem, seen, pc, budget>>

PollEvents ==
  /\ At("poll", "events") /\ (events = 0 \/ did = Weight) /\ Goto("poll", "drain")
  /\ UNCHANGED <<device, bufs, poller, did, queuer, worker, state, modem, seen, budget>>

\* The end of rmnet_rx_handler: a buffer nobody else holds is kept, up to a limit.
Recycle == \/ pool < PoolMax /\ pool' = pool + 1 /\ live' = live
           \/ pool' = pool /\ live' = live - 1

\* netif_receive_skb: without rx_handler the frame has no taker.
PollDrain ==
  /\ At("poll", "drain") /\ chain > 0 /\ chain' = chain - 1
  /\ IF handler THEN Recycle /\ seen' = seen + 1
                ELSE pool' = pool /\ live' = live - 1 /\ seen' = seen
  /\ UNCHANGED <<device, poller, did, queuer, worker, state, modem, pc, budget>>

\* New buffers, unless the worker is going to see to it.
PollRefill ==
  /\ At("poll", "drain") /\ chain = 0
  /\ IF pending THEN Goto("poll", "complete") /\ UNCHANGED left ELSE AllocStart("poll")
  /\ UNCHANGED <<device, bufs, poller, did, hand, worker, state, modem, seen, budget>>

\* Mutant: every poll says that it is done.
PollComplete_Always ==
  /\ At("poll", "complete") /\ Goto("poll", "idle") /\ NapiComplete
  /\ UNCHANGED <<device, bufs, did, queuer, worker, state, modem, seen, budget>>

\* A poll that has used up its weight is called again.
PollComplete ==
  /\ At("poll", "complete") /\ Goto("poll", "idle")
  /\ IF did < Weight THEN NapiComplete ELSE UNCHANGED poller
  /\ UNCHANGED <<device, bufs, did, queuer, worker, state, modem, seen, budget>>

Poll == PollStart \/ PollEvent \/ PollEvents \/ PollDrain \/ PollRefill \/ AllocSkb("poll") \/ PollComplete

-----------------------------------------------------------------------------
(* Probe and remove.                                                       *)

\* mhi_netdev_enable_iface: the interface is there, its ring is filled, then NAPI begins.
Enable ==
  /\ At("life", "enable") /\ enabled' = TRUE /\ AllocStart("life")
  /\ UNCHANGED <<device, bufs, poller, did, hand, worker, handler, modem, seen, budget>>
NapiEnable ==
  /\ At("life", "napi_on") /\ napi' = "idle" /\ Goto("life", "handler")
  /\ UNCHANGED <<device, bufs, missed, did, queuer, worker, state, modem, seen, budget>>

\* The end of mhi_netdev_probe: virtual devices, then the receive handler.
Probed ==
  /\ At("life", "handler") /\ handler' = TRUE /\ Goto("life", "bound")
  /\ UNCHANGED <<device, bufs, poller, did, queuer, worker, enabled, modem, seen, budget>>

\* mhi_driver_remove after an error: events go stale, and what the ring holds is given back
\* with -ENOTCONN and freed.
Reset ==
  /\ At("life", "bound") /\ pm = "err" /\ ~At("poll", "events")
  /\ events' = 0 /\ ring' = 0 /\ live' = live - ring /\ Goto("life", "disable")
  /\ UNCHANGED <<msi, chain, pool, poller, did, queuer, worker, state, modem, seen, budget>>

\* mhi_netdev_remove, in its order.
Disable ==
  /\ At("life", "disable") /\ enabled' = FALSE /\ Goto("life", "unhook")
  /\ UNCHANGED <<device, bufs, poller, did, queuer, worker, handler, modem, seen, budget>>
Unhook ==
  /\ At("life", "unhook") /\ handler' = FALSE /\ Goto("life", "drop_chain")
  /\ UNCHANGED <<device, bufs, poller, did, queuer, worker, enabled, modem, seen, budget>>
DropChain ==
  /\ At("life", "drop_chain") /\ chain' = 0 /\ live' = live - chain /\ Goto("life", "drop_pool")
  /\ UNCHANGED <<device, pool, poller, did, queuer, worker, state, modem, seen, budget>>

\* By remove itself, and once more by mhi_netdev_dealloc.
DropPool(from, to) ==
  /\ At("life", from) /\ pool' = 0 /\ live' = live - pool /\ Goto("life", to)
  /\ UNCHANGED <<device, chain, poller, did, queuer, worker, state, modem, seen, budget>>

\* napi_disable waits for the poll under way.
NapiDisable ==
  /\ At("life", "napi_off") /\ napi = "idle" /\ napi' = "disabled" /\ Goto("life", "dealloc")
  /\ UNCHANGED <<device, bufs, missed, did, queuer, worker, state, modem, seen, budget>>

\* flush_delayed_work waits for the run that is queued or under way, not for later ones.
FlushStart ==
  /\ At("life", "flush") /\ barrier = "none"
  /\ barrier' = IF pending THEN "queued" ELSE IF At("work", "idle") THEN "done" ELSE "running"
  /\ UNCHANGED <<device, bufs, poller, did, queuer, pending, state, modem, seen, pc, budget>>

\* Mutant: remove does not wait for the worker.
FlushEnd_AtOnce ==
  /\ At("life", "flush") /\ Goto("life", "gone")
  /\ UNCHANGED <<device, bufs, poller, did, queuer, worker, state, modem, seen, budget>>

FlushEnd ==
  /\ At("life", "flush") /\ barrier = "done" /\ Goto("life", "gone")
  /\ UNCHANGED <<device, bufs, poller, did, queuer, worker, state, modem, seen, budget>>

Probe  == Enable \/ AllocSkb("life") \/ NapiEnable \/ Probed
Remove == \/ Reset \/ Disable \/ Unhook \/ DropChain \/ DropPool("drop_pool", "napi_off") \/ NapiDisable
          \/ DropPool("dealloc", "flush") \/ FlushStart \/ FlushEnd
Work   == WorkStart \/ AllocSkb("work")

Next == ModemSend \/ ModemFail \/ Msi \/ Poll \/ Work \/ Probe \/ Remove

\* Interrupts, softirqs, queued work and threads inside the driver run.
Fairness == WF_vars(Msi) /\ WF_vars(Poll) /\ WF_vars(Work) /\ WF_vars(Probe) /\ WF_vars(Remove)

Spec == Init /\ [][Next]_vars
FairSpec == Spec /\ Fairness

-----------------------------------------------------------------------------
(* Properties.                                                             *)

\* Every buffer is in one place only and none is lost, whichever of mhi_netdev_poll, the worker
\* and mhi_netdev_remove gets at ring, chain and pool first.
SkbsCounted == live = ring + chain + pool + hand["poll"] + hand["work"] + hand["life"]

\* The state is well formed: everything has its type, the pool its bound, a buffer its place.
WellFormed == TypeOK /\ SkbsCounted

\* When mhi_netdev_remove is done, nothing of the device is left: no buffer, no poll and no
\* worker that would go on with freed memory.
NothingLeft ==
  At("life", "gone") => live = 0 /\ At("poll", "idle") /\ At("work", "idle") /\ ~pending

\* A frame with an event is handed on although interrupts are not raised for every event and a
\* poll may stop before the ring is empty (mhi_msi_handlr, mhi_netdev_poll).
Delivered == \A k \in 1 .. Frames : sent >= k ~> (seen >= k \/ pm = "err")

\* A modem without free descriptors is given some, however often memory is short
\* (mhi_netdev_poll, mhi_netdev_alloc_work).
Replenished == (At("life", "bound") /\ events = ring) ~> (events < ring \/ pm = "err")
=============================================================================

--------------------------- MODULE MhiNetRxProofs ---------------------------
(***************************************************************************)
(* The receive side of the network device keeps account of its buffers,    *)
(* and a removal leaves none of them and nobody who would use them, for    *)
(* rings, pools and polls of any size and any number of frames and         *)
(* failing allocations.                                                    *)
(*                                                                         *)
(* Neither is inductive.  Account ties what a poll has in hand to the place *)
(* it is at; Closing says what each step of mhi_netdev_remove leaves behind *)
(* for the next, and Flushed what its flush of the worker waits for.       *)
(***************************************************************************)
EXTENDS MhiNetRx, TLAPS

\* What an actor has in hand, and what a poll has on its chain.
Account ==
  /\ \A a \in Actors : /\ hand[a] = (IF pc[a] = "push" THEN 1 ELSE 0)
                       /\ pc[a] = "push" => left[a] > 0
  /\ chain <= did
  /\ pc["poll"] \notin {"events", "drain"} => chain = 0

Starting == {"enable", "refill", "push", "napi_on"}
Leaving  == {"disable", "unhook", "drop_chain", "drop_pool", "napi_off", "dealloc", "flush", "gone"}

\* NAPI is on from napi_enable to napi_disable, and a poll runs only when it was scheduled.
Polling ==
  /\ napi # "sched" => pc["poll"] = "idle"
  /\ napi = "off" <=> pc["life"] \in Starting
  /\ napi = "disabled" <=> pc["life"] \in {"dealloc", "flush", "gone"}

\* What a removal has done so far.
Closing ==
  /\ pc["life"] \in Leaving => pm = "err" /\ ring = 0 /\ events = 0
  /\ pc["life"] \in Leaving \ {"disable"} => ~enabled
  /\ pc["life"] \in {"flush", "gone"} => pool = 0
  /\ pc["life"] # "flush" => barrier \in {"none", "done"}
  /\ pc["life"] \notin {"flush", "gone"} => barrier = "none"
  /\ pc["life"] = "gone" => barrier = "done"

\* The run that flush_delayed_work waits for is the last one, unless allocations fail on.
Flushed ==
  /\ barrier = "queued"  => pending
  /\ barrier = "running" => ~pending /\ pc["work"] # "idle"
  /\ barrier = "done"    => ~pending /\ pc["work"] = "idle"

IInv == TypeOK /\ SkbsCounted /\ Account /\ Polling /\ Closing /\ (Short = FALSE => Flushed)

\* The parts of TypeOK.
Counts == ring \in 0 .. N /\ events \in 0 .. ring /\ chain \in 0 .. Weight /\ pool \in 0 .. PoolMax /\ live \in Nat
Flags  == msi \in BOOLEAN /\ missed \in BOOLEAN /\ pending \in BOOLEAN /\ enabled \in BOOLEAN /\ handler \in BOOLEAN
Held   == hand \in [Actors -> 0 .. 1] /\ left \in [Actors -> 0 .. N]
Places == /\ pc \in [Actors -> PollAt \cup WorkAt \cup LifeAt]
          /\ pc["poll"] \in PollAt /\ pc["work"] \in WorkAt /\ pc["life"] \in LifeAt
Others == /\ napi \in {"off", "idle", "sched", "disabled"} /\ did \in 0 .. Weight
          /\ barrier \in {"none", "queued", "running", "done"} /\ pm \in {"ok", "err"}
          /\ sent \in 0 .. Frames /\ seen \in Nat /\ budget \in [{"fail", "crash"} -> Nat]

\* The assumption, constant by constant.
LEMMA Consts ==
  /\ N \in Nat \ {0} /\ PoolMax \in Nat \ {0} /\ Weight \in Nat \ {0}
  /\ Frames \in Nat /\ Fails \in Nat /\ Crashes \in Nat
BY NetRxAssumption DEF NetRxAssumption

\* Before the probe there is no buffer anywhere.
LEMMA InitInv == Init => IInv
<1> SUFFICES ASSUME Init PROVE IInv
  OBVIOUS
<1> USE Consts DEF Init, Actors
<1>1. TypeOK
  <2>1. hand \in [Actors -> 0 .. 1] /\ left \in [Actors -> 0 .. N]
    OBVIOUS
  <2>2. /\ pc \in [Actors -> PollAt \cup WorkAt \cup LifeAt]
        /\ pc["poll"] \in PollAt /\ pc["work"] \in WorkAt /\ pc["life"] \in LifeAt
    BY DEF PollAt, WorkAt, LifeAt
  <2>3. budget \in [{"fail", "crash"} -> Nat]
    OBVIOUS
  <2>4. msi \in BOOLEAN /\ missed \in BOOLEAN /\ pending \in BOOLEAN /\ enabled \in BOOLEAN /\ handler \in BOOLEAN
    BY Zenon
  <2>5. QED
    BY <2>1, <2>2, <2>3, <2>4 DEF TypeOK
<1>2. SkbsCounted /\ Account /\ Polling
  BY DEF SkbsCounted, Account, Polling, Starting
<1>3. Closing /\ Flushed
  BY DEF Closing, Flushed, Leaving
<1>4. QED
  BY <1>1, <1>2, <1>3 DEF IInv

\* What is dropped was there.
LEMMA DropFits ==
  ASSUME TypeOK, SkbsCounted
  PROVE  live - pool \in Nat
<1>1. hand["poll"] \in Nat /\ hand["work"] \in Nat /\ hand["life"] \in Nat
  BY DEF TypeOK, Actors
<1>2. QED
  BY <1>1 DEF TypeOK, SkbsCounted

\* The modem sends, fails, or its interrupt is served.
LEMMA ModemKeeps ==
  ASSUME IInv, ModemSend \/ ModemFail \/ Msi
  PROVE  IInv'
<1> USE Consts DEF TypeOK, SkbsCounted, Account, Polling, Closing, Flushed, Actors, PollAt, WorkAt,
       LifeAt, Starting, Leaving, At, Goto, device, bufs, poller, queuer, worker, state, modem
<1>0. TypeOK /\ SkbsCounted /\ Account /\ Polling /\ Closing /\ (Short = FALSE => Flushed)
  BY DEF IInv
<1>1. CASE ModemSend
  BY <1>0, <1>1 DEF IInv, ModemSend
<1>2. CASE ModemFail
  BY <1>0, <1>2 DEF IInv, ModemFail, Spend
<1>3. CASE Msi
  <2>1. TypeOK'
    <3>1. Counts'
      BY <1>0, <1>3 DEF Counts, Msi, NapiSchedule
    <3>2. Flags'
      BY <1>0, <1>3 DEF Flags, Msi, NapiSchedule
    <3>3. Held'
      BY <1>0, <1>3 DEF Held, Msi, NapiSchedule
    <3>4. Places'
      BY <1>0, <1>3 DEF Places, Msi, NapiSchedule
    <3>5. Others'
      BY <1>0, <1>3 DEF Others, Msi, NapiSchedule
    <3>6. QED
      BY <3>1, <3>2, <3>3, <3>4, <3>5 DEF Counts, Flags, Held, Places, Others
  <2>2. SkbsCounted' /\ Account'
    BY <1>0, <1>3 DEF Msi, NapiSchedule
  <2>3. Polling'
    BY <1>0, <1>3 DEF Msi, NapiSchedule
  <2>4. Closing'
    BY <1>0, <1>3 DEF Msi, NapiSchedule
  <2>5. Short = FALSE => Flushed'
    BY <1>0, <1>3 DEF Msi, NapiSchedule
  <2>6. QED
    BY <2>1, <2>2, <2>3, <2>4, <2>5 DEF IInv
<1>4. QED
  BY <1>1, <1>2, <1>3

\* mhi_netdev_alloc_skb, called by a poll.
LEMMA PollAllocKeeps ==
  ASSUME IInv, AllocSkb("poll")
  PROVE  IInv'
<1> USE Consts DEF TypeOK, SkbsCounted, Account, Polling, Closing, Flushed, Actors, PollAt, WorkAt,
       LifeAt, Starting, Leaving, At, Goto, device, bufs, poller, queuer, worker, state, modem
<1>0. TypeOK /\ SkbsCounted /\ Account /\ Polling /\ Closing /\ (Short = FALSE => Flushed)
  BY DEF IInv
<1>1. CASE TakePooled("poll")
  BY <1>0, <1>1 DEF IInv, TakePooled
<1>2. CASE TakeNew("poll")
  BY <1>0, <1>2 DEF IInv, TakeNew
<1>3. CASE TakeNone("poll")
  <2>1. TypeOK'
    <3>1. Counts'
      BY <1>0, <1>3 DEF Counts, TakeNone, Spend, Result, ScheduleWork
    <3>2. Flags'
      BY <1>0, <1>3 DEF Flags, TakeNone, Spend, Result, ScheduleWork
    <3>3. Held'
      BY <1>0, <1>3 DEF Held, TakeNone, Spend, Result, ScheduleWork
    <3>4. Places'
      BY <1>0, <1>3 DEF Places, TakeNone, Spend, Result, ScheduleWork
    <3>5. Others'
      BY <1>0, <1>3 DEF Others, TakeNone, Spend, Result, ScheduleWork
    <3>6. QED
      BY <3>1, <3>2, <3>3, <3>4, <3>5 DEF Counts, Flags, Held, Places, Others
  <2>2. SkbsCounted' /\ Account'
    BY <1>0, <1>3 DEF TakeNone, Spend, Result, ScheduleWork
  <2>3. Polling'
    BY <1>0, <1>3 DEF TakeNone, Spend, Result, ScheduleWork
  <2>4. Closing'
    BY <1>0, <1>3 DEF TakeNone, Spend, Result, ScheduleWork
  <2>5. Short = FALSE => Flushed'
    BY <1>0, <1>3 DEF TakeNone, Spend, Result, ScheduleWork
  <2>6. QED
    BY <2>1, <2>2, <2>3, <2>4, <2>5 DEF IInv
<1>4. CASE Taken("poll")
  BY <1>0, <1>4, SMTT(60) DEF IInv, Taken, Result, ScheduleWork
<1>5. CASE Push("poll")
  BY <1>0, <1>5 DEF IInv, Push, Result, ScheduleWork
<1>6. QED
  BY <1>1, <1>2, <1>3, <1>4, <1>5 DEF AllocSkb

\* mhi_netdev_alloc_skb, called by the worker.
LEMMA WorkAllocKeeps ==
  ASSUME IInv, AllocSkb("work")
  PROVE  IInv'
<1> USE Consts DEF TypeOK, SkbsCounted, Account, Polling, Closing, Flushed, Actors, PollAt, WorkAt,
       LifeAt, Starting, Leaving, At, Goto, device, bufs, poller, queuer, worker, state, modem
<1>0. TypeOK /\ SkbsCounted /\ Account /\ Polling /\ Closing /\ (Short = FALSE => Flushed)
  BY DEF IInv
<1>1. CASE TakePooled("work")
  BY <1>0, <1>1 DEF IInv, TakePooled
<1>2. CASE TakeNew("work")
  BY <1>0, <1>2 DEF IInv, TakeNew
<1>3. CASE TakeNone("work")
  <2>1. TypeOK'
    <3>1. Counts'
      BY <1>0, <1>3 DEF Counts, TakeNone, Spend, Result, ScheduleWork
    <3>2. Flags'
      BY <1>0, <1>3 DEF Flags, TakeNone, Spend, Result, ScheduleWork
    <3>3. Held'
      BY <1>0, <1>3 DEF Held, TakeNone, Spend, Result, ScheduleWork
    <3>4. Places'
      BY <1>0, <1>3 DEF Places, TakeNone, Spend, Result, ScheduleWork
    <3>5. Others'
      BY <1>0, <1>3 DEF Others, TakeNone, Spend, Result, ScheduleWork
    <3>6. QED
      BY <3>1, <3>2, <3>3, <3>4, <3>5 DEF Counts, Flags, Held, Places, Others
  <2>2. SkbsCounted' /\ Account'
    BY <1>0, <1>3 DEF TakeNone, Spend, Result, ScheduleWork
  <2>3. Polling'
    BY <1>0, <1>3 DEF TakeNone, Spend, Result, ScheduleWork
  <2>4. Closing'
    BY <1>0, <1>3 DEF TakeNone, Spend, Result, ScheduleWork
  <2>5. Short = FALSE => Flushed'
    BY <1>0, <1>3 DEF TakeNone, Spend, Result, ScheduleWork
  <2>6. QED
    BY <2>1, <2>2, <2>3, <2>4, <2>5 DEF IInv
<1>4. CASE Taken("work")
  <2>1. TypeOK'
    <3>1. Counts'
      BY <1>0, <1>4 DEF Counts, Taken, Result, ScheduleWork
    <3>2. Flags'
      BY <1>0, <1>4 DEF Flags, Taken, Result, ScheduleWork
    <3>3. Held'
      BY <1>0, <1>4 DEF Held, Taken, Result, ScheduleWork
    <3>4. Places'
      <4>1. pc' = [pc EXCEPT !["work"] = "idle"]
        BY <1>4 DEF Taken, Result
      <4>2. pc'["work"] = "idle" /\ pc'["poll"] = pc["poll"] /\ pc'["life"] = pc["life"]
        BY <1>0, <4>1
      <4>3. QED
        BY <1>0, <4>1, <4>2 DEF Places
    <3>5. Others'
      BY <1>0, <1>4 DEF Others, Taken, Result, ScheduleWork
    <3>6. QED
      BY <3>1, <3>2, <3>3, <3>4, <3>5 DEF Counts, Flags, Held, Places, Others
  <2>2. SkbsCounted' /\ Account'
    BY <1>0, <1>4 DEF Taken, Result, ScheduleWork
  <2>3. Polling'
    BY <1>0, <1>4 DEF Taken, Result, ScheduleWork
  <2>4. Closing'
    BY <1>0, <1>4 DEF Taken, Result, ScheduleWork
  <2>5. Short = FALSE => Flushed'
    BY <1>0, <1>4 DEF Taken, Result, ScheduleWork
  <2>6. QED
    BY <2>1, <2>2, <2>3, <2>4, <2>5 DEF IInv
<1>5. CASE Push("work")
  BY <1>0, <1>5 DEF IInv, Push, Result, ScheduleWork
<1>6. QED
  BY <1>1, <1>2, <1>3, <1>4, <1>5 DEF AllocSkb

\* mhi_netdev_alloc_skb, called by probe.
LEMMA ProbeAllocKeeps ==
  ASSUME IInv, AllocSkb("life")
  PROVE  IInv'
<1> USE Consts DEF TypeOK, SkbsCounted, Account, Polling, Closing, Flushed, Actors, PollAt, WorkAt,
       LifeAt, Starting, Leaving, At, Goto, device, bufs, poller, queuer, worker, state, modem
<1>0. TypeOK /\ SkbsCounted /\ Account /\ Polling /\ Closing /\ (Short = FALSE => Flushed)
  BY DEF IInv
<1>1. CASE TakePooled("life")
  BY <1>0, <1>1 DEF IInv, TakePooled
<1>2. CASE TakeNew("life")
  BY <1>0, <1>2 DEF IInv, TakeNew
<1>3. CASE TakeNone("life")
  <2>1. TypeOK'
    <3>1. Counts'
      BY <1>0, <1>3 DEF Counts, TakeNone, Spend, Result, ScheduleWork
    <3>2. Flags'
      BY <1>0, <1>3 DEF Flags, TakeNone, Spend, Result, ScheduleWork
    <3>3. Held'
      BY <1>0, <1>3 DEF Held, TakeNone, Spend, Result, ScheduleWork
    <3>4. Places'
      BY <1>0, <1>3 DEF Places, TakeNone, Spend, Result, ScheduleWork
    <3>5. Others'
      BY <1>0, <1>3 DEF Others, TakeNone, Spend, Result, ScheduleWork
    <3>6. QED
      BY <3>1, <3>2, <3>3, <3>4, <3>5 DEF Counts, Flags, Held, Places, Others
  <2>2. SkbsCounted' /\ Account'
    BY <1>0, <1>3 DEF TakeNone, Spend, Result, ScheduleWork
  <2>3. Polling'
    BY <1>0, <1>3 DEF TakeNone, Spend, Result, ScheduleWork
  <2>4. Closing'
    BY <1>0, <1>3 DEF TakeNone, Spend, Result, ScheduleWork
  <2>5. Short = FALSE => Flushed'
    BY <1>0, <1>3 DEF TakeNone, Spend, Result, ScheduleWork
  <2>6. QED
    BY <2>1, <2>2, <2>3, <2>4, <2>5 DEF IInv
<1>4. CASE Taken("life")
  BY <1>0, <1>4 DEF IInv, Taken, Result, ScheduleWork
<1>5. CASE Push("life")
  <2>1. TypeOK'
    <3>1. Counts'
      BY <1>0, <1>5 DEF Counts, Push, Result, ScheduleWork
    <3>2. Flags'
      BY <1>0, <1>5 DEF Flags, Push, Result, ScheduleWork
    <3>3. Held'
      BY <1>0, <1>5 DEF Held, Push, Result, ScheduleWork
    <3>4. Places'
      BY <1>0, <1>5 DEF Places, Push, Result, ScheduleWork
    <3>5. Others'
      BY <1>0, <1>5 DEF Others, Push, Result, ScheduleWork
    <3>6. QED
      BY <3>1, <3>2, <3>3, <3>4, <3>5 DEF Counts, Flags, Held, Places, Others
  <2>2. SkbsCounted' /\ Account'
    BY <1>0, <1>5 DEF Push, Result, ScheduleWork
  <2>3. Polling'
    BY <1>0, <1>5 DEF Push, Result, ScheduleWork
  <2>4. Closing'
    BY <1>0, <1>5 DEF Push, Result, ScheduleWork
  <2>5. Short = FALSE => Flushed'
    BY <1>0, <1>5 DEF Push, Result, ScheduleWork
  <2>6. QED
    BY <2>1, <2>2, <2>3, <2>4, <2>5 DEF IInv
<1>6. QED
  BY <1>1, <1>2, <1>3, <1>4, <1>5 DEF AllocSkb

\* mhi_netdev_poll.
LEMMA PollKeeps ==
  ASSUME IInv, Poll
  PROVE  IInv'
<1> USE Consts DEF TypeOK, SkbsCounted, Account, Polling, Closing, Flushed, Actors, PollAt, WorkAt,
       LifeAt, Starting, Leaving, At, Goto, device, bufs, poller, queuer, worker, state, modem
<1>0. TypeOK /\ SkbsCounted /\ Account /\ Polling /\ Closing /\ (Short = FALSE => Flushed)
  BY DEF IInv
<1>1. CASE PollStart
  <2>1. TypeOK'
    <3>1. Counts'
      BY <1>0, <1>1 DEF Counts, PollStart, NapiComplete
    <3>2. Flags'
      BY <1>0, <1>1 DEF Flags, PollStart, NapiComplete
    <3>3. Held'
      BY <1>0, <1>1 DEF Held, PollStart, NapiComplete
    <3>4. Places'
      BY <1>0, <1>1 DEF Places, PollStart, NapiComplete
    <3>5. Others'
      BY <1>0, <1>1 DEF Others, PollStart, NapiComplete
    <3>6. QED
      BY <3>1, <3>2, <3>3, <3>4, <3>5 DEF Counts, Flags, Held, Places, Others
  <2>2. SkbsCounted' /\ Account'
    BY <1>0, <1>1 DEF PollStart, NapiComplete
  <2>3. Polling'
    BY <1>0, <1>1 DEF PollStart, NapiComplete
  <2>4. Closing'
    BY <1>0, <1>1 DEF PollStart, NapiComplete
  <2>5. Short = FALSE => Flushed'
    BY <1>0, <1>1 DEF PollStart, NapiComplete
  <2>6. QED
    BY <2>1, <2>2, <2>3, <2>4, <2>5 DEF IInv
<1>2. CASE PollEvent
  BY <1>0, <1>2 DEF IInv, PollEvent
<1>3. CASE PollEvents
  BY <1>0, <1>3 DEF IInv, PollEvents
<1>4. CASE PollDrain
  BY <1>0, <1>4 DEF IInv, PollDrain, Recycle
<1>5. CASE PollRefill
  BY <1>0, <1>5 DEF IInv, PollRefill, AllocStart
<1>6. CASE PollComplete
  <2>1. TypeOK'
    <3>1. Counts'
      BY <1>0, <1>6 DEF Counts, PollComplete, NapiComplete
    <3>2. Flags'
      BY <1>0, <1>6 DEF Flags, PollComplete, NapiComplete
    <3>3. Held'
      BY <1>0, <1>6 DEF Held, PollComplete, NapiComplete
    <3>4. Places'
      BY <1>0, <1>6 DEF Places, PollComplete, NapiComplete
    <3>5. Others'
      BY <1>0, <1>6 DEF Others, PollComplete, NapiComplete
    <3>6. QED
      BY <3>1, <3>2, <3>3, <3>4, <3>5 DEF Counts, Flags, Held, Places, Others
  <2>2. SkbsCounted' /\ Account'
    BY <1>0, <1>6 DEF PollComplete, NapiComplete
  <2>3. Polling'
    BY <1>0, <1>6 DEF PollComplete, NapiComplete
  <2>4. Closing'
    BY <1>0, <1>6 DEF PollComplete, NapiComplete
  <2>5. Short = FALSE => Flushed'
    BY <1>0, <1>6 DEF PollComplete, NapiComplete
  <2>6. QED
    BY <2>1, <2>2, <2>3, <2>4, <2>5 DEF IInv
<1>7. QED
  BY <1>1, <1>2, <1>3, <1>4, <1>5, <1>6, PollAllocKeeps DEF Poll

\* mhi_netdev_alloc_work.
LEMMA WorkKeeps ==
  ASSUME IInv, Work
  PROVE  IInv'
<1> USE Consts DEF TypeOK, SkbsCounted, Account, Polling, Closing, Flushed, Actors, PollAt, WorkAt,
       LifeAt, Starting, Leaving, At, Goto, device, bufs, poller, queuer, worker, state, modem
<1>0. TypeOK /\ SkbsCounted /\ Account /\ Polling /\ Closing /\ (Short = FALSE => Flushed)
  BY DEF IInv
<1>1. CASE WorkStart
  <2>1. TypeOK'
    <3>1. Counts'
      BY <1>0, <1>1 DEF Counts, WorkStart, AllocStart
    <3>2. Flags'
      BY <1>0, <1>1 DEF Flags, WorkStart, AllocStart
    <3>3. Held'
      BY <1>0, <1>1 DEF Held, WorkStart, AllocStart
    <3>4. Places'
      BY <1>0, <1>1 DEF Places, WorkStart, AllocStart
    <3>5. Others'
      BY <1>0, <1>1 DEF Others, WorkStart, AllocStart
    <3>6. QED
      BY <3>1, <3>2, <3>3, <3>4, <3>5 DEF Counts, Flags, Held, Places, Others
  <2>2. SkbsCounted' /\ Account'
    BY <1>0, <1>1 DEF WorkStart, AllocStart
  <2>3. Polling'
    BY <1>0, <1>1 DEF WorkStart, AllocStart
  <2>4. Closing'
    BY <1>0, <1>1 DEF WorkStart, AllocStart
  <2>5. Short = FALSE => Flushed'
    BY <1>0, <1>1 DEF WorkStart, AllocStart
  <2>6. QED
    BY <2>1, <2>2, <2>3, <2>4, <2>5 DEF IInv
<1>2. QED
  BY <1>1, WorkAllocKeeps DEF Work

\* mhi_netdev_enable_iface and the end of mhi_netdev_probe.
LEMMA ProbeKeeps ==
  ASSUME IInv, Probe
  PROVE  IInv'
<1> USE Consts DEF TypeOK, SkbsCounted, Account, Polling, Closing, Flushed, Actors, PollAt, WorkAt,
       LifeAt, Starting, Leaving, At, Goto, device, bufs, poller, queuer, worker, state, modem
<1>0. TypeOK /\ SkbsCounted /\ Account /\ Polling /\ Closing /\ (Short = FALSE => Flushed)
  BY DEF IInv
<1>1. CASE Enable
  BY <1>0, <1>1 DEF IInv, Enable, AllocStart
<1>2. CASE NapiEnable
  BY <1>0, <1>2 DEF IInv, NapiEnable
<1>3. CASE Probed
  BY <1>0, <1>3 DEF IInv, Probed
<1>4. QED
  BY <1>1, <1>2, <1>3, ProbeAllocKeeps DEF Probe

\* mhi_driver_remove after an error, and mhi_netdev_remove.
LEMMA RemoveKeeps ==
  ASSUME IInv, Remove
  PROVE  IInv'
<1> USE Consts DEF TypeOK, SkbsCounted, Account, Polling, Closing, Flushed, Actors, PollAt, WorkAt,
       LifeAt, Starting, Leaving, At, Goto, device, bufs, poller, queuer, worker, state, modem
<1>0. TypeOK /\ SkbsCounted /\ Account /\ Polling /\ Closing /\ (Short = FALSE => Flushed)
  BY DEF IInv
<1>1. CASE Reset
  BY <1>0, <1>1 DEF IInv, Reset
<1>2. CASE Disable
  <2>1. TypeOK'
    <3>1. Counts'
      BY <1>0, <1>2 DEF Counts, Disable
    <3>2. Flags'
      BY <1>0, <1>2 DEF Flags, Disable
    <3>3. Held'
      BY <1>0, <1>2 DEF Held, Disable
    <3>4. Places'
      BY <1>0, <1>2 DEF Places, Disable
    <3>5. Others'
      BY <1>0, <1>2 DEF Others, Disable
    <3>6. QED
      BY <3>1, <3>2, <3>3, <3>4, <3>5 DEF Counts, Flags, Held, Places, Others
  <2>2. SkbsCounted' /\ Account'
    BY <1>0, <1>2 DEF Disable
  <2>3. Polling'
    BY <1>0, <1>2 DEF Disable
  <2>4. Closing'
    BY <1>0, <1>2 DEF Disable
  <2>5. Short = FALSE => Flushed'
    BY <1>0, <1>2 DEF Disable
  <2>6. QED
    BY <2>1, <2>2, <2>3, <2>4, <2>5 DEF IInv
<1>3. CASE Unhook
  <2>1. TypeOK'
    <3>1. Counts' /\ Flags' /\ Held' /\ Others'
      BY <1>0, <1>3 DEF Counts, Flags, Held, Others, Unhook
    <3>2. pc' = [pc EXCEPT !["life"] = "drop_chain"]
      BY <1>3 DEF Unhook
    <3>3. pc'["life"] = "drop_chain" /\ pc'["poll"] = pc["poll"] /\ pc'["work"] = pc["work"]
      BY <1>0, <3>2
    <3>4. Places'
      BY <1>0, <3>2, <3>3 DEF Places
    <3>5. QED
      BY <3>1, <3>4 DEF Counts, Flags, Held, Places, Others
  <2>2. SkbsCounted' /\ Account'
    BY <1>0, <1>3 DEF Unhook
  <2>3. Polling'
    BY <1>0, <1>3 DEF Unhook
  <2>4. Closing'
    BY <1>0, <1>3 DEF Unhook
  <2>5. Short = FALSE => Flushed'
    BY <1>0, <1>3 DEF Unhook
  <2>6. QED
    BY <2>1, <2>2, <2>3, <2>4, <2>5 DEF IInv
<1>4. CASE DropChain
  BY <1>0, <1>4 DEF IInv, DropChain
<1>5. CASE DropPool("drop_pool", "napi_off")
  BY <1>0, <1>5 DEF IInv, DropPool
<1>6. CASE NapiDisable
  BY <1>0, <1>6 DEF IInv, NapiDisable
<1>7. CASE DropPool("dealloc", "flush")
  <2>1. TypeOK'
    <3>1. Counts'
      BY <1>0, <1>7, DropFits DEF Counts, DropPool
    <3>2. Flags'
      BY <1>0, <1>7 DEF Flags, DropPool
    <3>3. Held'
      BY <1>0, <1>7 DEF Held, DropPool
    <3>4. Places'
      BY <1>0, <1>7 DEF Places, DropPool
    <3>5. Others'
      BY <1>0, <1>7 DEF Others, DropPool
    <3>6. QED
      BY <3>1, <3>2, <3>3, <3>4, <3>5 DEF Counts, Flags, Held, Places, Others
  <2>2. SkbsCounted' /\ Account'
    BY <1>0, <1>7 DEF DropPool
  <2>3. Polling'
    BY <1>0, <1>7 DEF DropPool
  <2>4. Closing'
    BY <1>0, <1>7 DEF DropPool
  <2>5. Short = FALSE => Flushed'
    BY <1>0, <1>7 DEF DropPool
  <2>6. QED
    BY <2>1, <2>2, <2>3, <2>4, <2>5 DEF IInv
<1>8. CASE FlushStart
  BY <1>0, <1>8 DEF IInv, FlushStart
<1>9. CASE FlushEnd
  BY <1>0, <1>9 DEF IInv, FlushEnd
<1>10. QED
  BY <1>1, <1>2, <1>3, <1>4, <1>5, <1>6, <1>7, <1>8, <1>9 DEF Remove

\* Every step of the poll, the worker, probe, removal and modem keeps the invariant.
LEMMA StepKeeps == IInv /\ [Next]_vars => IInv'
<1> SUFFICES ASSUME IInv, [Next]_vars PROVE IInv'
  OBVIOUS
<1>1. CASE UNCHANGED vars
  BY <1>1 DEF vars, device, bufs, poller, queuer, worker, state, modem, IInv, TypeOK, SkbsCounted,
     Account, Polling, Closing, Flushed
<1>2. CASE Next
  BY <1>2, ModemKeeps, PollKeeps, WorkKeeps, ProbeKeeps, RemoveKeeps DEF Next
<1>3. QED
  BY <1>1, <1>2

\* Whichever of mhi_netdev_poll, mhi_netdev_alloc_work, probe and remove gets at ring, chain and
\* pool first, every buffer is counted in exactly one place, and ring, pool and chain keep to
\* their bounds.
THEOREM BuffersCounted == Spec => []WellFormed
<1>1. IInv => WellFormed
  BY DEF IInv, WellFormed
<1>2. QED
  BY <1>1, InitInv, StepKeeps, PTL DEF Spec

\* mhi_netdev_remove leaves nothing behind, provided allocations do not fail during it: no
\* buffer, no poll under way, and no run of the worker that its one flush did not wait for.
THEOREM NothingLeftBehind ==
  ASSUME Short = FALSE
  PROVE  Spec => []NothingLeft
<1>1. IInv => NothingLeft
  <2> SUFFICES ASSUME IInv, pc["life"] = "gone"
               PROVE  live = 0 /\ pc["poll"] = "idle" /\ pc["work"] = "idle" /\ ~pending
    BY DEF NothingLeft, At
  <2>1. pc["poll"] = "idle" /\ pc["work"] = "idle" /\ ~pending
    BY DEF IInv, Polling, Closing, Flushed
  <2>2. ring = 0 /\ pool = 0 /\ chain = 0
    BY <2>1 DEF IInv, Closing, Account, Leaving
  <2>3. hand["poll"] = 0 /\ hand["work"] = 0 /\ hand["life"] = 0
    BY <2>1 DEF IInv, Account, Actors
  <2>4. QED
    BY <2>1, <2>2, <2>3 DEF IInv, SkbsCounted
<1>2. QED
  BY <1>1, InitInv, StepKeeps, PTL DEF Spec
=============================================================================

----------------------------- MODULE MhiPmProofs -----------------------------
(***************************************************************************)
(* Power management of the MHI controller, for every boot stage, number of *)
(* crashes, suspends, M2 requests and late answers.                        *)
(*                                                                         *)
(* WellFormed is inductive: an action that takes pm_mutex finds it         *)
(* free, so nobody else is in a critical section; every other action leaves*)
(* it alone and moves no process into or out of one.  The proof has a lemma*)
(* per process and a step per action.                                      *)
(*                                                                         *)
(* On it rest, layer by layer, with a lemma on the initial states and one  *)
(* on every step each:                                                     *)
(*   PowerInv    what a removal makes of pm_state;                         *)
(*   BootInv     the one READY transition of a boot, and the quiet until   *)
(*               it has been carried out;                                  *)
(*   ResetInv    the reset of a failed modem                               *)
(*               (ResetUndisturbed, RingsRewoundQuietly, LadderKept);      *)
(*   CrashFree and RemovalInv                                              *)
(*               what a removal waits for (CtxtOutlivesUse,                *)
(*               ShutDownForGood);                                         *)
(*   EventInv, SleepInv, LoudInv and OwnedInv                              *)
(*               reports, requests and who sleeps (SleepIsAgreed).         *)
(***************************************************************************)
EXTENDS MhiPm, TLAPS

USE DEF PowerUpLabels

Holder == {"syserr", "power", "rpm"}

-----------------------------------------------------------------------------
(* Helpers.                                                                *)

\* A process that moves to one of its own labels keeps the types of the program counters.
LEMMA GotoType ==
  ASSUME NEW p \in Proc, NEW l \in Labels[p], PcOK, Goto(p, l)
  PROVE  PcOK'
  BY DEF PcOK, Goto

\* mhi_tryset_pm_state returns a state of the machine, the one asked for or the old one.
LEMMA TrysetType ==
  ASSUME NEW s \in PmState, NEW t \in PmState
  PROVE  Tryset(s, t) \in PmState
  BY DEF Tryset

\* An event that is posted, or dropped by a full ring, leaves a sequence of events.
LEMMA PostType ==
  ASSUME er \in Seq(Events), NEW ev \in Events, Post(ev)
  PROVE  er' \in Seq(Events)
  BY DEF Post

\* Moving within a critical section, or outside of them, ...
LEMMA Kept ==
  ASSUME NEW p \in Proc, NEW l, PcOK, MutexInv, Goto(p, l), pm_mutex' = pm_mutex,
         p \in Holder => (l \in Critical[p] <=> pc[p] \in Critical[p])
  PROVE  MutexInv'
  BY DEF PcOK, MutexInv, Goto, Holder, Proc, Critical

\* ... entering one with the mutex, and leaving one without it keep the discipline.
LEMMA Taken ==
  ASSUME NEW p \in Holder, NEW l \in Critical[p], PcOK, MutexInv, Goto(p, l), Lock(p)
  PROVE  MutexInv'
  BY DEF PcOK, MutexInv, Goto, Holder, Proc, Critical, Lock, NoProc

\* Who leaves a critical section and gives the mutex back keeps the discipline too.
LEMMA Dropped ==
  ASSUME NEW p \in Holder, NEW l, l \notin Critical[p], PcOK, MutexInv, Goto(p, l), Unlock(p)
  PROVE  MutexInv'
  BY DEF PcOK, MutexInv, Goto, Holder, Proc, Critical, Unlock, NoProc

\* mhi_pm_ready_worker queues one transition or none and keeps the types.
LEMMA ReadyRunType ==
  ASSUME TypeOK, ReadyRun
  PROVE  work' \in SUBSET Work /\ transition_list' \in Seq(Transitions)
<1>1. CASE dev_state = "RESET" /\ (pm_state \in RegAccessValid /\ dev_ee = "EDL")
  <2>1. /\ transition_list' = Append(transition_list, "PBL")
        /\ work' = (work \ {"ready"}) \cup {"st"}
    BY <1>1 DEF ReadyRun
  <2>2. QED BY <2>1 DEF TypeOK, Transitions, Work
<1>2. CASE dev_state = "RESET" /\ (pm_state \in RegAccessValid /\ dev_ee \in {"AMSS", "SBL"})
  <2>1. /\ transition_list' = Append(transition_list, "READY")
        /\ work' = (work \ {"ready"}) \cup {"st"}
    BY <1>2 DEF ReadyRun
  <2>2. QED BY <2>1 DEF TypeOK, Transitions, Work
<1>3. CASE /\ transition_list' = transition_list
           /\ work' = work \/ work' = work \ {"ready"}
  BY <1>3 DEF TypeOK, Work
<1>4. QED
  BY <1>1, <1>2, <1>3 DEF ReadyRun

\* mhi_queue_state_transition adds one transition and schedules the worker.
LEMMA QueueType ==
  ASSUME TypeOK, NEW t \in Transitions, Queue(t)
  PROVE  work' \in SUBSET Work /\ transition_list' \in Seq(Transitions)
  BY DEF Queue, TypeOK, Work

\* A controller that is registered and not yet powered up satisfies the invariant.
LEMMA InitInv == Init => WellFormed
<1> SUFFICES ASSUME Init PROVE WellFormed
  OBVIOUS
<1>1. PcOK
  <2>1. \A p \in Proc : "idle" \in Labels[p]
    BY DEF Proc, Labels
  <2>2. QED BY <2>1 DEF Init, PcOK
<1>2. /\ er \in Seq(Events) /\ transition_list \in Seq(Transitions)
      /\ st_items \in Seq(Transitions)
  BY DEF Init
<1>3. /\ dev_ee \in EE /\ dev \in DevState /\ dev_ready \in BOOLEAN
      /\ budget \in [{"syserr", "idle", "suspend", "late"} -> Nat]
  BY ConstantsAssumption DEF Init, EE, DevState, InPbl
<1>4. TypeOK
  BY <1>1, <1>2, <1>3, ConstantsAssumption DEF Init, InPbl, TypeOK, Flags, PmState, L0, DevState, EE, NoProc, Work, Flags
<1>5. MutexInv
  BY DEF Init, MutexInv, Critical, Labels, ReadyLabels, NoProc, Proc
<1>6. QED BY <1>4, <1>5 DEF WellFormed

-----------------------------------------------------------------------------
\* The modem touches neither pm_mutex nor a program counter.
LEMMA ModemStep == ASSUME WellFormed, Modem PROVE WellFormed'
<1> USE DEF WellFormed, At, host, irqs, works, qti, modem
<1>1. ASSUME ModemBoot PROVE WellFormed'
  <2>1. PcOK'
    BY <1>1, GotoType DEF ModemBoot, Post, Booting, TypeOK, PcOK, Labels, DisableLabels,
       ReadyLabels, Proc
  <2>2. Flags'
    BY <1>1 DEF ModemBoot, Post, Booting, TypeOK, Flags
  <2>3. dev_ee' \in {"SBL", "AMSS"} /\ dev' \in DevState
    BY <1>1, <2>2 DEF ModemBoot, Post, Booting, TypeOK, DevState
  <2>4. [type |-> "EE", val |-> dev_ee'] \in Events
    BY <2>3 DEF Events
  <2>5. er' \in Seq(Events)
    BY <1>1, <2>4, PostType DEF ModemBoot, TypeOK
  <2>6. TypeOK'
    BY <1>1, <2>1, <2>2, <2>3, <2>4, <2>5, TrysetType, ConstantsAssumption DEF ModemBoot, Post,
       Booting, TypeOK, PmState, L0, L1, L2, L3, DevState, EE, Events, Transitions, Work, NoProc
  <2>7. MutexInv'
    BY <1>1 DEF ModemBoot, Post, Booting, MutexInv, Critical, Labels, ReadyLabels, NoProc, Proc,
       TypeOK, PcOK, Goto
  <2>8. QED BY <2>6, <2>7
<1>2. ASSUME ModemReset PROVE WellFormed'
  <2>1. PcOK'
    BY <1>2, GotoType DEF ModemReset, TypeOK, PcOK, Labels, DisableLabels, ReadyLabels, Proc
  <2>2. Flags'
    BY <1>2 DEF ModemReset, TypeOK, Flags
  <2>3. dev_ee' \in EE
    BY <1>2, ConstantsAssumption DEF ModemReset, TypeOK, EE
  <2>4. dev' \in DevState
    BY <1>2, <2>2, <2>3 DEF ModemReset, TypeOK, DevState
  <2>5. dev' = "READY" => dev_ee' = "AMSS"
    BY <1>2, <2>2, <2>3, <2>4 DEF ModemReset, TypeOK, PcOK
  <2>6. TypeOK'
    BY <1>2, <2>1, <2>2, <2>3, <2>4, <2>5, TrysetType, ConstantsAssumption DEF ModemReset,
       TypeOK, PmState, L0, L1, L2, L3, DevState, EE, Events, Transitions, Work, NoProc
  <2>7. MutexInv'
    BY <1>2 DEF ModemReset, MutexInv, Critical, Labels, ReadyLabels, NoProc, Proc, TypeOK, PcOK,
       Goto
  <2>8. QED BY <2>6, <2>7
<1>3. ASSUME ModemM0 PROVE WellFormed'
  <2>1. PcOK'
    BY <1>3, GotoType DEF ModemM0, EntersM0, TypeOK, PcOK, Labels, DisableLabels, ReadyLabels,
       Proc
  <2>2. Flags'
    BY <1>3 DEF ModemM0, EntersM0, TypeOK, Flags
  <2>3. [type |-> "STATE", val |-> "M0"] \in Events
    BY DEF Events
  <2>4. dev = "READY" => [type |-> "EE", val |-> dev_ee] \in Events
    BY DEF Events, TypeOK
  <2>5. Append(er, [type |-> "STATE", val |-> "M0"]) \in Seq(Events)
    BY <2>3 DEF TypeOK
  <2>6. er' \in Seq(Events)
    BY <1>3, <2>4, <2>5 DEF ModemM0
  <2>7. TypeOK'
    BY <1>3, <2>1, <2>2, <2>3, <2>4, <2>5, <2>6, TrysetType, ConstantsAssumption DEF ModemM0,
       EntersM0, TypeOK, PmState, L0, L1, L2, L3, DevState, EE, Events, Transitions, Work,
       NoProc
  <2>8. MutexInv'
    BY <1>3 DEF ModemM0, EntersM0, MutexInv, Critical, Labels, ReadyLabels, NoProc, Proc,
       TypeOK, PcOK, Goto
  <2>9. QED BY <2>7, <2>8
<1>4. ASSUME ModemIdle PROVE WellFormed'
  <2>1. PcOK'
    BY <1>4, GotoType DEF ModemIdle, Post, Spend, TypeOK, PcOK, Labels, DisableLabels,
       ReadyLabels, Proc
  <2>2. Flags'
    BY <1>4 DEF ModemIdle, Post, Spend, TypeOK, Flags
  <2>3. TypeOK'
    BY <1>4, <2>1, <2>2, TrysetType, ConstantsAssumption, SMTT(30) DEF ModemIdle, Post, Spend, TypeOK,
       PmState, L0, L1, L2, L3, DevState, EE, Events, Transitions, Work, NoProc
  <2>4. MutexInv'
    BY <1>4 DEF ModemIdle, Post, Spend, MutexInv, Critical, Labels, ReadyLabels, NoProc, Proc,
       TypeOK, PcOK, Goto
  <2>5. QED BY <2>3, <2>4
<1>5. ASSUME ModemM2 PROVE WellFormed'
  <2>1. PcOK'
    BY <1>5, GotoType DEF ModemM2, EntersM2, TypeOK, PcOK, Labels, DisableLabels, ReadyLabels,
       Proc
  <2>2. Flags'
    BY <1>5 DEF ModemM2, EntersM2, TypeOK, Flags
  <2>3. TypeOK'
    BY <1>5, <2>1, <2>2, TrysetType, ConstantsAssumption DEF ModemM2, EntersM2, TypeOK, PmState,
       L0, L1, L2, L3, DevState, EE, Events, Transitions, Work, NoProc
  <2>4. MutexInv'
    BY <1>5 DEF ModemM2, EntersM2, MutexInv, Critical, Labels, ReadyLabels, NoProc, Proc,
       TypeOK, PcOK, Goto
  <2>5. QED BY <2>3, <2>4
<1>6. ASSUME ModemM3 PROVE WellFormed'
  <2>1. PcOK'
    BY <1>6, GotoType DEF ModemM3, EntersM3, Post, TypeOK, PcOK, Labels, DisableLabels,
       ReadyLabels, Proc
  <2>2. Flags'
    BY <1>6 DEF ModemM3, EntersM3, Post, TypeOK, Flags
  <2>3. TypeOK'
    BY <1>6, <2>1, <2>2, TrysetType, ConstantsAssumption DEF ModemM3, EntersM3, Post, TypeOK,
       PmState, L0, L1, L2, L3, DevState, EE, Events, Transitions, Work, NoProc
  <2>4. MutexInv'
    BY <1>6 DEF ModemM3, EntersM3, Post, MutexInv, Critical, Labels, ReadyLabels, NoProc, Proc,
       TypeOK, PcOK, Goto
  <2>5. QED BY <2>3, <2>4
<1>7. ASSUME ModemSysErr PROVE WellFormed'
  <2>1. PcOK'
    BY <1>7, GotoType DEF ModemSysErr, Spend, Post, TypeOK, PcOK, Labels, DisableLabels,
       ReadyLabels, Proc
  <2>2. Flags'
    BY <1>7 DEF ModemSysErr, Spend, Post, TypeOK, Flags
  <2>3. [type |-> "STATE", val |-> "SYS_ERR"] \in Events
    BY DEF Events
  <2>4. er' \in Seq(Events)
    BY <1>7, <2>3, PostType DEF ModemSysErr, TypeOK
  <2>5. dev_ee' \in EE
    BY <1>7, <2>2, <2>3, <2>4 DEF ModemSysErr, Spend, Post, TypeOK, EE
  <2>6. TypeOK'
    BY <1>7, <2>1, <2>2, <2>3, <2>4, <2>5, TrysetType, ConstantsAssumption, SMTT(30) DEF ModemSysErr,
       Spend, Post, TypeOK, PmState, L0, L1, L2, L3, DevState, EE, Events, Transitions, Work,
       NoProc
  <2>7. MutexInv'
    BY <1>7 DEF ModemSysErr, Spend, Post, MutexInv, Critical, Labels, ReadyLabels, NoProc, Proc,
       TypeOK, PcOK, Goto
  <2>8. QED BY <2>6, <2>7
<1>8. ASSUME ModemRddm PROVE WellFormed'
  <2>1. PcOK'
    BY <1>8, GotoType DEF ModemRddm, Post, TypeOK, PcOK, Labels, DisableLabels, ReadyLabels,
       Proc
  <2>2. Flags'
    BY <1>8 DEF ModemRddm, Post, TypeOK, Flags
  <2>3. [type |-> "EE", val |-> "RDDM"] \in Events
    BY DEF Events
  <2>4. er' \in Seq(Events)
    <3>1. CASE ctxt
      BY <1>8, <2>3, <3>1, PostType DEF ModemRddm, TypeOK
    <3>2. CASE ~ctxt
      BY <1>8, <3>2 DEF ModemRddm, TypeOK
    <3>3. QED BY <3>1, <3>2
  <2>5. dev_ee' \in EE /\ (dev' = "READY" => dev_ee' \in {"SBL", "AMSS"})
    BY <1>8 DEF ModemRddm, EE
  <2>6. /\ UNCHANGED <<pm_state, dev_state, ee, pm_mutex, iv_ee, transition_list, st_items, work>>
        /\ UNCHANGED <<barrier, devices, rpm, dev, mhictrl, budget>>
    BY <1>8 DEF ModemRddm
  <2>7. TypeOK'
    BY <2>1, <2>2, <2>4, <2>5, <2>6 DEF TypeOK
  <2>8. MutexInv'
    BY <1>8 DEF ModemRddm, MutexInv
  <2>9. QED BY <2>7, <2>8
<1>9. QED
  BY <1>1, <1>2, <1>3, <1>4, <1>5, <1>6, <1>7, <1>8 DEF Modem

-----------------------------------------------------------------------------
\* The event task holds no mutex.
LEMMA CtrlStep == ASSUME WellFormed, Ctrl PROVE WellFormed'
<1> USE DEF WellFormed, At, host, irqs, works, qti, modem
<1>1. ASSUME MsiHandlr PROVE WellFormed'
  <2>1. PcOK'
    BY <1>1, GotoType DEF MsiHandlr, TypeOK, PcOK, Labels, DisableLabels, ReadyLabels, Proc
  <2>2. Flags'
    BY <1>1 DEF MsiHandlr, TypeOK, Flags
  <2>3. TypeOK'
    BY <1>1, <2>1, <2>2, TrysetType, ConstantsAssumption DEF MsiHandlr, TypeOK, PmState, L0, L1,
       L2, L3, DevState, EE, Events, Transitions, Work, NoProc
  <2>4. MutexInv'
    BY <1>1 DEF MsiHandlr, MutexInv, Critical, Labels, ReadyLabels, NoProc, Proc, TypeOK, PcOK,
       Goto
  <2>5. QED BY <2>3, <2>4
<1>2. ASSUME CtrlEvTask PROVE WellFormed'
  <2>1. PcOK'
    BY <1>2, GotoType DEF CtrlEvTask, TypeOK, PcOK, Labels, DisableLabels, ReadyLabels, Proc
  <2>2. Flags'
    BY <1>2 DEF CtrlEvTask, TypeOK, Flags
  <2>3. TypeOK'
    <3>1. CASE UNCHANGED pc
      BY <1>2, <2>1, <2>2, <3>1, TrysetType, ConstantsAssumption DEF CtrlEvTask, TypeOK,
         PmState, L0, L1, L2, L3, DevState, EE, Events, Transitions, Work, NoProc
    <3>2. CASE Goto("ctrl", "ev_first")
      BY <1>2, <2>1, <2>2, <3>2, TrysetType, ConstantsAssumption DEF CtrlEvTask, TypeOK,
         PmState, L0, L1, L2, L3, DevState, EE, Events, Transitions, Work, NoProc
    <3>3. QED
      BY <1>2, <3>1, <3>2 DEF CtrlEvTask
  <2>4. MutexInv'
    <3>1. CASE UNCHANGED pc
      BY <1>2, <3>1 DEF CtrlEvTask, MutexInv, Critical, Labels, ReadyLabels, NoProc, Proc,
         TypeOK, PcOK, Goto
    <3>2. CASE Goto("ctrl", "ev_first")
      BY <1>2, <3>2 DEF CtrlEvTask, MutexInv, Critical, Labels, ReadyLabels, NoProc, Proc,
         TypeOK, PcOK, Goto
    <3>3. QED
      BY <1>2, <3>1, <3>2 DEF CtrlEvTask
  <2>5. QED BY <2>3, <2>4
<1>3. ASSUME M0Event PROVE WellFormed'
  <2>1. PcOK'
    BY <1>3, GotoType DEF M0Event, CtrlEvent, TypeOK, PcOK, Labels, DisableLabels, ReadyLabels,
       Proc
  <2>2. Flags'
    BY <1>3 DEF M0Event, CtrlEvent, TypeOK, Flags
  <2>3. TypeOK'
    BY <1>3, <2>1, <2>2, TrysetType, ConstantsAssumption DEF M0Event, CtrlEvent, TypeOK,
       PmState, L0, L1, L2, L3, DevState, EE, Events, Transitions, Work, NoProc
  <2>4. MutexInv'
    BY <1>3 DEF M0Event, CtrlEvent, MutexInv, Critical, Labels, ReadyLabels, NoProc, Proc,
       TypeOK, PcOK, Goto
  <2>5. QED BY <2>3, <2>4
<1>4. ASSUME M1Event PROVE WellFormed'
  <2>1. PcOK'
    BY <1>4, GotoType DEF M1Event, CtrlEvent, TypeOK, PcOK, Labels, DisableLabels, ReadyLabels,
       Proc
  <2>2. Flags'
    BY <1>4 DEF M1Event, CtrlEvent, TypeOK, Flags
  <2>3. TypeOK'
    BY SMTT(30), <1>4, <2>1, <2>2, TrysetType, ConstantsAssumption
       DEF M1Event, CtrlEvent, TypeOK,
       PmState, L0, L1, L2, L3, DevState, EE, Events, Transitions, Work, NoProc
  <2>4. MutexInv'
    BY <1>4 DEF M1Event, CtrlEvent, MutexInv, Critical, Labels, ReadyLabels, NoProc, Proc,
       TypeOK, PcOK, Goto
  <2>5. QED BY <2>3, <2>4
<1>5. ASSUME M3Event PROVE WellFormed'
  <2>1. PcOK'
    BY <1>5, GotoType DEF M3Event, CtrlEvent, TypeOK, PcOK, Labels, DisableLabels, ReadyLabels,
       Proc
  <2>2. Flags'
    BY <1>5 DEF M3Event, CtrlEvent, TypeOK, Flags
  <2>3. TypeOK'
    BY <1>5, <2>1, <2>2, TrysetType, ConstantsAssumption DEF M3Event, CtrlEvent, TypeOK,
       PmState, L0, L1, L2, L3, DevState, EE, Events, Transitions, Work, NoProc
  <2>4. MutexInv'
    BY <1>5 DEF M3Event, CtrlEvent, MutexInv, Critical, Labels, ReadyLabels, NoProc, Proc,
       TypeOK, PcOK, Goto
  <2>5. QED BY <2>3, <2>4
<1>6. ASSUME SysErrEvent PROVE WellFormed'
  <2>1. PcOK'
    BY <1>6, GotoType DEF SysErrEvent, CtrlEvent, TypeOK, PcOK, Labels, DisableLabels,
       ReadyLabels, Proc
  <2>2. Flags'
    BY <1>6 DEF SysErrEvent, CtrlEvent, TypeOK, Flags
  <2>3. TypeOK'
    BY <1>6, <2>1, <2>2, TrysetType, ConstantsAssumption DEF SysErrEvent, CtrlEvent, TypeOK,
       PmState, L0, L1, L2, L3, DevState, EE, Events, Transitions, Work, NoProc
  <2>4. MutexInv'
    BY <1>6 DEF SysErrEvent, CtrlEvent, MutexInv, Critical, Labels, ReadyLabels, NoProc, Proc,
       TypeOK, PcOK, Goto
  <2>5. QED BY <2>3, <2>4
<1>7. ASSUME EEEvent PROVE WellFormed'
  <2>1. PcOK'
    BY <1>7, GotoType DEF EEEvent, CtrlEvent, Queue, TypeOK, PcOK, Labels, DisableLabels,
       ReadyLabels, Proc
  <2>2. Flags'
    BY <1>7 DEF EEEvent, CtrlEvent, Queue, TypeOK, Flags
  <2>3. TypeOK'
    <3>1. CASE CtrlEvent("EE", "SBL") /\ Queue("SBL") /\ UNCHANGED <<host, mhictrl>>
      BY <1>7, <2>1, <2>2, <3>1, TrysetType, ConstantsAssumption DEF EEEvent, CtrlEvent, Queue,
         TypeOK, PmState, L0, L1, L2, L3, DevState, EE, Events, Transitions, Work, NoProc
    <3>2. CASE CtrlEvent("EE", "AMSS") /\ Queue("MISSION_MODE") /\ UNCHANGED <<host, mhictrl>>
      BY <1>7, <2>1, <2>2, <3>2, TrysetType, ConstantsAssumption DEF EEEvent, CtrlEvent, Queue,
         TypeOK, PmState, L0, L1, L2, L3, DevState, EE, Events, Transitions, Work, NoProc
    <3>3. CASE CtrlEvent("EE", "RDDM") /\ ee' = "RDDM" /\ UNCHANGED <<pm_state, dev_state, transition_list, work, mhictrl>>
      BY <1>7, <2>1, <2>2, <3>3, TrysetType, ConstantsAssumption DEF EEEvent, CtrlEvent, Queue,
         TypeOK, PmState, L0, L1, L2, L3, DevState, EE, Events, Transitions, Work, NoProc
    <3>4. QED
      BY <1>7, <3>1, <3>2, <3>3 DEF EEEvent, CtrlEvent, Queue
  <2>4. MutexInv'
    <3>1. CASE CtrlEvent("EE", "SBL") /\ Queue("SBL") /\ UNCHANGED <<host, mhictrl>>
      BY <1>7, <3>1 DEF EEEvent, CtrlEvent, Queue, MutexInv, Critical, Labels, ReadyLabels,
         NoProc, Proc, TypeOK, PcOK, Goto
    <3>2. CASE CtrlEvent("EE", "AMSS") /\ Queue("MISSION_MODE") /\ UNCHANGED <<host, mhictrl>>
      BY <1>7, <3>2 DEF EEEvent, CtrlEvent, Queue, MutexInv, Critical, Labels, ReadyLabels,
         NoProc, Proc, TypeOK, PcOK, Goto
    <3>3. CASE CtrlEvent("EE", "RDDM") /\ ee' = "RDDM" /\ UNCHANGED <<pm_state, dev_state, transition_list, work, mhictrl>>
      BY <1>7, <3>3 DEF EEEvent, CtrlEvent, Queue, MutexInv, Critical, Labels, ReadyLabels,
         NoProc, Proc, TypeOK, PcOK, Goto
    <3>4. QED
      BY <1>7, <3>1, <3>2, <3>3 DEF EEEvent, CtrlEvent, Queue
  <2>5. QED BY <2>3, <2>4
<1>8. ASSUME CtrlDrained PROVE WellFormed'
  <2>1. PcOK'
    BY <1>8, GotoType DEF CtrlDrained, At, TypeOK, PcOK, Labels, DisableLabels, ReadyLabels,
       Proc
  <2>2. Flags'
    BY <1>8 DEF CtrlDrained, At, TypeOK, Flags
  <2>3. TypeOK'
    BY <1>8, <2>1, <2>2, TrysetType, ConstantsAssumption DEF CtrlDrained, At, TypeOK, PmState,
       L0, L1, L2, L3, DevState, EE, Events, Transitions, Work, NoProc
  <2>4. MutexInv'
    BY <1>8 DEF CtrlDrained, At, MutexInv, Critical, Labels, ReadyLabels, NoProc, Proc, TypeOK,
       PcOK, Goto
  <2>5. QED BY <2>3, <2>4
<1>9. ASSUME CtrlCheckState PROVE WellFormed'
  <2>1. PcOK'
    BY <1>9, GotoType DEF CtrlCheckState, At, TypeOK, PcOK, Labels, DisableLabels, ReadyLabels,
       Proc
  <2>2. Flags'
    BY <1>9 DEF CtrlCheckState, At, TypeOK, Flags
  <2>3. pm_state' \in PmState
    BY <1>9, TrysetType DEF CtrlCheckState, TypeOK, PmState, L1
  <2>4. work' \in SUBSET Work
    BY <1>9, <2>2, <2>3 DEF CtrlCheckState, At, TypeOK, Work
  <2>5. TypeOK'
    BY <1>9, <2>1, <2>2, <2>3, <2>4, TrysetType, ConstantsAssumption DEF CtrlCheckState, At,
       TypeOK, PmState, L0, L1, L2, L3, DevState, EE, Events, Transitions, Work, NoProc
  <2>6. MutexInv'
    BY <1>9 DEF CtrlCheckState, At, MutexInv, Critical, Labels, ReadyLabels, NoProc, Proc,
       TypeOK, PcOK, Goto
  <2>7. QED BY <2>5, <2>6
<1>10. QED
  BY <1>1, <1>2, <1>3, <1>4, <1>5, <1>6, <1>7, <1>8, <1>9 DEF Ctrl

-----------------------------------------------------------------------------
\* Nor does the interrupt thread.
LEMMA IntvecStep == ASSUME WellFormed, IntvecThread PROVE WellFormed'
<1> USE DEF WellFormed, At, host, irqs, works, qti, modem
<1>1. ASSUME Intvec PROVE WellFormed'
  <2>1. PcOK'
    BY <1>1, GotoType DEF Intvec, IntvecClaim, TypeOK, PcOK, Labels, DisableLabels, ReadyLabels,
       Proc
  <2>2. Flags'
    BY <1>1 DEF Intvec, IntvecClaim, TypeOK, Flags
  <2>3. TypeOK'
    BY <1>1, <2>1, <2>2, TrysetType, ConstantsAssumption DEF Intvec, IntvecClaim, TypeOK,
       PmState, L0, L1, L2, L3, DevState, EE, Events, Transitions, Work, NoProc
  <2>4. MutexInv'
    <3>1. CASE Goto("intvec", "iv_notify")
      BY <1>1, <3>1, Kept DEF Intvec, IntvecClaim, Critical, ReadyLabels, Proc, Holder, TypeOK
    <3>2. CASE Goto("intvec", "idle")
      BY <1>1, <3>2, Kept DEF Intvec, IntvecClaim, Critical, ReadyLabels, Proc, Holder, TypeOK
    <3>3. QED
      BY <1>1, <3>1, <3>2 DEF Intvec, IntvecClaim
  <2>5. QED BY <2>3, <2>4
<1>2. ASSUME IntvecNotify("intvec") /\ Goto("intvec", "idle") /\ UNCHANGED <<pm_mutex, rpm>> PROVE WellFormed'
  <2>1. PcOK'
    BY <1>2, GotoType DEF IntvecNotify, TypeOK, PcOK, Labels, DisableLabels, ReadyLabels, Proc
  <2>2. Flags'
    BY <1>2 DEF IntvecNotify, TypeOK, Flags
  <2>3. work' \in SUBSET Work
    BY <1>2, <2>2 DEF IntvecNotify, TypeOK, Work
  <2>4. TypeOK'
    BY <1>2, <2>1, <2>2, <2>3, TrysetType, ConstantsAssumption DEF IntvecNotify, TypeOK,
       PmState, L0, L1, L2, L3, DevState, EE, Events, Transitions, Work, NoProc
  <2>5. MutexInv'
    BY <1>2 DEF IntvecNotify, MutexInv, Critical, Labels, ReadyLabels, NoProc, Proc, TypeOK,
       PcOK, Goto
  <2>6. QED BY <2>4, <2>5
<1>3. QED
  BY <1>1, <1>2 DEF IntvecThread

-----------------------------------------------------------------------------
\* A READY transition is critical for the error worker and not for the state worker.
LEMMA ReadyStep ==
  ASSUME NEW p, NEW ret,
         \/ p = "st" /\ ret = "st_item"
         \/ p = "syserr" /\ ret = "dis_exit", WellFormed, ReadyTransition(p, ret)
  PROVE  WellFormed'
<1> USE DEF WellFormed, At, host, irqs, works, qti, modem
<1>1. ASSUME RdyWait(p, ret) PROVE WellFormed'
  <2>1. PcOK'
    BY <1>1, GotoType DEF RdyWait, Expires, Spend, TypeOK, PcOK, Labels, DisableLabels,
       ReadyLabels, Proc
  <2>2. Flags'
    BY <1>1 DEF RdyWait, Expires, Spend, TypeOK, Flags
  <2>3. budget' \in [{"syserr", "idle", "suspend", "late"} -> Nat]
    BY <1>1 DEF RdyWait, Expires, Spend, TypeOK
  <2>4. /\ pm_state' \in PmState /\ dev_state' \in DevState
        /\ pm_mutex' \in {NoProc, "syserr", "power", "rpm"}
        /\ rpm' \in {"active", "suspending", "suspended", "resuming", "error"}
    BY <1>1, TrysetType DEF RdyWait, TypeOK, PmState, L0, L1, L2, L3, DevState, NoProc
  <2>5. /\ UNCHANGED <<ee, er, iv_ee, transition_list, st_items, work, barrier, devices>>
        /\ UNCHANGED <<dev, dev_ee, mhictrl>>
    BY <1>1 DEF RdyWait
  <2>6. TypeOK'
    BY <2>1, <2>2, <2>3, <2>4, <2>5 DEF TypeOK
  <2>7. MutexInv'
    BY SMTT(30), <1>1
       DEF RdyWait, Expires, Spend, MutexInv, Critical, Labels, ReadyLabels, NoProc, Proc,
       TypeOK, PcOK, Goto
  <2>8. QED BY <2>6, <2>7
<1>2. ASSUME RdySet(p, ret) PROVE WellFormed'
  <2>1. PcOK'
    BY <1>2, GotoType DEF RdySet, TypeOK, PcOK, Labels, DisableLabels, ReadyLabels, Proc
  <2>2. Flags'
    BY <1>2 DEF RdySet, TypeOK, Flags
  <2>3. TypeOK'
    BY <1>2, <2>1, <2>2, TrysetType, ConstantsAssumption DEF RdySet, TypeOK, PmState, L0, L1,
       L2, L3, DevState, EE, Events, Transitions, Work, NoProc
  <2>4. MutexInv'
    BY <1>2 DEF RdySet, MutexInv, Critical, Labels, ReadyLabels, NoProc, Proc, TypeOK, PcOK,
       Goto
  <2>5. QED BY <2>3, <2>4
<1>3. ASSUME RdyMmio(p, ret) PROVE WellFormed'
  <2>1. PcOK'
    BY SMTT(30), <1>3, GotoType
       DEF RdyMmio, TypeOK, PcOK, Labels, DisableLabels, ReadyLabels, Proc
  <2>2. Flags'
    BY <1>3 DEF RdyMmio, TypeOK, Flags
  <2>3. TypeOK'
    BY <1>3, <2>1, <2>2, TrysetType, ConstantsAssumption DEF RdyMmio, TypeOK, PmState, L0, L1,
       L2, L3, DevState, EE, Events, Transitions, Work, NoProc
  <2>4. MutexInv'
    BY <1>3 DEF RdyMmio, MutexInv, Critical, Labels, ReadyLabels, NoProc, Proc, TypeOK, PcOK,
       Goto
  <2>5. QED BY <2>3, <2>4
<1>4. QED
  BY <1>1, <1>2, <1>3 DEF ReadyTransition

-----------------------------------------------------------------------------
\* The state worker holds no mutex.
LEMMA StStep == ASSUME WellFormed, StWorker PROVE WellFormed'
<1> USE DEF WellFormed, At, host, irqs, works, qti, modem
<1>1. ASSUME StTake PROVE WellFormed'
  <2>1. PcOK'
    BY <1>1, GotoType DEF StTake, TypeOK, PcOK, Labels, DisableLabels, ReadyLabels, Proc
  <2>2. Flags'
    BY <1>1 DEF StTake, TypeOK, Flags
  <2>3. TypeOK'
    BY <1>1, <2>1, <2>2, TrysetType, ConstantsAssumption DEF StTake, TypeOK, PmState, L0, L1,
       L2, L3, DevState, EE, Events, Transitions, Work, NoProc
  <2>4. MutexInv'
    BY <1>1 DEF StTake, MutexInv, Critical, Labels, ReadyLabels, NoProc, Proc, TypeOK, PcOK,
       Goto
  <2>5. QED BY <2>3, <2>4
<1>2. ASSUME StDone PROVE WellFormed'
  <2>1. PcOK'
    BY <1>2, GotoType DEF StDone, TypeOK, PcOK, Labels, DisableLabels, ReadyLabels, Proc
  <2>2. Flags'
    BY <1>2 DEF StDone, TypeOK, Flags
  <2>3. TypeOK'
    BY <1>2, <2>1, <2>2, TrysetType, ConstantsAssumption DEF StDone, TypeOK, PmState, L0, L1,
       L2, L3, DevState, EE, Events, Transitions, Work, NoProc
  <2>4. MutexInv'
    BY <1>2 DEF StDone, MutexInv, Critical, Labels, ReadyLabels, NoProc, Proc, TypeOK, PcOK,
       Goto
  <2>5. QED BY <2>3, <2>4
<1>3. ASSUME StPbl PROVE WellFormed'
  <2>1. PcOK'
    BY <1>3, GotoType DEF StPbl, StItem, TypeOK, PcOK, Labels, DisableLabels, ReadyLabels, Proc
  <2>2. Flags'
    BY <1>3 DEF StPbl, StItem, TypeOK, Flags
  <2>3. TypeOK'
    BY <1>3, <2>1, <2>2, TrysetType, ConstantsAssumption DEF StPbl, StItem, TypeOK, PmState, L0,
       L1, L2, L3, DevState, EE, Events, Transitions, Work, NoProc
  <2>4. MutexInv'
    BY <1>3 DEF StPbl, StItem, MutexInv, Critical, Labels, ReadyLabels, NoProc, Proc, TypeOK,
       PcOK, Goto
  <2>5. QED BY <2>3, <2>4
<1>4. ASSUME StSbl PROVE WellFormed'
  <2>1. PcOK'
    BY <1>4, GotoType DEF StSbl, StItem, TypeOK, PcOK, Labels, DisableLabels, ReadyLabels, Proc
  <2>2. Flags'
    BY <1>4 DEF StSbl, StItem, TypeOK, Flags
  <2>3. TypeOK'
    BY <1>4, <2>1, <2>2, TrysetType, ConstantsAssumption DEF StSbl, StItem, TypeOK, PmState, L0,
       L1, L2, L3, DevState, EE, Events, Transitions, Work, NoProc
  <2>4. MutexInv'
    BY <1>4 DEF StSbl, StItem, MutexInv, Critical, Labels, ReadyLabels, NoProc, Proc, TypeOK,
       PcOK, Goto
  <2>5. QED BY <2>3, <2>4
<1>5. ASSUME StReady PROVE WellFormed'
  <2>1. PcOK'
    BY <1>5, GotoType DEF StReady, StItem, TypeOK, PcOK, Labels, DisableLabels, ReadyLabels,
       Proc
  <2>2. Flags'
    BY <1>5 DEF StReady, StItem, TypeOK, Flags
  <2>3. TypeOK'
    BY <1>5, <2>1, <2>2, TrysetType, ConstantsAssumption DEF StReady, StItem, TypeOK, PmState,
       L0, L1, L2, L3, DevState, EE, Events, Transitions, Work, NoProc
  <2>4. MutexInv'
    BY <1>5 DEF StReady, StItem, MutexInv, Critical, Labels, ReadyLabels, NoProc, Proc, TypeOK,
       PcOK, Goto
  <2>5. QED BY <2>3, <2>4
<1>6. ASSUME StMissionMode PROVE WellFormed'
  <2>1. PcOK'
    BY <1>6, GotoType DEF StMissionMode, StItem, WakeGet, TypeOK, PcOK, Labels, DisableLabels,
       ReadyLabels, Proc
  <2>2. Flags'
    BY <1>6 DEF StMissionMode, StItem, WakeGet, TypeOK, Flags
  <2>3. TypeOK'
    BY <1>6, <2>1, <2>2, TrysetType, ConstantsAssumption DEF StMissionMode, StItem, WakeGet,
       TypeOK, PmState, L0, L1, L2, L3, DevState, EE, Events, Transitions, Work, NoProc
  <2>4. MutexInv'
    BY <1>6 DEF StMissionMode, StItem, WakeGet, MutexInv, Critical, Labels, ReadyLabels, NoProc,
       Proc, TypeOK, PcOK, Goto
  <2>5. QED BY <2>3, <2>4
<1>7. ASSUME MmSync PROVE WellFormed'
  <2>1. PcOK'
    BY <1>7, GotoType DEF MmSync, GetSync, Expires, Spend, TypeOK, PcOK, Labels, DisableLabels,
       ReadyLabels, Proc
  <2>2. Flags'
    BY <1>7 DEF MmSync, GetSync, Expires, Spend, TypeOK, Flags
  <2>3. TypeOK'
    BY <1>7, <2>1, <2>2, TrysetType, ConstantsAssumption, SMTT(30) DEF MmSync, GetSync, Expires, Spend,
       TypeOK, PmState, L0, L1, L2, L3, DevState, EE, Events, Transitions, Work, NoProc
  <2>4. MutexInv'
    BY <1>7, SMTT(30) DEF MmSync, GetSync, Expires, Spend, MutexInv, Critical, Labels, ReadyLabels,
       NoProc, Proc, TypeOK, PcOK, Goto
  <2>5. QED BY <2>3, <2>4
<1>8. ASSUME MmEE PROVE WellFormed'
  <2>1. PcOK'
    BY <1>8, GotoType DEF MmEE, TypeOK, PcOK, Labels, DisableLabels, ReadyLabels, Proc
  <2>2. Flags'
    BY <1>8 DEF MmEE, TypeOK, Flags
  <2>3. TypeOK'
    BY <1>8, <2>1, <2>2, TrysetType, ConstantsAssumption DEF MmEE, TypeOK, PmState, L0, L1, L2,
       L3, DevState, EE, Events, Transitions, Work, NoProc
  <2>4. MutexInv'
    BY <1>8 DEF MmEE, MutexInv, Critical, Labels, ReadyLabels, NoProc, Proc, TypeOK, PcOK, Goto
  <2>5. QED BY <2>3, <2>4
<1>9. ASSUME CreateDevices PROVE WellFormed'
  <2>1. PcOK'
    BY <1>9, GotoType DEF CreateDevices, TypeOK, PcOK, Labels, DisableLabels, ReadyLabels, Proc
  <2>2. Flags'
    BY <1>9 DEF CreateDevices, TypeOK, Flags
  <2>3. TypeOK'
    BY <1>9, <2>1, <2>2, TrysetType, ConstantsAssumption DEF CreateDevices, TypeOK, PmState, L0,
       L1, L2, L3, DevState, EE, Events, Transitions, Work, NoProc
  <2>4. MutexInv'
    BY <1>9 DEF CreateDevices, MutexInv, Critical, Labels, ReadyLabels, NoProc, Proc, TypeOK,
       PcOK, Goto
  <2>5. QED BY <2>3, <2>4
<1>10. ASSUME DeviceAdd PROVE WellFormed'
  <2>1. PcOK'
    BY <1>10, GotoType DEF DeviceAdd, WakeGet, TypeOK, PcOK, Labels, DisableLabels, ReadyLabels,
       Proc
  <2>2. Flags'
    BY <1>10 DEF DeviceAdd, WakeGet, TypeOK, Flags
  <2>3. TypeOK'
    BY <1>10, <2>1, <2>2, TrysetType, ConstantsAssumption DEF DeviceAdd, WakeGet, TypeOK,
       PmState, L0, L1, L2, L3, DevState, EE, Events, Transitions, Work, NoProc
  <2>4. MutexInv'
    BY <1>10 DEF DeviceAdd, WakeGet, MutexInv, Critical, Labels, ReadyLabels, NoProc, Proc,
       TypeOK, PcOK, Goto
  <2>5. QED BY <2>3, <2>4
<1>11. ASSUME ProbeSync PROVE WellFormed'
  <2>1. PcOK'
    BY <1>11, GotoType DEF ProbeSync, GetSync, Expires, Spend, TypeOK, PcOK, Labels,
       DisableLabels, ReadyLabels, Proc
  <2>2. Flags'
    BY <1>11 DEF ProbeSync, GetSync, Expires, Spend, TypeOK, Flags
  <2>3. TypeOK'
    BY <1>11, <2>1, <2>2, TrysetType, ConstantsAssumption, SMTT(30) DEF ProbeSync, GetSync, Expires,
       Spend, TypeOK, PmState, L0, L1, L2, L3, DevState, EE, Events, Transitions, Work, NoProc
  <2>4. MutexInv'
    BY <1>11, SMTT(30) DEF ProbeSync, GetSync, Expires, Spend, MutexInv, Critical, Labels, ReadyLabels,
       NoProc, Proc, TypeOK, PcOK, Goto
  <2>5. QED BY <2>3, <2>4
<1>12. ASSUME DriverBind PROVE WellFormed'
  <2>1. PcOK'
    BY <1>12, GotoType DEF DriverBind, TypeOK, PcOK, Labels, DisableLabels, ReadyLabels, Proc
  <2>2. Flags'
    BY <1>12 DEF DriverBind, TypeOK, Flags
  <2>3. TypeOK'
    BY <1>12, <2>1, <2>2, TrysetType, ConstantsAssumption DEF DriverBind, TypeOK, PmState, L0,
       L1, L2, L3, DevState, EE, Events, Transitions, Work, NoProc
  <2>4. MutexInv'
    BY <1>12 DEF DriverBind, MutexInv, Critical, Labels, ReadyLabels, NoProc, Proc, TypeOK,
       PcOK, Goto
  <2>5. QED BY <2>3, <2>4
<1>13. ASSUME ReadyTransition("st", "st_item") PROVE WellFormed'
  BY <1>13, ReadyStep DEF WellFormed
<1>14. QED
  BY <1>1, <1>2, <1>3, <1>4, <1>5, <1>6, <1>7, <1>8, <1>9, <1>10, <1>11, <1>12, <1>13 DEF
     StWorker

-----------------------------------------------------------------------------
\* Nor does the poll.
LEMMA ReadyWorkerStep == ASSUME WellFormed, ReadyWorker PROVE WellFormed'
<1> USE DEF WellFormed, At, host, irqs, works, qti, modem
<1>1. ASSUME ReadyWorker PROVE WellFormed'
  <2>1. PcOK'
    BY <1>1, GotoType DEF ReadyWorker, TypeOK, PcOK, Labels, DisableLabels, ReadyLabels, Proc
  <2>2. Flags'
    BY <1>1 DEF ReadyWorker, TypeOK, Flags
  <2>3. work' \in SUBSET Work /\ transition_list' \in Seq(Transitions)
    BY <1>1, ReadyRunType DEF ReadyWorker
  <2>4. TypeOK'
    BY <1>1, <2>1, <2>2, <2>3, TrysetType, ConstantsAssumption DEF ReadyWorker, TypeOK, PmState,
       L0, L1, L2, L3, DevState, EE, Events, Transitions, Work, NoProc
  <2>5. MutexInv'
    BY <1>1 DEF ReadyWorker, MutexInv, Critical, Labels, ReadyLabels, NoProc, Proc, TypeOK,
       PcOK, Goto
  <2>6. QED BY <2>4, <2>5
<1>2. QED
  BY <1>1 DEF ReadyWorker

-----------------------------------------------------------------------------
\* The steps of mhi_pm_disable_transition are labels of both processes that run it.
LEMMA DisableGoto ==
  ASSUME NEW p \in {"syserr", "power"}, PcOK,
         NEW l \in DisableLabels \cup (IF p = "syserr" THEN {"idle", "dis_exit"} ELSE {"pd_free"}),
         Goto(p, l)
  PROVE  PcOK'
<1>1. p \in Proc /\ l \in Labels[p]
  BY DEF Proc, Labels
<1>2. QED
  BY <1>1, GotoType

\* Error handling and shutdown take pm_mutex, drop it for the clients, and take it again.
LEMMA DisableStep ==
  ASSUME NEW p \in {"syserr", "power"}, WellFormed, Disable(p)
  PROVE  WellFormed'
<1> USE DEF WellFormed, At, host, irqs, works, qti, modem
<1>1. ASSUME DisEnter(p) PROVE WellFormed'
  <2>1. PcOK'
    BY SMTT(30), <1>1, GotoType
       DEF DisEnter, Target, AfterDisable, TypeOK, PcOK, Labels, DisableLabels,
       ReadyLabels, Proc
  <2>2. Flags'
    BY <1>1 DEF DisEnter, Target, AfterDisable, TypeOK, Flags
  <2>3. TypeOK'
    BY <1>1, <2>1, <2>2, TrysetType, ConstantsAssumption DEF DisEnter, Target, AfterDisable,
       TypeOK, PmState, L0, L1, L2, L3, DevState, EE, Events, Transitions, Work, NoProc
  <2>4. MutexInv'
    BY <1>1 DEF DisEnter, Target, AfterDisable, MutexInv, Critical, Labels, ReadyLabels, NoProc,
       Proc, TypeOK, PcOK, Goto
  <2>5. QED BY <2>3, <2>4
<1>2. ASSUME DisReset(p) PROVE WellFormed'
  <2>1. PcOK'
    BY <1>2, DisableGoto DEF DisReset, TypeOK, DisableLabels
  <2>2. Flags'
    BY <1>2 DEF DisReset, TypeOK, Flags
  <2>3. TypeOK'
    BY <1>2, <2>1, <2>2, TrysetType, ConstantsAssumption DEF DisReset, TypeOK, PmState, L0, L1,
       L2, L3, DevState, EE, Events, Transitions, Work, NoProc
  <2>4. MutexInv'
    BY <1>2 DEF DisReset, MutexInv, Critical, Labels, ReadyLabels, NoProc, Proc, TypeOK, PcOK,
       Goto
  <2>5. QED BY <2>3, <2>4
<1>3. ASSUME DisWait(p) PROVE WellFormed'
  <2>1. PcOK'
    BY SMTT(30), <1>3, GotoType
       DEF DisWait, Expires, Spend, Unlock, TypeOK, PcOK, Labels, DisableLabels,
       ReadyLabels, Proc
  <2>2. Flags'
    BY <1>3 DEF DisWait, Expires, Spend, Unlock, TypeOK, Flags
  <2>3. TypeOK'
    BY SMTT(30), <1>3, <2>1, <2>2, TrysetType, ConstantsAssumption DEF DisWait, Expires, Spend, Unlock,
       TypeOK, PmState, L0, L1, L2, L3, DevState, EE, Events, Transitions, Work, NoProc
  <2>4. MutexInv'
    BY SMTT(30), <1>3
       DEF DisWait, Expires, Spend, Unlock, MutexInv, Critical, Labels, ReadyLabels,
       NoProc, Proc, TypeOK, PcOK, Goto
  <2>5. QED BY <2>3, <2>4
<1>4. ASSUME DisKill(p) PROVE WellFormed'
  <2>1. PcOK'
    BY <1>4, DisableGoto DEF DisKill, TypeOK, DisableLabels
  <2>2. Flags'
    BY <1>4 DEF DisKill, Unlock, TypeOK, Flags
  <2>3. TypeOK'
    BY <1>4, <2>1, <2>2, TrysetType, ConstantsAssumption DEF DisKill, Unlock, TypeOK, PmState,
       L0, L1, L2, L3, DevState, EE, Events, Transitions, Work, NoProc
  <2>4. MutexInv'
    BY <1>4, Dropped DEF DisKill, Unlock, Critical, ReadyLabels, Proc, Holder, TypeOK
  <2>5. QED BY <2>3, <2>4
<1>5. ASSUME DisDestroy(p) PROVE WellFormed'
  <2>1. PcOK'
    BY <1>5, DisableGoto DEF DisDestroy, TypeOK, DisableLabels
  <2>2. Flags'
    BY <1>5 DEF DisDestroy, TypeOK, Flags
  <2>3. TypeOK'
    BY <1>5, <2>1, <2>2, TrysetType, ConstantsAssumption DEF DisDestroy, TypeOK, PmState, L0,
       L1, L2, L3, DevState, EE, Events, Transitions, Work, NoProc
  <2>4. MutexInv'
    BY <1>5, Kept DEF DisDestroy, Critical, ReadyLabels, Proc, Holder, TypeOK
  <2>5. QED BY <2>3, <2>4
<1>6. ASSUME DisFlushReady(p) PROVE WellFormed'
  <2>1. PcOK'
    BY <1>6, DisableGoto DEF DisFlushReady, TypeOK, DisableLabels
  <2>2. Flags'
    BY <1>6 DEF DisFlushReady, TypeOK, Flags
  <2>3. work' \in SUBSET Work /\ transition_list' \in Seq(Transitions)
    BY <1>6, ReadyRunType DEF DisFlushReady, TypeOK
  <2>4. TypeOK'
    BY <1>6, <2>1, <2>2, <2>3, TrysetType, ConstantsAssumption DEF DisFlushReady, TypeOK,
       PmState, L0, L1, L2, L3, DevState, EE, Events, Transitions, Work, NoProc
  <2>5. MutexInv'
    BY <1>6, Kept DEF DisFlushReady, Critical, ReadyLabels, Proc, Holder, TypeOK
  <2>6. QED BY <2>4, <2>5
<1>7. ASSUME DisFlushSt(p) PROVE WellFormed'
  <2>1. PcOK'
    BY <1>7, DisableGoto DEF DisFlushSt, TypeOK, DisableLabels
  <2>2. Flags'
    BY <1>7 DEF DisFlushSt, TypeOK, Flags
  <2>3. TypeOK'
    BY <1>7, <2>1, <2>2, TrysetType, ConstantsAssumption DEF DisFlushSt, TypeOK, PmState, L0,
       L1, L2, L3, DevState, EE, Events, Transitions, Work, NoProc
  <2>4. MutexInv'
    BY <1>7, Kept DEF DisFlushSt, Critical, ReadyLabels, Proc, Holder, TypeOK
  <2>5. QED BY <2>3, <2>4
<1>8. ASSUME DisFlushed(p) PROVE WellFormed'
  <2>1. PcOK'
    BY <1>8, DisableGoto DEF DisFlushed, TypeOK, DisableLabels
  <2>2. Flags'
    BY <1>8 DEF DisFlushed, TypeOK, Flags
  <2>3. TypeOK'
    BY <1>8, <2>1, <2>2, TrysetType, ConstantsAssumption DEF DisFlushed, TypeOK, PmState, L0,
       L1, L2, L3, DevState, EE, Events, Transitions, Work, NoProc
  <2>4. MutexInv'
    BY <1>8, Kept DEF DisFlushed, Critical, ReadyLabels, Proc, Holder, TypeOK
  <2>5. QED BY <2>3, <2>4
<1>9. ASSUME DisRings(p) PROVE WellFormed'
  <2>1. PcOK'
    BY <1>9, DisableGoto DEF DisRings, TypeOK, DisableLabels
  <2>2. Flags'
    BY <1>9 DEF DisRings, Lock, TypeOK, Flags
  <2>3. TypeOK'
    BY <1>9, <2>1, <2>2, TrysetType, ConstantsAssumption DEF DisRings, Lock, TypeOK, PmState,
       L0, L1, L2, L3, DevState, EE, Events, Transitions, Work, NoProc
  <2>4. MutexInv'
    BY <1>9 DEF DisRings, Lock, MutexInv, Critical, Labels, ReadyLabels, NoProc, Proc, TypeOK,
       PcOK, Goto
  <2>5. QED BY <2>3, <2>4
<1>10. ASSUME DisDone(p) PROVE WellFormed'
  <2>1. PcOK'
    BY <1>10, GotoType DEF DisDone, Unlock, TypeOK, PcOK, Labels, DisableLabels, ReadyLabels,
       Proc
  <2>2. Flags'
    BY <1>10 DEF DisDone, Unlock, TypeOK, Flags
  <2>3. TypeOK'
    BY <1>10, <2>1, <2>2, TrysetType, ConstantsAssumption DEF DisDone, Unlock, TypeOK, PmState,
       L0, L1, L2, L3, DevState, EE, Events, Transitions, Work, NoProc
  <2>4. MutexInv'
    BY <1>10 DEF DisDone, Unlock, MutexInv, Critical, Labels, ReadyLabels, NoProc, Proc, TypeOK,
       PcOK, Goto
  <2>5. QED BY <2>3, <2>4
<1>11. QED
  BY <1>1, <1>2, <1>3, <1>4, <1>5, <1>6, <1>7, <1>8, <1>9, <1>10 DEF Disable

-----------------------------------------------------------------------------
\* The error worker.
LEMMA SysErrStep == ASSUME WellFormed, SysErrWorker PROVE WellFormed'
<1> USE DEF WellFormed, At, host, irqs, works, qti, modem
<1>1. ASSUME SysErrStart PROVE WellFormed'
  <2>1. PcOK'
    BY <1>1, GotoType DEF SysErrStart, TypeOK, PcOK, Labels, DisableLabels, ReadyLabels, Proc
  <2>2. Flags'
    BY <1>1 DEF SysErrStart, TypeOK, Flags
  <2>3. TypeOK'
    BY <1>1, <2>1, <2>2, TrysetType, ConstantsAssumption DEF SysErrStart, TypeOK, PmState, L0,
       L1, L2, L3, DevState, EE, Events, Transitions, Work, NoProc
  <2>4. MutexInv'
    BY <1>1, Kept DEF SysErrStart, Critical, ReadyLabels, Proc, Holder, TypeOK
  <2>5. QED BY <2>3, <2>4
<1>2. ASSUME Disable("syserr") PROVE WellFormed'
  BY <1>2, DisableStep DEF WellFormed
<1>3. ASSUME ReadyTransition("syserr", "dis_exit") PROVE WellFormed'
  BY <1>3, ReadyStep DEF WellFormed
<1>4. ASSUME DisExit PROVE WellFormed'
  <2>1. PcOK'
    BY <1>4, GotoType DEF DisExit, Unlock, TypeOK, PcOK, Labels, DisableLabels, ReadyLabels,
       Proc
  <2>2. Flags'
    BY <1>4 DEF DisExit, Unlock, TypeOK, Flags
  <2>3. TypeOK'
    BY <1>4, <2>1, <2>2, TrysetType, ConstantsAssumption DEF DisExit, Unlock, TypeOK, PmState,
       L0, L1, L2, L3, DevState, EE, Events, Transitions, Work, NoProc
  <2>4. MutexInv'
    BY <1>4 DEF DisExit, Unlock, MutexInv, Critical, Labels, ReadyLabels, NoProc, Proc, TypeOK,
       PcOK, Goto
  <2>5. QED BY <2>3, <2>4
<1>5. QED
  BY <1>1, <1>2, <1>3, <1>4 DEF SysErrWorker

-----------------------------------------------------------------------------
\* Probe and removal.
LEMMA PowerStep == ASSUME WellFormed, Power PROVE WellFormed'
<1> USE DEF WellFormed, At, host, irqs, works, qti, modem
<1>1. ASSUME PowerUp PROVE WellFormed'
  <2>1. PcOK'
    BY <1>1, GotoType DEF PowerUp, TypeOK, PcOK, Labels, DisableLabels, ReadyLabels, Proc
  <2>2. Flags'
    BY <1>1 DEF PowerUp, TypeOK, Flags
  <2>3. work' \in SUBSET Work /\ transition_list' \in Seq(Transitions)
    BY <1>1, QueueType DEF PowerUp, TypeOK, Transitions, Work
  <2>4. TypeOK'
    BY <1>1, <2>1, <2>2, <2>3, TrysetType, ConstantsAssumption DEF PowerUp, TypeOK, PmState, L0,
       L1, L2, L3, DevState, EE, Events, Transitions, Work, NoProc
  <2>5. MutexInv'
    BY <1>1, Kept DEF PowerUp, Critical, ReadyLabels, Proc, Holder, TypeOK
  <2>6. QED BY <2>4, <2>5
<1>2. ASSUME RemoveStart PROVE WellFormed'
  <2>1. PcOK'
    BY <1>2, GotoType DEF RemoveStart, TypeOK, PcOK, Labels, DisableLabels, ReadyLabels, Proc
  <2>2. Flags'
    BY <1>2 DEF RemoveStart, TypeOK, Flags
  <2>3. TypeOK'
    BY <1>2, <2>1, <2>2, TrysetType, ConstantsAssumption DEF RemoveStart, TypeOK, PmState, L0,
       L1, L2, L3, DevState, EE, Events, Transitions, Work, NoProc
  <2>4. MutexInv'
    BY <1>2, Kept DEF RemoveStart, Critical, ReadyLabels, Proc, Holder, TypeOK
  <2>5. QED BY <2>3, <2>4
<1>3. ASSUME PdFatal PROVE WellFormed'
  <2>1. PcOK'
    BY <1>3, GotoType DEF PdFatal, TypeOK, PcOK, Labels, DisableLabels, ReadyLabels, Proc
  <2>2. Flags'
    BY <1>3 DEF PdFatal, TypeOK, Flags
  <2>3. TypeOK'
    BY <1>3, <2>1, <2>2, TrysetType, ConstantsAssumption DEF PdFatal, TypeOK, PmState, L0, L1,
       L2, L3, DevState, EE, Events, Transitions, Work, NoProc
  <2>4. MutexInv'
    BY <1>3, Kept DEF PdFatal, Critical, ReadyLabels, Proc, Holder, TypeOK
  <2>5. QED BY <2>3, <2>4
<1>4. ASSUME Disable("power") PROVE WellFormed'
  BY <1>4, DisableStep DEF WellFormed
<1>5. ASSUME PdFree PROVE WellFormed'
  <2>1. PcOK'
    BY <1>5, GotoType DEF PdFree, TypeOK, PcOK, Labels, DisableLabels, ReadyLabels, Proc
  <2>2. Flags'
    BY <1>5 DEF PdFree, TypeOK, Flags
  <2>3. TypeOK'
    BY <1>5, <2>1, <2>2, TrysetType, ConstantsAssumption DEF PdFree, TypeOK, PmState, L0, L1,
       L2, L3, DevState, EE, Events, Transitions, Work, NoProc
  <2>4. MutexInv'
    BY <1>5, Kept DEF PdFree, Critical, ReadyLabels, Proc, Holder, TypeOK
  <2>5. QED BY <2>3, <2>4
<1>6. ASSUME PowerUpSysErr \/ PowerUpPoll \/ PowerUpReset PROVE WellFormed'
  <2>d. /\ pc["power"] \in PowerUpLabels
        /\ \E l \in PowerUpLabels \cup {"gone"} : Goto("power", l)
        /\ mhictrl' \in {"RESET", mhictrl}
        /\ UNCHANGED <<host, pm_mutex, irqs, works, qti, dev, dev_ee, dev_ready, wake, budget>>
    BY <1>6 DEF PowerUpSysErr, PowerUpPoll, PowerUpReset, PowerWrites
  <2>1. PICK l \in PowerUpLabels \cup {"gone"} : Goto("power", l)
    BY <2>d
  <2>2. l \in Labels["power"]
    BY DEF Labels, PowerUpLabels
  <2>3. PcOK'
    BY <2>1, <2>2, GotoType DEF TypeOK, Proc
  <2>4. TypeOK'
    BY <2>d, <2>3 DEF TypeOK, Flags
  <2>5. MutexInv'
    BY <2>d, <2>1, Kept DEF Critical, ReadyLabels, PowerUpLabels, Proc, Holder, TypeOK
  <2>6. QED BY <2>4, <2>5
<1>7. QED
  BY <1>1, <1>2, <1>3, <1>4, <1>5, <1>6 DEF Power

-----------------------------------------------------------------------------
\* Suspend and resume run under pm_mutex from end to end.
LEMMA RpmStep == ASSUME WellFormed, Rpm PROVE WellFormed'
<1> USE DEF WellFormed, At, host, irqs, works, qti, modem
<1>1. ASSUME SuspendStart PROVE WellFormed'
  <2>1. PcOK'
    BY <1>1, GotoType DEF SuspendStart, RpmUnchanged, Spend, Lock, WakeGet, TypeOK, PcOK,
       Labels, DisableLabels, ReadyLabels, Proc
  <2>2. Flags'
    BY <1>1 DEF SuspendStart, RpmUnchanged, Spend, Lock, WakeGet, TypeOK, Flags
  <2>3. TypeOK'
    BY <1>1, <2>1, <2>2, TrysetType, ConstantsAssumption DEF SuspendStart, RpmUnchanged, Spend,
       Lock, WakeGet, TypeOK, PmState, L0, L1, L2, L3, DevState, EE, Events, Transitions, Work,
       NoProc
  <2>4. MutexInv'
    BY <1>1 DEF SuspendStart, RpmUnchanged, Spend, Lock, WakeGet, MutexInv, Critical, Labels,
       ReadyLabels, NoProc, Proc, TypeOK, PcOK, Goto
  <2>5. QED BY <2>3, <2>4
<1>2. ASSUME SuspendM0 PROVE WellFormed'
  <2>1. PcOK'
    BY <1>2, GotoType DEF SuspendM0, RpmUnchanged, Expires, Spend, SuspendFail, Unlock, TypeOK,
       PcOK, Labels, DisableLabels, ReadyLabels, Proc
  <2>2. Flags'
    BY <1>2 DEF SuspendM0, RpmUnchanged, Expires, Spend, SuspendFail, Unlock, TypeOK, Flags
  <2>3. TypeOK'
    BY SMTT(30), <1>2, <2>1, <2>2, TrysetType, ConstantsAssumption
       DEF SuspendM0, RpmUnchanged, Expires,
       Spend, SuspendFail, Unlock, TypeOK, PmState, L0, L1, L2, L3, DevState, EE, Events,
       Transitions, Work, NoProc
  <2>4. MutexInv'
    BY <1>2 DEF SuspendM0, RpmUnchanged, Expires, Spend, SuspendFail, Unlock, MutexInv,
       Critical, Labels, ReadyLabels, NoProc, Proc, TypeOK, PcOK, Goto
  <2>5. QED BY <2>3, <2>4
<1>3. ASSUME SuspendEnter PROVE WellFormed'
  <2>1. PcOK'
    BY <1>3, GotoType DEF SuspendEnter, RpmUnchanged, SuspendFail, Unlock, TypeOK, PcOK, Labels,
       DisableLabels, ReadyLabels, Proc
  <2>2. Flags'
    BY <1>3 DEF SuspendEnter, RpmUnchanged, SuspendFail, Unlock, TypeOK, Flags
  <2>3. TypeOK'
    BY <1>3, <2>1, <2>2, TrysetType, ConstantsAssumption DEF SuspendEnter, RpmUnchanged,
       SuspendFail, Unlock, TypeOK, PmState, L0, L1, L2, L3, DevState, EE, Events, Transitions,
       Work, NoProc
  <2>4. MutexInv'
    BY <1>3 DEF SuspendEnter, RpmUnchanged, SuspendFail, Unlock, MutexInv, Critical, Labels,
       ReadyLabels, NoProc, Proc, TypeOK, PcOK, Goto
  <2>5. QED BY <2>3, <2>4
<1>4. ASSUME SuspendM3 PROVE WellFormed'
  <2>1. PcOK'
    BY <1>4, GotoType DEF SuspendM3, RpmUnchanged, Expires, Spend, SuspendFail, Unlock, TypeOK,
       PcOK, Labels, DisableLabels, ReadyLabels, Proc
  <2>2. Flags'
    BY <1>4 DEF SuspendM3, RpmUnchanged, Expires, Spend, SuspendFail, Unlock, TypeOK, Flags
  <2>3. TypeOK'
    BY <1>4, <2>1, <2>2, TrysetType, ConstantsAssumption, SMTT(30) DEF SuspendM3, RpmUnchanged, Expires,
       Spend, SuspendFail, Unlock, TypeOK, PmState, L0, L1, L2, L3, DevState, EE, Events,
       Transitions, Work, NoProc
  <2>4. MutexInv'
    BY <1>4 DEF SuspendM3, RpmUnchanged, Expires, Spend, SuspendFail, Unlock, MutexInv,
       Critical, Labels, ReadyLabels, NoProc, Proc, TypeOK, PcOK, Goto
  <2>5. QED BY <2>3, <2>4
<1>5. ASSUME ResumeStart PROVE WellFormed'
  <2>1. PcOK'
    BY <1>5, GotoType DEF ResumeStart, RpmUnchanged, Lock, TypeOK, PcOK, Labels, DisableLabels,
       ReadyLabels, Proc
  <2>2. Flags'
    BY <1>5 DEF ResumeStart, RpmUnchanged, Lock, TypeOK, Flags
  <2>3. TypeOK'
    BY <1>5, <2>1, <2>2, TrysetType, ConstantsAssumption DEF ResumeStart, RpmUnchanged, Lock,
       TypeOK, PmState, L0, L1, L2, L3, DevState, EE, Events, Transitions, Work, NoProc
  <2>4. MutexInv'
    BY <1>5 DEF ResumeStart, RpmUnchanged, Lock, MutexInv, Critical, Labels, ReadyLabels,
       NoProc, Proc, TypeOK, PcOK, Goto
  <2>5. QED BY <2>3, <2>4
<1>6. ASSUME ResumeAssert PROVE WellFormed'
  <2>1. PcOK'
    BY <1>6, GotoType DEF ResumeAssert, RpmUnchanged, TypeOK, PcOK, Labels, DisableLabels,
       ReadyLabels, Proc
  <2>2. Flags'
    BY <1>6 DEF ResumeAssert, RpmUnchanged, TypeOK, Flags
  <2>3. TypeOK'
    BY <1>6, <2>1, <2>2, TrysetType, ConstantsAssumption DEF ResumeAssert, RpmUnchanged, TypeOK,
       PmState, L0, L1, L2, L3, DevState, EE, Events, Transitions, Work, NoProc
  <2>4. MutexInv'
    BY <1>6 DEF ResumeAssert, RpmUnchanged, MutexInv, Critical, Labels, ReadyLabels, NoProc,
       Proc, TypeOK, PcOK, Goto
  <2>5. QED BY <2>3, <2>4
<1>7. ASSUME ResumeExit PROVE WellFormed'
  <2>1. PcOK'
    BY <1>7, GotoType DEF ResumeExit, RpmUnchanged, TypeOK, PcOK, Labels, DisableLabels,
       ReadyLabels, Proc
  <2>2. Flags'
    BY <1>7 DEF ResumeExit, RpmUnchanged, TypeOK, Flags
  <2>3. TypeOK'
    BY <1>7, <2>1, <2>2, TrysetType, ConstantsAssumption DEF ResumeExit, RpmUnchanged, TypeOK,
       PmState, L0, L1, L2, L3, DevState, EE, Events, Transitions, Work, NoProc
  <2>4. MutexInv'
    BY <1>7 DEF ResumeExit, RpmUnchanged, MutexInv, Critical, Labels, ReadyLabels, NoProc, Proc,
       TypeOK, PcOK, Goto
  <2>5. QED BY <2>3, <2>4
<1>8. ASSUME ResumeM0 PROVE WellFormed'
  <2>1. PcOK'
    BY <1>8, GotoType DEF ResumeM0, RpmUnchanged, Expires, Spend, Unlock, TypeOK, PcOK, Labels,
       DisableLabels, ReadyLabels, Proc
  <2>2. Flags'
    BY <1>8 DEF ResumeM0, RpmUnchanged, Expires, Spend, Unlock, TypeOK, Flags
  <2>3. budget' \in [{"syserr", "idle", "suspend", "late"} -> Nat]
    BY <1>8 DEF ResumeM0, RpmUnchanged, Unlock, Expires, Spend, TypeOK
  <2>4. /\ pm_state' \in PmState /\ dev_state' \in DevState
        /\ pm_mutex' \in {NoProc, "syserr", "power", "rpm"}
        /\ rpm' \in {"active", "suspending", "suspended", "resuming", "error"}
    BY <1>8, TrysetType DEF ResumeM0, RpmUnchanged, Unlock, TypeOK, PmState, L0, L1, L2, L3, DevState, NoProc
  <2>5. /\ UNCHANGED <<ee, er, iv_ee, transition_list, st_items, work, barrier, devices>>
        /\ UNCHANGED <<dev, dev_ee, mhictrl>>
    BY <1>8 DEF ResumeM0, RpmUnchanged, Unlock
  <2>6. TypeOK'
    BY <2>1, <2>2, <2>3, <2>4, <2>5 DEF TypeOK
  <2>7. MutexInv'
    BY <1>8 DEF ResumeM0, RpmUnchanged, Expires, Spend, Unlock, MutexInv, Critical, Labels,
       ReadyLabels, NoProc, Proc, TypeOK, PcOK, Goto
  <2>8. QED BY <2>6, <2>7
<1>9. ASSUME ResumeClaim PROVE WellFormed'
  <2>1. PcOK'
    BY <1>9, GotoType DEF ResumeClaim, IntvecClaim, TypeOK, PcOK, Labels, DisableLabels,
       ReadyLabels, Proc
  <2>2. Flags'
    BY <1>9 DEF ResumeClaim, IntvecClaim, TypeOK, Flags
  <2>3. TypeOK'
    BY <1>9, <2>1, <2>2, TrysetType, ConstantsAssumption DEF ResumeClaim, IntvecClaim, TypeOK,
       PmState, L0, L1, L2, L3, DevState, EE, Events, Transitions, Work, NoProc
  <2>4. MutexInv'
    BY <1>9 DEF ResumeClaim, IntvecClaim, MutexInv, Critical, Labels, ReadyLabels, NoProc, Proc,
       TypeOK, PcOK, Goto
  <2>5. QED BY <2>3, <2>4
<1>10. ASSUME ResumeNotify PROVE WellFormed'
  <2>1. PcOK'
    BY <1>10, GotoType DEF ResumeNotify, IntvecNotify, TypeOK, PcOK, Labels, DisableLabels,
       ReadyLabels, Proc
  <2>2. Flags'
    BY <1>10 DEF ResumeNotify, IntvecNotify, TypeOK, Flags
  <2>3. work' \in SUBSET Work
    BY <1>10, <2>2 DEF ResumeNotify, IntvecNotify, TypeOK, IntvecNotify, Work
  <2>4. TypeOK'
    BY <1>10, <2>1, <2>2, <2>3, TrysetType, ConstantsAssumption DEF ResumeNotify, IntvecNotify,
       TypeOK, PmState, L0, L1, L2, L3, DevState, EE, Events, Transitions, Work, NoProc
  <2>5. MutexInv'
    BY <1>10 DEF ResumeNotify, IntvecNotify, MutexInv, Critical, Labels, ReadyLabels, NoProc,
       Proc, TypeOK, PcOK, Goto
  <2>6. QED BY <2>4, <2>5
<1>11. ASSUME ResumeFail PROVE WellFormed'
  <2>1. PcOK'
    BY <1>11, GotoType DEF ResumeFail, RpmUnchanged, Unlock, TypeOK, PcOK, Labels,
       DisableLabels, ReadyLabels, Proc
  <2>2. Flags'
    BY <1>11 DEF ResumeFail, RpmUnchanged, Unlock, TypeOK, Flags
  <2>3. TypeOK'
    BY <1>11, <2>1, <2>2, TrysetType, ConstantsAssumption DEF ResumeFail, RpmUnchanged, Unlock,
       TypeOK, PmState, L0, L1, L2, L3, DevState, EE, Events, Transitions, Work, NoProc
  <2>4. MutexInv'
    BY <1>11 DEF ResumeFail, RpmUnchanged, Unlock, MutexInv, Critical, Labels, ReadyLabels,
       NoProc, Proc, TypeOK, PcOK, Goto
  <2>5. QED BY <2>3, <2>4
<1>12. QED
  BY <1>1, <1>2, <1>3, <1>4, <1>5, <1>6, <1>7, <1>8, <1>9, <1>10, <1>11 DEF Rpm

-----------------------------------------------------------------------------
\* An operator's reset.
LEMMA DebugStep == ASSUME WellFormed, DebugReset PROVE WellFormed'
<1> USE DEF WellFormed, At, host, irqs, works, qti, modem
<1>1. ASSUME DebugReset PROVE WellFormed'
  <2>1. PcOK'
    BY <1>1, GotoType DEF DebugReset, Spend, TypeOK, PcOK, Labels, DisableLabels, ReadyLabels,
       Proc
  <2>2. Flags'
    BY <1>1 DEF DebugReset, Spend, TypeOK, Flags
  <2>3. TypeOK'
    BY <1>1, <2>1, <2>2, TrysetType, ConstantsAssumption DEF DebugReset, Spend, TypeOK, PmState,
       L0, L1, L2, L3, DevState, EE, Events, Transitions, Work, NoProc
  <2>4. MutexInv'
    BY <1>1 DEF DebugReset, Spend, MutexInv, Critical, Labels, ReadyLabels, NoProc, Proc,
       TypeOK, PcOK, Goto
  <2>5. QED BY <2>3, <2>4
<1>2. QED
  BY <1>1 DEF DebugReset

-----------------------------------------------------------------------------
\* Every step of the system, stuttering included, keeps the invariant.
LEMMA NextInv == WellFormed /\ [Next]_vars => WellFormed'
<1> SUFFICES ASSUME WellFormed, [Next]_vars PROVE WellFormed'
  OBVIOUS
<1>1. CASE UNCHANGED vars
  BY <1>1 DEF WellFormed, TypeOK, PcOK, Flags, MutexInv, vars, host, irqs, works, qti, modem
<1>2. CASE Next
  BY <1>2, ModemStep, CtrlStep, IntvecStep, StStep, ReadyWorkerStep, SysErrStep, PowerStep,
     RpmStep, DebugStep DEF Next
<1>3. QED BY <1>1, <1>2

(* Every variable keeps its type, no transition without a case in          *)
(* mhi_pm_st_worker is queued, no process leaves its code, and pm_mutex    *)
(* always has exactly the owner that is in its critical section, although  *)
(* mhi_pm_disable_transition drops and takes it again half way: for every  *)
(* choice of what the environment may do to the controller.                *)
THEOREM StateWellFormed == Spec => []WellFormed
<1>1. QED BY InitInv, NextInv, PTL DEF Spec

\* At most one of error handling, shutdown, suspend and resume is in a critical section.
Exclusion == \A p, q \in Holder : pc[p] \in Critical[p] /\ pc[q] \in Critical[q] => p = q

(* Mutual exclusion proper follows: mhi_pm_disable_transition never resets *)
(* the modem or rewinds its rings while mhi_pm_suspend or mhi_pm_resume    *)
(* drives it, nor the other way around.                                    *)
THEOREM MutualExclusion == Spec => []Exclusion
<1>1. WellFormed => Exclusion
  BY DEF WellFormed, MutexInv, Exclusion, Holder
<1>2. QED BY <1>1, StateWellFormed, PTL
-----------------------------------------------------------------------------
(* How pm_state moves, and what a removal makes of it.                     *)

\* mhi_state_transitions, line by line.
LEMMA Table ==
  /\ ToStates["DISABLE"] = {"POR"}
  /\ ToStates["POR"] = Async \cup {"POR", "DISABLE", "M0", "FW_DL_ERR"}
  /\ ToStates["M0"] = Async \cup {"M2", "M3_ENTER", "FW_DL_ERR"}
  /\ ToStates["M2"] = Async \cup {"M0"}
  /\ ToStates["M3_ENTER"] = Async \cup {"M3"}
  /\ ToStates["M3"] = Async \cup {"M3_EXIT"}
  /\ ToStates["M3_EXIT"] = Async \cup {"M0"}
  /\ ToStates["FW_DL_ERR"] = Async \cup {"FW_DL_ERR"}
  /\ ToStates["SYS_ERR_DETECT"] = {"SYS_ERR_PROCESS", "SHUTDOWN_PROCESS", "LD_ERR_FATAL_DETECT"}
  /\ ToStates["SYS_ERR_PROCESS"] = {"POR", "SHUTDOWN_PROCESS", "LD_ERR_FATAL_DETECT"}
  /\ ToStates["SHUTDOWN_PROCESS"] = {"DISABLE", "LD_ERR_FATAL_DETECT"}
  /\ ToStates["LD_ERR_FATAL_DETECT"] = {"LD_ERR_FATAL_DETECT", "SHUTDOWN_PROCESS"}
  BY DEF ToStates, PmState, L0, L1, L2, L3

\* Until the first transition is queued, probe does no more than tell a modem in error to reset.
LEMMA ProbeSteps ==
  ASSUME pc \in [Proc -> UNION {Labels[p] : p \in Proc}], PowerUpSysErr \/ PowerUpPoll \/ PowerUpReset
  PROVE  /\ pc["power"] \in PowerUpLabels /\ pc'["power"] \in PowerUpLabels \cup {"gone"}
         /\ \A p \in Proc \ {"power"} : pc'[p] = pc[p]
         /\ UNCHANGED <<host, pm_mutex, irqs, works, qti, dev, dev_ee, dev_ready, wake, budget>>
         /\ mhictrl' \in {mhictrl, "RESET"}
         /\ dev \in {"RESET", "READY"} => pc'["power"] \in PowerUpLabels /\ mhictrl' = mhictrl
<1>1. PICK l \in PowerUpLabels \cup {"gone"} :
        /\ Goto("power", l) /\ (dev \in {"RESET", "READY"} => l \in PowerUpLabels /\ mhictrl' = mhictrl)
        /\ mhictrl' \in {mhictrl, "RESET"}
  BY DEF PowerUpSysErr, PowerUpPoll, PowerUpReset, PowerWrites, At
<1>2. /\ pc["power"] \in PowerUpLabels
      /\ UNCHANGED <<host, pm_mutex, irqs, works, qti, dev, dev_ee, dev_ready, wake, budget>>
  BY DEF PowerUpSysErr, PowerUpPoll, PowerUpReset, PowerWrites, At
<1>3. pc'["power"] = l /\ \A p \in Proc \ {"power"} : pc'[p] = pc[p]
  BY <1>1 DEF Goto, Proc
<1>4. QED BY <1>1, <1>2, <1>3

\* Where mhi_pm_disable_transition drains what was under way.
Draining == {"dis_kill", "dis_destroy", "dis_flush_ready", "dis_flush_st", "dis_flushing",
             "dis_rings", "dis_done"}

\* A removal counts the link as dead, so that it never resets the modem, and nobody moves
\* pm_state under it; only it leads to DISABLE.
PowerInv ==
  /\ pc["power"] \notin {"dis_reset", "dis_wait"}
  /\ pc["power"] = "dis_enter" => pm_state = "LD_ERR_FATAL_DETECT"
  /\ pc["power"] \in Draining => pm_state = "SHUTDOWN_PROCESS"
  /\ pm_state = "DISABLE" => pc["power"] \in PowerUpLabels \cup {"pd_free", "gone"}
  /\ pc["power"] = "on" => ctxt

\* The transitions of everybody else leave a controller that is shut down, or about to be, alone.
LEMMA PowerUntouched ==
  ASSUME PowerInv, pm_state \in PmState, pc'["power"] = pc["power"], ctxt' = ctxt,
         \/ pm_state' = pm_state
         \/ \E t \in PmState \ {"DISABLE", "SHUTDOWN_PROCESS", "LD_ERR_FATAL_DETECT"} :
              pm_state' = Tryset(pm_state, t)
  PROVE  PowerInv'
<1>1. ASSUME NEW t \in PmState \ {"DISABLE", "SHUTDOWN_PROCESS", "LD_ERR_FATAL_DETECT"}
      PROVE  /\ pm_state \in {"SHUTDOWN_PROCESS", "LD_ERR_FATAL_DETECT"}
                  => Tryset(pm_state, t) = pm_state
             /\ Tryset(pm_state, t) = "DISABLE" => pm_state = "DISABLE"
  BY Table DEF Tryset
<1>2. QED BY <1>1 DEF PowerInv, Draining

\* A controller that is not yet probed is down.
LEMMA PowerStarts == Init => PowerInv
  BY DEF Init, PowerInv, Draining, Proc

\* Every step keeps what a removal has made of pm_state.
LEMMA PowerStays == ASSUME PowerInv, WellFormed, [Next]_vars PROVE PowerInv'
<1> USE DEF host, qti, At
<1>t. pc \in [Proc -> UNION {Labels[p] : p \in Proc}] /\ pm_state \in PmState
  BY DEF WellFormed, TypeOK, PcOK
<1>g. \A p \in Proc \ {"power"} : \A l : Goto(p, l) => pc'["power"] = pc["power"]
  BY <1>t DEF Goto, Proc
<1>1. CASE UNCHANGED vars
  BY <1>1 DEF PowerInv, vars
<1>2. CASE Modem
  BY <1>2 DEF Modem, ModemBoot, ModemReset, ModemM0, ModemIdle, ModemM2, ModemM3, ModemSysErr, ModemRddm, PowerInv
<1>3. CASE Ctrl
  <2>1. pc'["power"] = pc["power"] /\ ctxt' = ctxt
    BY <1>3, <1>g DEF Ctrl, MsiHandlr, CtrlEvTask, M0Event, M1Event, M3Event, SysErrEvent,
       EEEvent, CtrlDrained, CtrlCheckState, CtrlEvent, Proc
  <2>2. \/ pm_state' = pm_state
        \/ \E t \in {"M0", "M2", "M3", "SYS_ERR_DETECT"} : pm_state' = Tryset(pm_state, t)
    BY <1>3 DEF Ctrl, MsiHandlr, CtrlEvTask, M0Event, M1Event, M3Event, SysErrEvent, EEEvent,
       CtrlDrained, CtrlCheckState
  <2>3. QED BY <2>1, <2>2, <1>t, PowerUntouched DEF PmState, L0, L1
<1>4. CASE IntvecThread
  <2>1. pc'["power"] = pc["power"] /\ ctxt' = ctxt
    BY <1>4, <1>g DEF IntvecThread, Intvec, IntvecClaim, IntvecNotify, Proc
  <2>2. pm_state' = pm_state \/ pm_state' = Tryset(pm_state, "SYS_ERR_DETECT")
    BY <1>4 DEF IntvecThread, Intvec, IntvecClaim, IntvecNotify
  <2>3. QED BY <2>1, <2>2, <1>t, PowerUntouched DEF PmState, L1
<1>5. ASSUME NEW p \in {"st", "syserr"}, NEW ret, ReadyTransition(p, ret) PROVE PowerInv'
  <2>1. pc'["power"] = pc["power"] /\ ctxt' = ctxt
    BY <1>5, <1>g DEF ReadyTransition, RdyWait, RdySet, RdyMmio, Proc
  <2>2. pm_state' = pm_state \/ pm_state' = Tryset(pm_state, "POR")
    BY <1>5 DEF ReadyTransition, RdyWait, RdySet, RdyMmio
  <2>3. QED BY <2>1, <2>2, <1>t, PowerUntouched DEF PmState, L0
<1>6. CASE StWorker /\ ~ReadyTransition("st", "st_item")
  <2>1. pc'["power"] = pc["power"] /\ ctxt' = ctxt
    BY <1>6, <1>g DEF StWorker, StTake, StDone, StPbl, StSbl, StReady, StMissionMode, MmSync, MmEE,
       CreateDevices, DeviceAdd, ProbeSync, DriverBind, StItem, GetSync, Proc
  <2>2. pm_state' = pm_state
    BY <1>6 DEF StWorker, StTake, StDone, StPbl, StSbl, StReady, StMissionMode, MmSync, MmEE,
       CreateDevices, DeviceAdd, ProbeSync, DriverBind, StItem
  <2>3. QED BY <2>1, <2>2, <1>t, PowerUntouched
<1>7. CASE ReadyWorker
  BY <1>7 DEF ReadyWorker, PowerInv
<1>8. CASE SysErrWorker /\ ~ReadyTransition("syserr", "dis_exit")
  <2>1. pc'["power"] = pc["power"] /\ ctxt' = ctxt
    BY <1>8, <1>g DEF SysErrWorker, SysErrStart, DisExit, Disable, DisEnter, DisReset, DisWait, DisKill,
       DisDestroy, DisFlushReady, DisFlushSt, DisFlushed, DisRings, DisDone, Proc
  <2>2. \/ pm_state' = pm_state
        \/ \E t \in {"SYS_ERR_PROCESS", "POR"} : pm_state' = Tryset(pm_state, t)
    BY <1>8 DEF SysErrWorker, SysErrStart, DisExit, Disable, DisEnter, DisReset, DisWait, DisKill,
       DisDestroy, DisFlushReady, DisFlushSt, DisFlushed, DisRings, DisDone, Target
  <2>3. QED BY <2>1, <2>2, <1>t, PowerUntouched DEF PmState, L0, L1
<1>9. CASE PowerUp \/ RemoveStart \/ PdFree
  BY <1>9, <1>t DEF PowerUp, RemoveStart, PdFree, PowerInv, Draining, Goto, Proc
<1>10. CASE PdFatal
  <2>1. pm_state # "DISABLE"
    BY <1>10 DEF PdFatal, PowerInv
  <2>2. Tryset(pm_state, "LD_ERR_FATAL_DETECT") = "LD_ERR_FATAL_DETECT"
    BY <2>1, <1>t, Table DEF Tryset, PmState, L0, L1, L2, L3, Async
  <2>3. QED BY <1>10, <2>2, <1>t DEF PdFatal, PowerInv, Draining, Goto, Proc
<1>11. CASE DisEnter("power")
  <2>1. Tryset(pm_state, "SHUTDOWN_PROCESS") = "SHUTDOWN_PROCESS"
    BY <1>11, Table DEF Tryset, DisEnter, PowerInv
  <2>2. pm_state = "LD_ERR_FATAL_DETECT" /\ pm_state \notin RegAccessValid
    BY <1>11 DEF DisEnter, PowerInv, RegAccessValid
  <2>3. QED BY <1>11, <2>1, <2>2, <1>t DEF DisEnter, Target, PowerInv, Draining, Goto, Proc
<1>12. CASE Disable("power") /\ ~DisEnter("power") /\ ~DisDone("power")
  BY <1>12, <1>t DEF Disable, DisReset, DisWait, DisKill, DisDestroy, DisFlushReady, DisFlushSt,
     DisFlushed, DisRings, PowerInv, Draining, Goto, Proc
<1>13. CASE DisDone("power")
  <2>1. Tryset(pm_state, "DISABLE") = "DISABLE"
    BY <1>13, Table DEF Tryset, DisDone, PowerInv, Draining
  <2>2. QED BY <1>13, <2>1, <1>t DEF DisDone, PowerInv, Draining, Goto, Proc
<1>14. CASE Rpm
  <2>1. pc'["power"] = pc["power"] /\ ctxt' = ctxt
    BY <1>14, <1>g DEF Rpm, SuspendStart, SuspendM0, SuspendEnter, SuspendM3, ResumeStart, ResumeAssert,
       ResumeExit, ResumeM0, ResumeClaim, ResumeNotify, ResumeFail, SuspendFail, IntvecClaim,
       IntvecNotify, RpmUnchanged, Proc
  <2>2. \/ pm_state' = pm_state
        \/ \E t \in {"M3_ENTER", "M3_EXIT", "SYS_ERR_DETECT"} : pm_state' = Tryset(pm_state, t)
    BY <1>14 DEF Rpm, SuspendStart, SuspendM0, SuspendEnter, SuspendM3, ResumeStart, ResumeAssert,
       ResumeExit, ResumeM0, ResumeClaim, ResumeNotify, ResumeFail, IntvecClaim, IntvecNotify
  <2>3. QED BY <2>1, <2>2, <1>t, PowerUntouched DEF PmState, L0, L1
<1>15. CASE DebugReset
  BY <1>15, <1>t, PowerUntouched DEF DebugReset, PmState, L1
<1>16. CASE PowerUpSysErr \/ PowerUpPoll \/ PowerUpReset
  <2>1. /\ pc["power"] \in PowerUpLabels /\ pc'["power"] \in PowerUpLabels \cup {"gone"}
        /\ UNCHANGED <<pm_state, ctxt>>
    BY <1>16, <1>t, ProbeSteps
  <2>2. QED BY <2>1 DEF PowerInv, Draining
<1>17. QED
  BY <1>1, <1>2, <1>3, <1>4, <1>5, <1>6, <1>7, <1>8, <1>9, <1>10, <1>11, <1>12, <1>13, <1>14, <1>15, <1>16
     DEF Next, StWorker, SysErrWorker, Power

-----------------------------------------------------------------------------
(* The one READY transition of a modem that boots.                         *)

\* What a queue of transitions or events holds.
Holds(q, t) == \E i \in 1..Len(q) : q[i] = t

\* An empty queue holds nothing, ...
LEMMA HoldsNone == \A t : ~Holds(<<>>, t)
  BY DEF Holds

\* ... a queue that is added to holds what it held and the new entry, ...
LEMMA HoldsAppend ==
  ASSUME NEW S, NEW q \in Seq(S), NEW e \in S, NEW t
  PROVE  Holds(Append(q, e), t) <=> Holds(q, t) \/ e = t
<1>1. /\ Len(Append(q, e)) = Len(q) + 1 /\ Len(q) \in Nat
      /\ \A i \in 1..Len(q) : Append(q, e)[i] = q[i]
      /\ Append(q, e)[Len(q) + 1] = e
  OBVIOUS
<1>2. ASSUME Holds(Append(q, e), t) PROVE Holds(q, t) \/ e = t
  BY <1>1, <1>2 DEF Holds
<1>3. ASSUME Holds(q, t) PROVE Holds(Append(q, e), t)
  BY <1>1, <1>3 DEF Holds
<1>4. ASSUME e = t PROVE Holds(Append(q, e), t)
  <2>1. Len(q) + 1 \in 1..Len(Append(q, e))
    BY <1>1
  <2>2. QED BY <1>1, <1>4, <2>1 DEF Holds
<1>5. QED BY <1>2, <1>3, <1>4

\* ... and one that is read from has held its first entry and what is left.
LEMMA HoldsTail ==
  ASSUME NEW S, NEW q \in Seq(S), q # <<>>, NEW t
  PROVE  Holds(q, t) <=> Head(q) = t \/ Holds(Tail(q), t)
<1>1. /\ Len(q) \in Nat \ {0} /\ Len(Tail(q)) = Len(q) - 1 /\ Head(q) = q[1]
      /\ \A i \in 1..Len(Tail(q)) : Tail(q)[i] = q[i + 1]
  OBVIOUS
<1>2. ASSUME Holds(q, t) PROVE Head(q) = t \/ Holds(Tail(q), t)
  <2>1. PICK i \in 1..Len(q) : q[i] = t
    BY <1>2 DEF Holds
  <2>2. CASE i = 1
    BY <1>1, <2>1, <2>2
  <2>3. CASE i > 1
    <3>1. i - 1 \in 1..Len(Tail(q)) /\ Tail(q)[i - 1] = t
      BY <1>1, <2>1, <2>3
    <3>2. QED BY <3>1 DEF Holds
  <2>4. QED BY <2>2, <2>3
<1>3. ASSUME Head(q) = t PROVE Holds(q, t)
  BY <1>1, <1>3 DEF Holds
<1>4. ASSUME Holds(Tail(q), t) PROVE Holds(q, t)
  <2>1. PICK i \in 1..Len(Tail(q)) : Tail(q)[i] = t
    BY <1>4 DEF Holds
  <2>2. i + 1 \in 1..Len(q) /\ q[i + 1] = t
    BY <1>1, <2>1
  <2>3. QED BY <2>2 DEF Holds
<1>5. QED BY <1>2, <1>3, <1>4

\* The READY transition of the first boot is with the poll, in the list, spliced off, or under way.
Polled == "ready" \in work
Listed == Holds(transition_list, "READY")
InHand == Holds(st_items, "READY")
Under == pc["st"] \in ReadyLabels
Booted == ~Polled /\ ~Listed /\ ~InHand /\ ~Under

\* Until it has been carried out nobody talks to the modem, and the modem to nobody.
Quiet ==
  /\ er = <<>> /\ ~tasklet /\ ~intvec /\ "syserr" \notin work
  /\ pc["ctrl"] = "idle" /\ pc["intvec"] = "idle" /\ pc["syserr"] = "idle" /\ pc["rpm"] = "idle"
  /\ mhictrl = "none" /\ dev \in {"RESET", "READY"} /\ dev_state \in {"RESET", "READY"}
  /\ ee \in {"MAX", "DISABLE_TRANSITION"} /\ rpm = "active"
  /\ pm_state \in {"POR", "DISABLE", "SHUTDOWN_PROCESS", "LD_ERR_FATAL_DETECT"}

BootInv ==
  /\ Polled => transition_list = <<>> /\ st_items = <<>> /\ pc["st"] = "idle" /\ "st" \notin work
  /\ Listed => /\ transition_list = <<"READY">> /\ st_items = <<>> /\ pc["st"] = "idle"
               /\ ~Polled /\ "st" \in work
  /\ InHand => transition_list = <<>> /\ st_items = <<"READY">> /\ pc["st"] = "st_item" /\ ~Polled
  /\ Under => transition_list = <<>> /\ st_items = <<>> /\ ~Polled
  /\ ~Booted \/ pc["power"] \in PowerUpLabels => Quiet
  /\ pc["power"] \in PowerUpLabels => /\ Booted /\ work = {} /\ transition_list = <<>> /\ st_items = <<>>
                             /\ pc["st"] = "idle" /\ pm_state = "DISABLE" /\ ~ctxt

\* Before the probe there is no READY transition, and all is quiet.
LEMMA BootStarts == Init => BootInv
  BY HoldsNone, ConstantsAssumption DEF Init, BootInv, Polled, Listed, InHand, Under, Booted, Quiet,
     ReadyLabels, Proc, InPbl

\* A modem that did not fail early is left alone.
LEMMA ProbeQuiet ==
  ASSUME BootInv, WellFormed, PowerUpSysErr \/ PowerUpPoll \/ PowerUpReset
  PROVE  /\ pc["power"] \in PowerUpLabels /\ pc'["power"] \in PowerUpLabels
         /\ \A p \in Proc \ {"power"} : pc'[p] = pc[p]
         /\ UNCHANGED <<host, pm_mutex, irqs, works, qti, modem, budget>>
<1>1. pc \in [Proc -> UNION {Labels[p] : p \in Proc}]
  BY DEF WellFormed, TypeOK, PcOK
<1>2. pc["power"] \in PowerUpLabels
  BY <1>1, ProbeSteps
<1>3. dev \in {"RESET", "READY"}
  BY <1>2 DEF BootInv, Quiet
<1>4. QED BY <1>1, <1>3, ProbeSteps DEF modem

\* Every step hands the one READY transition of the boot on, or carries it out.
LEMMA BootStays ==
  ASSUME ~EarlyCrash, BootInv, PowerInv, WellFormed, [Next]_vars
  PROVE  BootInv'
<1> USE DEF host, irqs, works, qti, modem, At
<1>t. /\ pc \in [Proc -> UNION {Labels[p] : p \in Proc}] /\ pm_state \in PmState
      /\ transition_list \in Seq(Transitions) /\ st_items \in Seq(Transitions)
  BY DEF WellFormed, TypeOK, PcOK
<1>g. \A p \in Proc : \A l : Goto(p, l) => /\ pc'[p] = l
                                      /\ \A q \in Proc \ {p} : pc'[q] = pc[q]
  BY <1>t DEF Goto
<1>1. CASE UNCHANGED vars
  BY <1>1 DEF BootInv, Polled, Listed, InHand, Under, Booted, Quiet, vars
<1>2. CASE Modem
  BY <1>2 DEF Modem, ModemBoot, ModemReset, ModemM0, ModemIdle, ModemM2, ModemM3, ModemSysErr, ModemRddm,
     EntersM0, EntersM2, EntersM3, BootInv, Polled, Listed, InHand, Under, Booted, Quiet
<1>3. CASE Ctrl
  <2>1. /\ \A p \in Proc \ {"ctrl"} : pc'[p] = pc[p]
        /\ (Polled' <=> Polled) /\ st_items' = st_items
        /\ Holds(transition_list', "READY") <=> Holds(transition_list, "READY")
    <3>1. CASE EEEvent
      <4>1. /\ \A p \in Proc \ {"ctrl"} : pc'[p] = pc[p]
            /\ st_items' = st_items
        BY <3>1, <1>g DEF EEEvent, CtrlEvent, Proc
      <4>2. ASSUME NEW x \in {"SBL", "MISSION_MODE"}, Queue(x)
            PROVE  (Polled' <=> Polled) /\ (Holds(transition_list', "READY") <=> Holds(transition_list, "READY"))
        <5>1. transition_list' = Append(transition_list, x) /\ work' = work \cup {"st"} /\ x \in Transitions
          BY <4>2 DEF Queue, Transitions
        <5>2. Holds(Append(transition_list, x), "READY") <=> Holds(transition_list, "READY") \/ x = "READY"
          BY <5>1, <1>t, HoldsAppend
        <5>3. QED BY <5>1, <5>2 DEF Polled
      <4>3. QED BY <3>1, <4>1, <4>2 DEF EEEvent, Polled
    <3>2. CASE ~EEEvent
      BY <1>3, <3>2, <1>g DEF Ctrl, MsiHandlr, CtrlEvTask, M0Event, M1Event, M3Event, SysErrEvent,
         CtrlDrained, CtrlCheckState, CtrlEvent, Polled, Proc
    <3>3. QED BY <3>1, <3>2
  <2>2. CASE Quiet
    <3>1. MsiHandlr
      BY <1>3, <2>2 DEF Quiet, Ctrl, CtrlEvTask, M0Event, M1Event, M3Event, SysErrEvent, EEEvent,
         CtrlDrained, CtrlCheckState, CtrlEvent
    <3>2. QED BY <3>1, <2>2 DEF MsiHandlr, BootInv, Polled, Listed, InHand, Under, Booted, Quiet
  <2>3. CASE ~Quiet
    BY <2>1, <2>3 DEF BootInv, Polled, Listed, InHand, Under, Booted, Proc
  <2>4. QED BY <2>2, <2>3
<1>4. CASE IntvecThread
  BY <1>4, <1>g DEF IntvecThread, Intvec, IntvecClaim, IntvecNotify, BootInv, Polled, Listed, InHand,
     Under, Booted, Quiet, Proc
<1>5. CASE ReadyTransition("st", "st_item")
  <2>1. Under
    BY <1>5 DEF ReadyTransition, RdyWait, RdySet, RdyMmio, Under, ReadyLabels
  <2>2. \A s \in {"POR", "DISABLE", "SHUTDOWN_PROCESS", "LD_ERR_FATAL_DETECT"} :
          Tryset(s, "POR") \in {"POR", "DISABLE", "SHUTDOWN_PROCESS", "LD_ERR_FATAL_DETECT"}
    BY DEF Tryset
  <2>3. pc["power"] \notin PowerUpLabels /\ Quiet /\ ~Booted
    BY <2>1 DEF BootInv, Booted
  <2>4. pc'["power"] \notin PowerUpLabels /\ ~Polled' /\ ~Listed' /\ ~InHand' /\ transition_list' = <<>>
        /\ st_items' = <<>>
    BY <1>5, <1>g, <2>1, <2>3, HoldsNone DEF BootInv, ReadyTransition, RdyWait, RdySet, RdyMmio,
       Polled, Listed, InHand, Proc
  <2>5. Under' => Quiet'
    BY <1>5, <1>g, <2>2, <2>3 DEF ReadyTransition, RdyWait, RdySet, RdyMmio, Quiet, Proc, Under,
       ReadyLabels
  <2>6. QED BY <2>4, <2>5 DEF BootInv, Booted
<1>6. CASE StTake
  BY <1>6, <1>g, HoldsNone DEF StTake, BootInv, Polled, Listed, InHand, Under, Booted, Quiet,
     ReadyLabels, Proc
<1>7. CASE StDone \/ MmSync \/ MmEE \/ CreateDevices \/ DeviceAdd \/ ProbeSync \/ DriverBind
  BY <1>7, <1>g, HoldsNone DEF StDone, MmSync, MmEE, CreateDevices, DeviceAdd, ProbeSync, DriverBind, GetSync,
     BootInv, Polled, Listed, InHand, Under, Booted, Quiet, ReadyLabels, Proc
<1>8. CASE StPbl \/ StSbl \/ StMissionMode \/ StReady
  <2>1. /\ pc["st"] = "st_item" /\ st_items # <<>> /\ st_items' = Tail(st_items)
        /\ UNCHANGED <<transition_list, work>> /\ pc'["power"] = pc["power"]
    BY <1>8, <1>g DEF StPbl, StSbl, StMissionMode, StReady, StItem, Proc
  <2>2. InHand <=> Head(st_items) = "READY" \/ InHand'
    BY <2>1, <1>t, HoldsTail DEF InHand
  <2>3. ~Polled /\ ~Listed /\ ~Under /\ pc["power"] \notin PowerUpLabels
    BY <2>1 DEF BootInv, Under, ReadyLabels
  <2>4. ~Polled' /\ ~Listed'
    BY <2>1, <2>3 DEF Polled, Listed
  <2>5. CASE InHand
    <3>1. /\ st_items = <<"READY">> /\ Quiet /\ transition_list = <<>> /\ st_items' = <<>>
      <4>1. st_items = <<"READY">> /\ transition_list = <<>>
        BY <2>5 DEF BootInv
      <4>2. Quiet
        BY <2>5 DEF BootInv, Booted
      <4>3. Tail(<<"READY">>) = <<>>
        OBVIOUS
      <4>4. QED BY <2>1, <4>1, <4>2, <4>3
    <3>2. StReady /\ pc'["st"] = "rdy_wait" /\ \A p \in Proc \ {"st"} : pc'[p] = pc[p]
      <4>1. Head(st_items) = "READY"
        BY <3>1
      <4>2. StReady
        BY <1>8, <4>1 DEF StPbl, StSbl, StMissionMode, StReady, StItem
      <4>3. Goto("st", "rdy_wait")
        BY <4>2 DEF StReady, StItem
      <4>4. QED BY <1>g, <4>2, <4>3 DEF Proc
    <3>3. Quiet'
      BY <3>1, <3>2, <2>1 DEF StReady, StItem, Quiet, Proc
    <3>4. ~InHand'
      BY <3>1, HoldsNone DEF InHand
    <3>5. QED BY <2>1, <2>3, <2>4, <3>1, <3>3, <3>4 DEF BootInv
  <2>6. CASE ~InHand
    <3>1. Head(st_items) # "READY" /\ ~InHand'
      BY <2>2, <2>6
    <3>2. pc'["st"] \in {"st_item", "create", "mm_sync"}
      BY <1>8, <3>1, <2>1, <1>g DEF StPbl, StSbl, StMissionMode, StReady, StItem, Proc
    <3>3. ~Under'
      BY <3>2 DEF Under, ReadyLabels
    <3>4. QED BY <2>1, <2>3, <2>4, <3>1, <3>3 DEF BootInv, Booted
  <2>7. QED BY <2>5, <2>6
<1>r. ASSUME ReadyRun, Polled, Quiet, UNCHANGED <<st_items, pm_state, dev_state>>, pc'["st"] = pc["st"]
      PROVE  /\ Polled' => transition_list' = <<>> /\ "st" \notin work'
             /\ Listed' => transition_list' = <<"READY">> /\ ~Polled' /\ "st" \in work'
             /\ ~InHand' /\ ~Under' /\ st_items' = <<>> /\ pc'["st"] = "idle"
             /\ "syserr" \notin work'
  <2>1. transition_list = <<>> /\ st_items = <<>> /\ pc["st"] = "idle" /\ "st" \notin work
    BY <1>r DEF BootInv
  <2>2. transition_list' \in {<<>>, <<"READY">>, <<"PBL">>}
    BY <1>r, <2>1 DEF ReadyRun
  <2>3. ~Holds(<<"PBL">>, "READY")
    BY DEF Holds
  <2>4. Listed' => transition_list' = <<"READY">>
    BY <2>2, <2>3, HoldsNone DEF Listed
  <2>5. /\ transition_list' # <<>> => work' = (work \ {"ready"}) \cup {"st"}
        /\ work' \subseteq work \cup {"st"}
        /\ transition_list' = <<>> => work' \subseteq work
    BY <1>r, <2>1 DEF ReadyRun
  <2>6. QED BY <1>r, <2>1, <2>4, <2>5, HoldsNone DEF Polled, InHand, Under, ReadyLabels, Listed, Quiet
<1>9. CASE ReadyWorker
  <2>1. Polled /\ pc["power"] \notin PowerUpLabels
    BY <1>9 DEF ReadyWorker, Polled, BootInv, Booted
  <2>2. Quiet
    BY <2>1 DEF BootInv, Booted
  <2>3. Quiet'
    BY <2>2, <1>9, <1>r, <2>1 DEF ReadyWorker, Quiet
  <2>4. QED BY <2>1, <2>2, <2>3, <1>9, <1>r DEF ReadyWorker, BootInv
<1>10. CASE SysErrWorker
  <2>1. ~Quiet
    BY <1>10 DEF Quiet, SysErrWorker, SysErrStart, DisExit, Disable, DisEnter, DisReset, DisWait, DisKill,
       DisDestroy, DisFlushReady, DisFlushSt, DisFlushed, DisRings, DisDone, ReadyTransition, RdyWait,
       RdySet, RdyMmio
  <2>2. Booted /\ pc["power"] \notin PowerUpLabels
    BY <2>1 DEF BootInv
  <2>3. /\ UNCHANGED <<transition_list, st_items>>
        /\ work' \subseteq work /\ \A p \in Proc \ {"syserr"} : pc'[p] = pc[p]
    BY <1>10, <1>g, <2>2 DEF SysErrWorker, SysErrStart, DisExit, Disable, DisEnter, DisReset, DisWait, DisKill,
       DisDestroy, DisFlushReady, DisFlushSt, DisFlushed, DisRings, DisDone, ReadyTransition, RdyWait,
       RdySet, RdyMmio, Booted, Polled, Proc
  <2>4. Booted' /\ pc'["power"] \notin PowerUpLabels
    BY <2>2, <2>3 DEF Booted, Polled, Listed, InHand, Under, Proc
  <2>5. QED BY <2>4 DEF BootInv, Booted
<1>11. CASE PowerUp
  <2>1. /\ Quiet /\ work = {} /\ transition_list = <<>> /\ st_items = <<>> /\ pc["st"] = "idle"
    BY <1>11 DEF PowerUp, BootInv
  <2>2. \/ work' = {"ready"} /\ transition_list' = <<>>
        \/ work' = {"st"} /\ transition_list' = <<"READY">>
    BY <1>11, <2>1 DEF PowerUp, Queue
  <2>3. /\ pc'["power"] = "on" /\ \A p \in Proc \ {"power"} : pc'[p] = pc[p]
        /\ st_items' = <<>>
    BY <1>11, <1>g, <2>1 DEF PowerUp, Proc
  <2>4. Quiet'
    BY <1>11, <2>1, <2>2, <2>3 DEF PowerUp, Quiet, Proc
  <2>5. QED BY <2>1, <2>2, <2>3, <2>4, HoldsNone DEF BootInv, Polled, Listed, InHand, Under, ReadyLabels, Proc
<1>12. CASE RemoveStart \/ PdFatal \/ PdFree \/ (Disable("power") /\ ~DisFlushReady("power"))
  <2>1. /\ \A p \in Proc \ {"power"} : pc'[p] = pc[p]
        /\ UNCHANGED <<work, transition_list, st_items>> /\ pc["power"] \notin PowerUpLabels /\ pc'["power"] \notin PowerUpLabels
    BY <1>12, <1>g DEF RemoveStart, PdFatal, PdFree, Disable, DisEnter, DisReset, DisWait, DisKill,
       DisDestroy, DisFlushSt, DisFlushed, DisRings, DisDone, Target, AfterDisable, Proc
  <2>2. Quiet => Quiet'
    <3>1. \A s \in {"POR", "DISABLE", "SHUTDOWN_PROCESS", "LD_ERR_FATAL_DETECT"},
             t \in {"LD_ERR_FATAL_DETECT", "DISABLE"} :
            Tryset(s, t) \in {"POR", "DISABLE", "SHUTDOWN_PROCESS", "LD_ERR_FATAL_DETECT"}
      BY DEF Tryset
    <3>2. QED
      BY <1>12, <2>1, <3>1 DEF RemoveStart, PdFatal, PdFree, Disable, DisEnter, DisReset, DisWait, DisKill,
         DisDestroy, DisFlushSt, DisFlushed, DisRings, DisDone, Target, PowerInv, Quiet, Proc
  <2>3. QED BY <2>1, <2>2 DEF BootInv, Polled, Listed, InHand, Under, Booted, Proc
<1>13. CASE DisFlushReady("power")
  <2>1. /\ \A p \in Proc \ {"power"} : pc'[p] = pc[p]
        /\ st_items' = st_items /\ pc["power"] \notin PowerUpLabels /\ pc'["power"] \notin PowerUpLabels
    BY <1>13, <1>g DEF DisFlushReady, Proc
  <2>2. CASE ~Polled
    BY <1>13, <2>1, <2>2 DEF DisFlushReady, BootInv, Polled, Listed, InHand, Under, Booted, Quiet, Proc
  <2>3. CASE Polled
    <3>1. Quiet /\ ReadyRun
      BY <1>13, <2>3 DEF BootInv, Booted, DisFlushReady, Polled
    <3>2. Quiet'
      BY <3>1, <2>1, <2>3, <1>13, <1>r DEF DisFlushReady, Quiet, Proc
    <3>3. QED BY <2>1, <2>3, <3>1, <3>2, <1>13, <1>r DEF DisFlushReady, BootInv, Proc
  <2>4. QED BY <2>2, <2>3
<1>14. CASE Rpm
  <2>1. ~Quiet
    BY <1>14 DEF Quiet, Rpm, SuspendStart, SuspendM0, SuspendEnter, SuspendM3, ResumeStart, ResumeAssert,
       ResumeExit, ResumeM0, ResumeClaim, ResumeNotify, ResumeFail, IntvecNotify
  <2>2. /\ UNCHANGED <<transition_list, st_items>> /\ work' \subseteq work \cup {"syserr"}
        /\ \A p \in Proc \ {"rpm"} : pc'[p] = pc[p]
    BY <1>14, <1>g DEF Rpm, SuspendStart, SuspendM0, SuspendEnter, SuspendM3, ResumeStart, ResumeAssert,
       ResumeExit, ResumeM0, ResumeClaim, ResumeNotify, ResumeFail, SuspendFail, IntvecClaim,
       IntvecNotify, RpmUnchanged, Proc
  <2>3. QED BY <2>1, <2>2 DEF BootInv, Polled, Listed, InHand, Under, Booted, Proc
<1>15. CASE DebugReset
  BY <1>15 DEF DebugReset, BootInv, Polled, Listed, InHand, Under, Booted, Quiet
<1>16. CASE PowerUpSysErr \/ PowerUpPoll \/ PowerUpReset
  BY <1>16, ProbeQuiet DEF BootInv, Polled, Listed, InHand, Under, Booted, Quiet, Proc
<1>17. QED
  BY <1>1, <1>2, <1>3, <1>4, <1>5, <1>6, <1>7, <1>8, <1>9, <1>10, <1>11, <1>12, <1>13, <1>14, <1>15, <1>16
     DEF Next, StWorker, Power

-----------------------------------------------------------------------------
(* The reset of a failed modem.                                            *)

Down == {"DISABLE", "SYS_ERR_PROCESS", "SHUTDOWN_PROCESS", "LD_ERR_FATAL_DETECT"}
AfterReset == Draining \cup ReadyLabels

\* The error worker is the only one to reset the modem.  From there until it sends it to M0 again
\* the modem stays where the reset left it and hears nothing, the host is down, and once the event
\* task is gone and the ring is rewound both stay so.
ResetInv ==
  /\ mhictrl = "RESET" => /\ pm_state \in Down
                          /\ pc["syserr"] \in {"idle", "dis_enter", "dis_reset", "dis_wait"}
  /\ pc["syserr"] \in {"dis_reset", "dis_wait"} => pm_state = "SYS_ERR_PROCESS"
  /\ pc["syserr"] = "dis_wait" /\ mhictrl # "RESET" => dev \in {"RESET", "READY"} /\ mhictrl = "none"
  /\ pc["syserr"] \in AfterReset => dev \in {"RESET", "READY"} /\ mhictrl = "none"
  /\ pc["syserr"] \in AfterReset \ {"rdy_mmio"} => pm_state \in Down
  /\ pc["syserr"] = "rdy_mmio" => pm_state = "POR" /\ dev_state = "READY"
  /\ pc["syserr"] \in {"dis_done"} \cup ReadyLabels => er = <<>>
  /\ pc["syserr"] \in AfterReset \ {"dis_kill", "rdy_mmio"} => pc["ctrl"] = "idle"

\* At first no reset is under way.
LEMMA ResetStarts == Init => ResetInv
  BY DEF Init, ResetInv, AfterReset, Draining, ReadyLabels, Proc

\* Who tries what leaves a controller down that is down.
LEMMA TrysetDown ==
  ASSUME NEW s \in Down, NEW t \in PmState \ {"POR"}
  PROVE  Tryset(s, t) \in Down
  BY Table DEF Tryset, Down, PmState, L0, L1, L2, L3

\* Every step keeps what the reset of a failed modem relies on.
LEMMA ResetStays ==
  ASSUME ~EarlyCrash, ResetInv, BootInv, PowerInv, WellFormed, [Next]_vars
  PROVE  ResetInv'
<1> USE DEF host, irqs, works, qti, modem, At
<1>t. /\ pc \in [Proc -> UNION {Labels[p] : p \in Proc}] /\ pm_state \in PmState
      /\ pc["syserr"] \in {"dis_reset", "dis_wait", "dis_kill", "dis_done"} \cup ReadyLabels
           => pm_mutex = "syserr"
  BY DEF WellFormed, TypeOK, PcOK, MutexInv, Critical
<1>g. \A p \in Proc : \A l : Goto(p, l) => /\ pc'[p] = l
                                      /\ \A q \in Proc \ {p} : pc'[q] = pc[q]
  BY <1>t DEF Goto
<1>d. \A s \in Down : /\ Tryset(s, "SYS_ERR_DETECT") = s /\ Tryset(s, "M0") = s /\ Tryset(s, "M2") = s
                      /\ Tryset(s, "M3") = s /\ s \in EventAccessInvalid
                      /\ Tryset(s, "M3_ENTER") = s /\ Tryset(s, "M3_EXIT") = s
  BY Table DEF Down, Tryset, EventAccessInvalid, InErrorState, L1, L2, L3
<1> USE DEF ResetInv, AfterReset, Draining, ReadyLabels
<1>1. CASE UNCHANGED vars
  BY <1>1 DEF vars
<1>2. CASE Modem
  BY <1>2 DEF Modem, ModemBoot, ModemReset, ModemM0, ModemIdle, ModemM2, ModemM3, ModemSysErr, ModemRddm,
     EntersM0, EntersM2, EntersM3, Booting
<1>3. CASE Ctrl
  <2>1. /\ \A p \in Proc \ {"ctrl"} : pc'[p] = pc[p]
        /\ UNCHANGED dev
        /\ er = <<>> => er' = <<>>
        /\ pm_state \in Down => pm_state' = pm_state /\ (pc["ctrl"] = "idle" => pc'["ctrl"] = "idle")
    BY <1>3, <1>g, <1>d DEF Ctrl, MsiHandlr, CtrlEvTask, M0Event, M1Event, M3Event, SysErrEvent, EEEvent,
       CtrlDrained, CtrlCheckState, CtrlEvent, Queue, Proc
  <2>2. mhictrl' = mhictrl \/ (pm_state' = "M2" /\ mhictrl' = "M2")
    BY <1>3 DEF Ctrl, MsiHandlr, CtrlEvTask, M0Event, M1Event, M3Event, SysErrEvent, EEEvent,
       CtrlDrained, CtrlCheckState, CtrlEvent, Queue
  <2>3. pc["syserr"] = "rdy_mmio" => pm_state' = pm_state /\ dev_state' = dev_state
    BY <1>3 DEF Ctrl, MsiHandlr, CtrlEvTask, M0Event, M1Event, M3Event, SysErrEvent, EEEvent,
       CtrlDrained, CtrlCheckState, CtrlEvent, Queue
  <2>4. "M2" \notin Down
    BY DEF Down
  <2>5. QED BY <2>1, <2>2, <2>3, <2>4 DEF Proc, Down
<1>4. CASE IntvecThread
  <2>1. /\ \A p \in Proc \ {"intvec"} : pc'[p] = pc[p]
        /\ UNCHANGED <<dev, er, dev_state, mhictrl>>
        /\ \/ pm_state' = pm_state
           \/ pm_state' = Tryset(pm_state, "SYS_ERR_DETECT") /\ dev = "SYS_ERR"
    BY <1>4, <1>g DEF IntvecThread, Intvec, IntvecClaim, IntvecNotify, Proc
  <2>2. pm_state \in Down => pm_state' = pm_state
    BY <2>1, <1>d
  <2>3. pc["syserr"] \in AfterReset => pm_state' = pm_state
    BY <2>1
  <2>4. QED BY <2>1, <2>2, <2>3 DEF Proc, Down
<1>5. CASE ReadyTransition("st", "st_item")
  <2>1. Quiet
    BY <1>5 DEF ReadyTransition, RdyWait, RdySet, RdyMmio, Under, BootInv, Booted
  <2>2. pc'["syserr"] = "idle" /\ mhictrl' # "RESET"
    BY <1>5, <2>1, <1>g DEF ReadyTransition, RdyWait, RdySet, RdyMmio, Quiet, Proc
  <2>3. QED BY <2>2
<1>6. CASE StWorker /\ ~ReadyTransition("st", "st_item")
  <2>1. /\ \A p \in Proc \ {"st"} : pc'[p] = pc[p]
        /\ UNCHANGED <<dev, er, pm_state, dev_state, mhictrl>>
    BY <1>6, <1>g DEF StWorker, StTake, StDone, StPbl, StSbl, StReady, StMissionMode, MmSync, MmEE,
       CreateDevices, DeviceAdd, ProbeSync, DriverBind, StItem, GetSync, Proc
  <2>2. QED BY <2>1 DEF Proc
<1>7. CASE ReadyWorker
  BY <1>7 DEF ReadyWorker
<1>8. CASE ReadyTransition("syserr", "dis_exit")
  <2>1. CASE RdyWait("syserr", "dis_exit")
    BY <1>g, <2>1 DEF RdyWait, Proc
  <2>2. CASE RdySet("syserr", "dis_exit")
    <3>1. pm_state \in Down => pm_state' \in Down \/ pm_state' = "POR"
      BY <2>2 DEF RdySet, Tryset
    <3>2. QED BY <1>g, <2>2, <3>1 DEF RdySet, Proc
  <2>3. CASE RdyMmio("syserr", "dis_exit")
    BY <1>g, <2>3 DEF RdyMmio, Proc
  <2>4. QED BY <1>8, <2>1, <2>2, <2>3 DEF ReadyTransition
<1>9. CASE SysErrStart \/ DisExit
  BY <1>9, <1>g DEF SysErrStart, DisExit, Proc
<1>10. CASE DisEnter("syserr")
  <2>1. CASE Tryset(pm_state, "SYS_ERR_PROCESS") = "SYS_ERR_PROCESS"
    <3>1. pm_state \in {"SYS_ERR_DETECT", "SYS_ERR_PROCESS"}
      BY <2>1, <1>t, Table DEF Tryset, PmState, L0, L1, L2, L3, Async
    <3>2. pm_state \in RegAccessValid
      BY <3>1 DEF RegAccessValid, PmState, L1
    <3>3. QED BY <1>10, <1>g, <2>1, <3>2 DEF DisEnter, Target, Proc, Down
  <2>2. CASE Tryset(pm_state, "SYS_ERR_PROCESS") # "SYS_ERR_PROCESS"
    BY <1>10, <1>g, <2>2 DEF DisEnter, Target, AfterDisable, Proc
  <2>3. QED BY <2>1, <2>2
<1>11. CASE Disable("syserr") /\ ~DisEnter("syserr") /\ ~DisDone("syserr")
  BY <1>11, <1>g, <1>d DEF Disable, DisReset, DisWait, DisKill, DisDestroy, DisFlushReady, DisFlushSt,
     DisFlushed, DisRings, Proc, Down
<1>12. CASE DisDone("syserr")
  BY <1>12, <1>g DEF DisDone, Proc
<1>13. CASE PowerUp
  <2>1. Quiet
    BY <1>13 DEF PowerUp, BootInv
  <2>2. QED BY <1>13, <1>g, <2>1 DEF PowerUp, Quiet, Proc
<1>14. CASE RemoveStart \/ PdFree \/ (Disable("power") /\ ~DisEnter("power") /\ ~DisDone("power"))
  BY <1>14, <1>g DEF RemoveStart, PdFree, Disable, DisReset, DisWait, DisKill, DisDestroy, DisFlushReady,
     DisFlushSt, DisFlushed, DisRings, PowerInv, Proc
<1>15. CASE PdFatal \/ DisEnter("power") \/ DisDone("power")
  <2>1. /\ \A p \in Proc \ {"power"} : pc'[p] = pc[p]
        /\ UNCHANGED <<dev, er, mhictrl>>
    BY <1>15, <1>g DEF PdFatal, DisEnter, DisDone, Proc
  <2>2. pm_state \in Down => pm_state' \in Down
    BY <1>15, <1>t, TrysetDown DEF PdFatal, DisEnter, DisDone, Target, Down, PmState, L0, L2, L3
  <2>3. pm_mutex \notin {"syserr", "rpm"}
    BY <1>15 DEF PdFatal, DisEnter, DisDone, WellFormed, MutexInv, Critical, NoProc
  <2>4. pc["syserr"] \notin {"dis_reset", "dis_wait", "rdy_mmio"}
    BY <2>3, <1>t
  <2>5. QED BY <2>1, <2>2, <2>4 DEF Proc
<1>16. CASE Rpm
  <2>1. /\ \A p \in Proc \ {"rpm"} : pc'[p] = pc[p]
        /\ UNCHANGED <<dev, er, dev_state>>
        /\ \/ mhictrl' = mhictrl
           \/ pm_state' \in {"M3_ENTER", "M3_EXIT"} /\ mhictrl' \in {"M3", "M0"}
        /\ pm_state \in Down => pm_state' = pm_state
    BY <1>16, <1>g, <1>d DEF Rpm, SuspendStart, SuspendM0, SuspendEnter, SuspendM3, ResumeStart, ResumeAssert,
       ResumeExit, ResumeM0, ResumeClaim, ResumeNotify, ResumeFail, SuspendFail, IntvecClaim,
       IntvecNotify, RpmUnchanged, Proc, Down
  <2>2. pc["syserr"] = "rdy_mmio" => UNCHANGED <<pm_state, mhictrl>>
    BY <1>16, <1>t DEF Rpm, SuspendStart, SuspendM0, SuspendEnter, SuspendM3, ResumeStart, ResumeAssert,
       ResumeExit, ResumeM0, ResumeClaim, ResumeNotify, ResumeFail, SuspendFail, IntvecClaim,
       IntvecNotify, Lock, WellFormed, MutexInv, Critical, Labels, NoProc
  <2>3. QED BY <2>1, <2>2 DEF Proc, Down
<1>17. CASE DebugReset
  BY <1>17, <1>d DEF DebugReset, Down
<1>18. CASE PowerUpSysErr \/ PowerUpPoll \/ PowerUpReset
  BY <1>18, ProbeQuiet DEF Proc
<1>19. QED
  BY <1>1, <1>2, <1>3, <1>4, <1>5, <1>6, <1>7, <1>8, <1>9, <1>10, <1>11, <1>12, <1>13, <1>14, <1>15,
     <1>16, <1>17, <1>18 DEF Next, StWorker, SysErrWorker, Power

\* Whoever writes MHICTRL finds it free of a RESET, or writes RESET.
LEMMA ResetKeptStep ==
  ASSUME ResetInv, BootInv, WellFormed, [Next]_vars
  PROVE  mhictrl = "RESET" => mhictrl' \in {"RESET", "none"}
<1> SUFFICES ASSUME mhictrl = "RESET" PROVE mhictrl' \in {"RESET", "none"}
  OBVIOUS
<1> USE DEF host, irqs, works, qti, modem, At
<1>d. pm_state \in Down /\ ~Under /\ pc["syserr"] \notin ReadyLabels
  BY DEF ResetInv, BootInv, Booted, Quiet, ReadyLabels
<1>m. \A t \in {"M2", "M3_ENTER", "M3_EXIT"} : Tryset(pm_state, t) # t
  BY <1>d, Table DEF Tryset, Down
<1>1. CASE UNCHANGED vars
  BY <1>1 DEF vars
<1>2. CASE Modem
  BY <1>2 DEF Modem, ModemBoot, ModemReset, ModemM0, ModemIdle, ModemM2, ModemM3, ModemSysErr, ModemRddm
<1>3. CASE Ctrl
  BY <1>3, <1>m DEF Ctrl, MsiHandlr, CtrlEvTask, M0Event, M1Event, M3Event, SysErrEvent, EEEvent,
     CtrlDrained, CtrlCheckState, CtrlEvent
<1>4. CASE IntvecThread \/ ReadyWorker \/ DebugReset
  BY <1>4 DEF IntvecThread, Intvec, IntvecClaim, IntvecNotify, ReadyWorker, DebugReset
<1>5. CASE StWorker
  BY <1>5, <1>d DEF StWorker, StTake, StDone, StPbl, StSbl, StReady, StMissionMode, MmSync, MmEE,
     CreateDevices, DeviceAdd, ProbeSync, DriverBind, StItem, ReadyTransition, RdyWait, RdySet, RdyMmio,
     Under, ReadyLabels
<1>6. CASE SysErrWorker \/ Power
  BY <1>6, <1>d DEF SysErrWorker, SysErrStart, DisExit, Disable, DisEnter, DisReset, DisWait, DisKill,
     DisDestroy, DisFlushReady, DisFlushSt, DisFlushed, DisRings, DisDone, ReadyTransition, RdyWait,
     RdySet, RdyMmio, Power, PowerUpSysErr, PowerUpPoll, PowerUpReset, PowerWrites, PowerUp, RemoveStart, PdFatal, PdFree, ReadyLabels
<1>7. CASE Rpm
  BY <1>7, <1>m DEF Rpm, SuspendStart, SuspendM0, SuspendEnter, SuspendM3, ResumeStart, ResumeAssert,
     ResumeExit, ResumeM0, ResumeClaim, ResumeNotify, ResumeFail, IntvecClaim, IntvecNotify
<1>8. QED BY <1>1, <1>2, <1>3, <1>4, <1>5, <1>6, <1>7 DEF Next

\* What the reset of a failed modem rests on.
HostInv == WellFormed /\ PowerInv /\ BootInv /\ ResetInv

\* All of it together is an invariant.
LEMMA HostHolds == ASSUME ~EarlyCrash PROVE Spec => []HostInv
<1>1. Init => HostInv
  BY InitInv, PowerStarts, BootStarts, ResetStarts DEF HostInv
<1>2. HostInv /\ [Next]_vars => HostInv'
  <2>1. ASSUME HostInv, [Next]_vars PROVE HostInv'
    <3>1. WellFormed' /\ PowerInv'
      BY <2>1, NextInv, PowerStays DEF HostInv
    <3>2. BootInv' /\ ResetInv'
      BY <2>1, BootStays, ResetStays DEF HostInv
    <3>3. QED BY <3>1, <3>2 DEF HostInv
  <2>2. QED BY <2>1
<1>3. QED BY <1>1, <1>2, PTL DEF Spec

(* A modem told to reset is told nothing else before it has done so: the   *)
(* M2 answer of mhi_pm_m1_transition, M3 of mhi_pm_suspend, M0 of          *)
(* mhi_pm_resume and of both callers of mhi_ready_state_transition never   *)
(* reach MHICTRL in between.                                               *)
THEOREM ResetUndisturbed == ASSUME ~EarlyCrash PROVE Spec => ResetKept
<1>1. HostInv /\ [Next]_vars => [mhictrl = "RESET" => mhictrl' \in {"RESET", "none"}]_vars
  BY ResetKeptStep DEF HostInv
<1>2. QED BY <1>1, HostHolds, PTL DEF Spec, ResetKept

(* When mhi_pm_disable_transition rewinds command and event rings after an *)
(* error, the modem does not use them: it is reset, and nobody has sent it *)
(* to M0.                                                                  *)
THEOREM RingsRewoundQuietly == ASSUME ~EarlyCrash PROVE Spec => []RingsResetWhileQuiet
<1>1. HostInv => RingsResetWhileQuiet
  BY DEF HostInv, ResetInv, AfterReset, Draining, RingsResetWhileQuiet, At
<1>2. QED BY <1>1, HostHolds, PTL

-----------------------------------------------------------------------------
(* The ladder of levels.                                                   *)

\* A failed modem may come back in emergency download while the driver is unbound: the error
\* worker of mhi_pm_disable_transition then leaves DISABLE and pm_mutex in one step.
NoEdlRace == Removable = {} \/ "EDL" \notin FirstEE \cup ResetEE

NoEdlInv ==
  /\ Removable = {} => pc["power"] \in PowerUpLabels \cup {"on"}
  /\ "EDL" \notin FirstEE \cup ResetEE => dev_ee # "EDL"

\* A driver that is not probed is not being removed.
LEMMA NoEdlStarts == Init => NoEdlInv
  BY DEF Init, NoEdlInv, Proc

\* Only the modem moves itself.
LEMMA OthersLeaveModem == ASSUME [Next]_vars, ~Modem PROVE UNCHANGED <<dev, dev_ee, dev_ready>>
  BY DEF modem, Next, vars, Ctrl, MsiHandlr, CtrlEvTask, M0Event, M1Event, M3Event, SysErrEvent,
     EEEvent, CtrlDrained, CtrlCheckState, CtrlEvent, IntvecThread, Intvec, IntvecClaim, IntvecNotify,
     StWorker, StTake, StDone, StPbl, StSbl, StReady, StMissionMode, MmSync, MmEE, CreateDevices,
     DeviceAdd, ProbeSync, DriverBind, StItem, ReadyTransition, RdyWait, RdySet, RdyMmio, ReadyWorker,
     SysErrWorker, SysErrStart, DisExit, Disable, DisEnter, DisReset, DisWait, DisKill, DisDestroy,
     DisFlushReady, DisFlushSt, DisFlushed, DisRings, DisDone, Power, PowerUpSysErr, PowerUpPoll, PowerUpReset, PowerWrites, PowerUp, RemoveStart, PdFatal,
     PdFree, Rpm, SuspendStart, SuspendM0, SuspendEnter, SuspendM3, ResumeStart, ResumeAssert,
     ResumeExit, ResumeM0, ResumeClaim, ResumeNotify, ResumeFail, RpmUnchanged, DebugReset

\* Every step keeps either the removal or emergency download away.
LEMMA NoEdlStays == ASSUME NoEdlInv, BootInv, WellFormed, [Next]_vars PROVE NoEdlInv'
<1> USE DEF host, irqs, works, qti, modem, At
<1>t. pc \in [Proc -> UNION {Labels[p] : p \in Proc}]
  BY DEF WellFormed, TypeOK, PcOK
<1>g. \A p \in Proc : \A l : Goto(p, l) => /\ pc'[p] = l
                                           /\ \A q \in Proc \ {p} : pc'[q] = pc[q]
  BY <1>t DEF Goto
<1>1. "EDL" \notin FirstEE \cup ResetEE => dev_ee' # "EDL"
  <2>1. CASE Modem
    BY <2>1 DEF NoEdlInv, Modem, ModemBoot, ModemReset, ModemM0, ModemIdle, ModemM2, ModemM3, ModemSysErr,
       ModemRddm
  <2>2. CASE ~Modem
    BY <2>2, OthersLeaveModem DEF NoEdlInv
  <2>3. QED BY <2>1, <2>2
<1>2. Removable = {} => pc'["power"] \in PowerUpLabels \cup {"on"}
  <2>1. CASE Power
    <3>1. CASE PowerUpSysErr \/ PowerUpPoll \/ PowerUpReset
      BY <3>1, ProbeQuiet
    <3>2. CASE ~(PowerUpSysErr \/ PowerUpPoll \/ PowerUpReset)
      BY <2>1, <3>2, <1>g DEF NoEdlInv, Power, PowerUp, RemoveStart, PdFatal, PdFree, Disable, DisEnter,
         DisReset, DisWait, DisKill, DisDestroy, DisFlushReady, DisFlushSt, DisFlushed, DisRings, DisDone, Proc
    <3>3. QED BY <3>1, <3>2
  <2>2. CASE ~Power
    BY <2>2, <1>g DEF NoEdlInv, Next, vars, Modem, ModemBoot, ModemReset, ModemM0, ModemIdle, ModemM2, ModemM3,
       ModemSysErr, ModemRddm, Ctrl, MsiHandlr, CtrlEvTask, M0Event, M1Event, M3Event, SysErrEvent,
       EEEvent, CtrlDrained, CtrlCheckState, CtrlEvent, IntvecThread, Intvec, IntvecClaim, IntvecNotify,
       StWorker, StTake, StDone, StPbl, StSbl, StReady, StMissionMode, MmSync, MmEE, CreateDevices,
       DeviceAdd, ProbeSync, DriverBind, StItem, GetSync, ReadyTransition, RdyWait, RdySet, RdyMmio, ReadyWorker,
       SysErrWorker, SysErrStart, DisExit, Disable, DisEnter, DisReset, DisWait, DisKill, DisDestroy,
       DisFlushReady, DisFlushSt, DisFlushed, DisRings, DisDone, Rpm, SuspendStart, SuspendM0,
       SuspendEnter, SuspendM3, ResumeStart, ResumeAssert, ResumeExit, ResumeM0, ResumeClaim,
       ResumeNotify, ResumeFail, SuspendFail, DebugReset, Proc
  <2>3. QED BY <2>1, <2>2
<1>3. QED BY <1>1, <1>2 DEF NoEdlInv

\* A step of the ladder, or none.
LadderStep == [Ladder!Next]_<<pm_state, pm_mutex>>

\* The ladder's table is the controller's.
LEMMA LadderTable ==
  /\ Ladder!ToStates = ToStates /\ Ladder!L0 = L0
  /\ ToStates["SYS_ERR_DETECT"] = {"SYS_ERR_PROCESS", "SHUTDOWN_PROCESS", "LD_ERR_FATAL_DETECT"}
  BY Table DEF Ladder!ToStates, ToStates, Ladder!PmState, PmState, Ladder!L0, Ladder!L1, Ladder!L2, Ladder!L3,
     L0, L1, L2, L3, Ladder!Async, Async

\* A state tried from outside pm_mutex is one of normal operation or an error that is noted.
LEMMA Operates ==
  ASSUME pm_state \in PmState, pm_mutex' = pm_mutex,
         NEW t \in {"POR", "M0", "M2", "M3"}, t = "POR" => pm_state # "SYS_ERR_PROCESS",
         pm_state' = Tryset(pm_state, t)
  PROVE  LadderStep
<1>1. CASE t \notin ToStates[pm_state]
  BY <1>1 DEF Tryset, LadderStep
<1>2. CASE t \in ToStates[pm_state]
  <2>1. pm_state \in L0 /\ t \in L0 \ {"DISABLE", "M3_ENTER", "M3_EXIT"}
    BY <1>2, Table DEF PmState, L0, L1, L2, L3, Async
  <2>2. Ladder!Operate
    BY <1>2, <2>1, LadderTable DEF Tryset, Ladder!Operate
  <2>3. QED BY <2>2 DEF LadderStep, Ladder!Next
<1>3. QED BY <1>1, <1>2

\* An error may be noted in every state that can be left for it.
LEMMA Detects ==
  ASSUME pm_state \in PmState, pm_mutex' = pm_mutex,
         NEW t \in {"SYS_ERR_DETECT", "LD_ERR_FATAL_DETECT"},
         pm_state' = Tryset(pm_state, t)
  PROVE  LadderStep
  BY LadderTable DEF Tryset, LadderStep, Ladder!Detect, Ladder!Next

\* pm_mutex is taken or given back.
LEMMA Hands ==
  ASSUME pm_state' = pm_state,
         \/ pm_mutex' = pm_mutex
         \/ pm_mutex = NoProc /\ pm_mutex' \in {"syserr", "power", "rpm"}
         \/ pm_mutex # NoProc /\ pm_mutex' = NoProc
  PROVE  LadderStep
  BY DEF LadderStep, Ladder!Hand, Ladder!Handler, Ladder!Nobody, Ladder!Next, NoProc

\* Every step of the controller is a step of the ladder, or none.
LEMMA LadderStays ==
  ASSUME HostInv, NoEdlInv, NoEdlRace, [Next]_vars
  PROVE  LadderStep
<1> USE DEF host, irqs, works, qti, modem, At
<1>t. /\ pc \in [Proc -> UNION {Labels[p] : p \in Proc}] /\ pm_state \in PmState
      /\ \A p \in {"syserr", "power", "rpm"} : pm_mutex = p <=> pc[p] \in Critical[p]
  BY DEF HostInv, WellFormed, TypeOK, PcOK, MutexInv
<1>1. CASE UNCHANGED vars \/ Modem \/ ReadyWorker
  BY <1>1 DEF vars, Modem, ModemBoot, ModemReset, ModemM0, ModemIdle, ModemM2, ModemM3, ModemSysErr, ModemRddm,
     ReadyWorker, LadderStep
<1>2. CASE Ctrl
  <2>1. /\ pm_mutex' = pm_mutex
        /\ \/ pm_state' = pm_state
           \/ \E t \in {"M0", "M2", "M3"} : pm_state' = Tryset(pm_state, t)
           \/ pm_state' = Tryset(pm_state, "SYS_ERR_DETECT")
    BY <1>2 DEF Ctrl, MsiHandlr, CtrlEvTask, M0Event, M1Event, M3Event, SysErrEvent, EEEvent,
       CtrlDrained, CtrlCheckState, CtrlEvent
  <2>2. QED BY <2>1, <1>t, Operates, Detects, Hands
<1>3. CASE IntvecThread \/ DebugReset \/ PdFatal
  <2>1. /\ pm_mutex' = pm_mutex
        /\ \/ pm_state' = pm_state
           \/ \E t \in {"SYS_ERR_DETECT", "LD_ERR_FATAL_DETECT"} : pm_state' = Tryset(pm_state, t)
    BY <1>3 DEF IntvecThread, Intvec, IntvecClaim, IntvecNotify, DebugReset, PdFatal
  <2>2. QED BY <2>1, <1>t, Detects, Hands
<1>4. CASE StWorker
  <2>1. /\ pm_mutex' = pm_mutex
        /\ \/ pm_state' = pm_state
           \/ pc["st"] = "rdy_set" /\ pm_state' = Tryset(pm_state, "POR")
    BY <1>4 DEF StWorker, StTake, StDone, StPbl, StSbl, StReady, StMissionMode, MmSync, MmEE,
       CreateDevices, DeviceAdd, ProbeSync, DriverBind, StItem, ReadyTransition, RdyWait, RdySet, RdyMmio
  <2>2. pc["st"] = "rdy_set" => pm_state # "SYS_ERR_PROCESS"
    BY DEF HostInv, BootInv, Booted, Under, ReadyLabels, Quiet
  <2>3. QED BY <2>1, <2>2, <1>t, Operates, Hands
<1>5. CASE ReadyTransition("syserr", "dis_exit")
  <2>1. pm_mutex = "syserr" /\ pm_mutex' = pm_mutex
    BY <1>5, <1>t DEF ReadyTransition, RdyWait, RdySet, RdyMmio, Critical, ReadyLabels
  <2>2. CASE pm_state' = pm_state
    BY <2>1, <2>2, Hands
  <2>3. CASE pm_state' # pm_state
    <3>1. pm_state' = Tryset(pm_state, "POR")
      BY <1>5, <2>3 DEF ReadyTransition, RdyWait, RdySet, RdyMmio
    <3>2. CASE pm_state = "SYS_ERR_PROCESS"
      <4>1. Ladder!Recover
        BY <3>1, <3>2, <2>1, <2>3 DEF Ladder!Recover, Tryset
      <4>2. QED BY <4>1 DEF LadderStep, Ladder!Next
    <3>3. CASE pm_state # "SYS_ERR_PROCESS"
      BY <3>1, <3>3, <2>1, <1>t, Operates
    <3>4. QED BY <3>2, <3>3
  <2>4. QED BY <2>2, <2>3
<1>6. ASSUME NEW p \in {"syserr", "power"}, DisEnter(p) PROVE LadderStep
  <2>1. CASE Tryset(pm_state, Target(p)) # Target(p)
    BY <1>6, <2>1, Hands DEF DisEnter
  <2>2. CASE Tryset(pm_state, Target(p)) = Target(p) /\ pm_state = Target(p)
    BY <1>6, <2>2, Hands DEF DisEnter
  <2>3. CASE Tryset(pm_state, Target(p)) = Target(p) /\ pm_state # Target(p)
    <3>1. Target(p) \in ToStates[pm_state] /\ Target(p) = Ladder!Process(p)
      BY <2>3 DEF Tryset, Target, Ladder!Process
    <3>2. pm_mutex = NoProc /\ pm_mutex' = p /\ pm_state' = Target(p)
      BY <1>6, <2>3 DEF DisEnter
    <3>3. Ladder!Begin(p)
      BY <3>1, <3>2, LadderTable DEF Ladder!Begin, Ladder!Nobody, NoProc
    <3>4. QED BY <3>3 DEF LadderStep, Ladder!Next, Ladder!Handler
  <2>4. QED BY <2>1, <2>2, <2>3
<1>7. CASE DisDone("syserr")
  <2>1. pm_mutex = "syserr" /\ pm_state \in Down
    BY <1>7, <1>t DEF DisDone, Critical, HostInv, ResetInv, AfterReset, Draining
  <2>2. CASE dev_ee = "EDL" /\ dev = "RESET"
    <3>1. pm_mutex' = NoProc /\ pm_state' = Tryset(pm_state, "POR")
      BY <1>7, <2>2 DEF DisDone, Unlock
    <3>2. pm_state # "DISABLE"
      BY <1>7, <2>2 DEF DisDone, NoEdlRace, NoEdlInv, HostInv, PowerInv, BootInv, Quiet
    <3>3. CASE pm_state = "SYS_ERR_PROCESS"
      <4>1. Ladder!Recover
        BY <3>1, <3>3, <2>1, Table DEF Ladder!Recover, Ladder!Nobody, NoProc, Tryset
      <4>2. QED BY <4>1 DEF LadderStep, Ladder!Next
    <3>4. CASE pm_state # "SYS_ERR_PROCESS"
      <4>1. pm_state' = pm_state
        BY <3>1, <3>2, <3>4, <2>1, Table DEF Down, Tryset
      <4>2. QED BY <4>1, <3>1, <2>1, Hands DEF NoProc
    <3>5. QED BY <3>3, <3>4
  <2>3. CASE ~(dev_ee = "EDL" /\ dev = "RESET")
    BY <1>7, <2>3, Hands DEF DisDone
  <2>4. QED BY <2>2, <2>3
<1>8. CASE DisDone("power")
  <2>1. pm_mutex = "power" /\ pm_state = "SHUTDOWN_PROCESS"
    BY <1>8, <1>t DEF DisDone, Critical, HostInv, PowerInv, Draining
  <2>2. pm_mutex' = NoProc /\ pm_state' = "DISABLE"
    BY <1>8, <2>1, Table DEF DisDone, Unlock, Tryset
  <2>3. Ladder!Stop
    BY <2>1, <2>2 DEF Ladder!Stop, Ladder!Nobody, NoProc
  <2>4. QED BY <2>3 DEF LadderStep, Ladder!Next
<1>9. ASSUME NEW p \in {"syserr", "power"}, Disable(p), ~DisEnter(p), ~DisDone(p) PROVE LadderStep
  <2>1. pm_state' = pm_state
    BY <1>9 DEF Disable, DisReset, DisWait, DisKill, DisDestroy, DisFlushReady, DisFlushSt, DisFlushed, DisRings
  <2>2. \/ pm_mutex' = pm_mutex
        \/ pm_mutex = NoProc /\ pm_mutex' = p
        \/ pm_mutex # NoProc /\ pm_mutex' = NoProc
    BY <1>9 DEF Disable, DisReset, DisWait, DisKill, DisDestroy, DisFlushReady, DisFlushSt, DisFlushed, DisRings,
       Lock, Unlock, NoProc
  <2>3. QED BY <2>1, <2>2, Hands
<1>10. CASE SysErrStart \/ DisExit \/ RemoveStart \/ PdFree
  BY <1>10, Hands DEF SysErrStart, DisExit, RemoveStart, PdFree, Unlock, NoProc
<1>11. CASE PowerUp
  <2>1. pm_state = "DISABLE" /\ pm_state' = "POR" /\ pm_mutex' = pm_mutex
    BY <1>11 DEF PowerUp, HostInv, BootInv
  <2>2. pm_state' = Tryset(pm_state, "POR")
    BY <2>1, Table DEF Tryset
  <2>3. QED BY <2>1, <2>2, <1>t, Operates
<1>12. CASE SuspendEnter \/ ResumeExit
  <2>1. pm_mutex = "rpm"
    BY <1>12, <1>t DEF SuspendEnter, ResumeExit, Critical, Labels
  <2>2. CASE pm_state' = pm_state
    BY <1>12, <2>1, <2>2, Hands DEF SuspendEnter, ResumeExit, SuspendFail, Unlock, NoProc
  <2>3. CASE pm_state' # pm_state
    <3>1. pm_state' \in ToStates[pm_state] \cap {"M3_ENTER", "M3_EXIT"} /\ pm_mutex' = pm_mutex
      BY <1>12, <2>3 DEF SuspendEnter, ResumeExit, Tryset
    <3>2. Ladder!Sleep
      BY <2>1, <3>1, LadderTable DEF Ladder!Sleep
    <3>3. QED BY <3>2 DEF LadderStep, Ladder!Next
  <2>4. QED BY <2>2, <2>3
<1>13. CASE ResumeClaim
  <2>1. pm_mutex' = pm_mutex /\ (pm_state' = pm_state \/ pm_state' = Tryset(pm_state, "SYS_ERR_DETECT"))
    BY <1>13 DEF ResumeClaim, IntvecClaim
  <2>2. QED BY <2>1, <1>t, Detects, Hands
<1>14. CASE Rpm /\ ~(SuspendEnter \/ ResumeExit \/ ResumeClaim)
  <2>1. pm_state' = pm_state
    BY <1>14 DEF Rpm, SuspendStart, SuspendM0, SuspendM3, ResumeStart, ResumeAssert, ResumeM0,
       ResumeNotify, ResumeFail, IntvecNotify
  <2>2. \/ pm_mutex' = pm_mutex
        \/ pm_mutex = NoProc /\ pm_mutex' = "rpm"
        \/ pm_mutex # NoProc /\ pm_mutex' = NoProc
    BY <1>14 DEF Rpm, SuspendStart, SuspendM0, SuspendM3, ResumeStart, ResumeAssert, ResumeM0,
       ResumeNotify, ResumeFail, SuspendFail, Lock, Unlock, NoProc
  <2>3. QED BY <2>1, <2>2, Hands
<1>15. CASE PowerUpSysErr \/ PowerUpPoll \/ PowerUpReset
  <2>1. UNCHANGED <<pm_state, pm_mutex>>
    BY <1>15, ProbeQuiet DEF HostInv
  <2>2. QED BY <2>1, Hands
<1>16. QED
  BY <1>1, <1>2, <1>3, <1>4, <1>5, <1>6, <1>7, <1>8, <1>9, <1>10, <1>11, <1>12, <1>13, <1>14, <1>15
     DEF Next, SysErrWorker, Power

(* The controller keeps what the ladder of levels promises, whoever moves  *)
(* pm_state: trouble may be noted by anybody, only its owner handles it    *)
(* and leaves it behind, and the modem is put to sleep and woken under     *)
(* pm_mutex only.                                                          *)
THEOREM LadderKept == ASSUME ~EarlyCrash, NoEdlRace PROVE Spec => LadderSpec
<1>1. Init => Ladder!Init
  BY DEF Init, Ladder!Init, Ladder!Nobody, NoProc
<1>2. Spec => []NoEdlInv
  <2>1. HostInv /\ NoEdlInv /\ [Next]_vars => NoEdlInv'
    BY NoEdlStays DEF HostInv
  <2>2. QED BY <2>1, NoEdlStarts, HostHolds, PTL DEF Spec
<1>3. HostInv /\ NoEdlInv /\ [Next]_vars => LadderStep
  BY LadderStays
<1>4. QED BY <1>1, <1>2, <1>3, HostHolds, PTL DEF Spec, LadderSpec, LadderStep, Ladder!Spec, Ladder!vars

-----------------------------------------------------------------------------
(* Removal of a modem that does not fail.                                  *)

\* mhi_queue_state_transition of another transition.
LEMMA QueueOther ==
  ASSUME NEW x \in {"PBL", "SBL", "MISSION_MODE"}, transition_list \in Seq(Transitions), Queue(x)
  PROVE  /\ "st" \in work' /\ work \subseteq work' /\ (Polled' <=> Polled)
         /\ "syserr" \in work' <=> "syserr" \in work
         /\ Listed' <=> Listed
<1>1. transition_list' = Append(transition_list, x) /\ work' = work \cup {"st"} /\ x \in Transitions
  BY DEF Queue, Transitions
<1>2. Holds(Append(transition_list, x), "READY") <=> Holds(transition_list, "READY") \/ x = "READY"
  BY <1>1, HoldsAppend
<1>3. QED BY <1>1, <1>2 DEF Polled, Listed

\* Nothing brings the READY transition of the boot back once it has been carried out.
LEMMA BootedStays ==
  ASSUME Booted, pc["power"] \notin PowerUpLabels, WellFormed, [Next]_vars
  PROVE  Booted'
<1> USE DEF host, irqs, works, qti, modem, At
<1>t. /\ pc \in [Proc -> UNION {Labels[p] : p \in Proc}]
      /\ transition_list \in Seq(Transitions) /\ st_items \in Seq(Transitions)
  BY DEF WellFormed, TypeOK, PcOK
<1>g. \A p \in Proc : \A l : Goto(p, l) => /\ pc'[p] = l
                                           /\ \A q \in Proc \ {p} : pc'[q] = pc[q]
  BY <1>t DEF Goto
<1> USE DEF Booted, Polled, Listed, InHand, Under
<1>1. CASE UNCHANGED vars \/ Modem \/ DebugReset
  BY <1>1 DEF vars, Modem, ModemBoot, ModemReset, ModemM0, ModemIdle, ModemM2, ModemM3, ModemSysErr, ModemRddm,
     DebugReset
<1>2. CASE Ctrl
  <2>1. pc'["st"] = pc["st"] /\ st_items' = st_items
    BY <1>2, <1>g DEF Ctrl, MsiHandlr, CtrlEvTask, M0Event, M1Event, M3Event, SysErrEvent, EEEvent,
       CtrlDrained, CtrlCheckState, CtrlEvent, Proc
  <2>2. \/ \E x \in {"SBL", "MISSION_MODE"} : Queue(x)
        \/ transition_list' = transition_list /\ work' \subseteq work \cup {"syserr"}
    BY <1>2 DEF Ctrl, MsiHandlr, CtrlEvTask, M0Event, M1Event, M3Event, SysErrEvent, EEEvent,
       CtrlDrained, CtrlCheckState, CtrlEvent
  <2>3. QED BY <2>1, <2>2, <1>t, QueueOther
<1>3. CASE IntvecThread \/ Rpm
  <2>1. /\ UNCHANGED <<st_items, transition_list>> /\ pc'["st"] = pc["st"]
        /\ work' \subseteq work \cup {"syserr"}
    BY <1>3, <1>g DEF IntvecThread, Intvec, IntvecClaim, IntvecNotify, Rpm, SuspendStart, SuspendM0, SuspendEnter,
       SuspendM3, ResumeStart, ResumeAssert, ResumeExit, ResumeM0, ResumeClaim, ResumeNotify, ResumeFail,
       SuspendFail, RpmUnchanged, Proc
  <2>2. QED BY <2>1
<1>4. CASE StTake
  BY <1>4, <1>g, HoldsNone DEF StTake, ReadyLabels, Proc
<1>5. CASE StPbl \/ StSbl \/ StMissionMode \/ StReady
  <2>1. /\ pc["st"] = "st_item" /\ st_items # <<>> /\ st_items' = Tail(st_items)
        /\ UNCHANGED <<transition_list, work>>
    BY <1>5 DEF StPbl, StSbl, StMissionMode, StReady, StItem
  <2>2. Head(st_items) # "READY" /\ ~Holds(Tail(st_items), "READY")
    BY <2>1, <1>t, HoldsTail
  <2>3. pc'["st"] \notin ReadyLabels
    BY <1>5, <1>g, <2>1, <2>2 DEF StPbl, StSbl, StMissionMode, StReady, StItem, ReadyLabels, Proc
  <2>4. QED BY <2>1, <2>2, <2>3
<1>6. CASE StDone \/ MmSync \/ MmEE \/ CreateDevices \/ DeviceAdd \/ ProbeSync \/ DriverBind
  BY <1>6, <1>g DEF StDone, MmSync, MmEE, CreateDevices, DeviceAdd, ProbeSync, DriverBind, GetSync,
     ReadyLabels, Proc
<1>7. CASE ReadyTransition("st", "st_item")
  BY <1>7 DEF ReadyTransition, RdyWait, RdySet, RdyMmio, ReadyLabels
<1>8. CASE ReadyWorker
  BY <1>8 DEF ReadyWorker
<1>9. CASE SysErrWorker \/ (Power /\ ~PowerUp)
  <2>1. /\ UNCHANGED <<st_items, transition_list>> /\ pc'["st"] = pc["st"] /\ work' \subseteq work
    BY <1>9, <1>g, <1>t, ProbeSteps DEF SysErrWorker, SysErrStart, DisExit, Disable, DisEnter, DisReset, DisWait, DisKill,
       DisDestroy, DisFlushReady, DisFlushSt, DisFlushed, DisRings, DisDone, ReadyTransition, RdyWait,
       RdySet, RdyMmio, Power, RemoveStart, PdFatal, PdFree, Proc
  <2>2. QED BY <2>1
<1>10. CASE PowerUp
  BY <1>10 DEF PowerUp
<1>11. QED
  BY <1>1, <1>2, <1>3, <1>4, <1>5, <1>6, <1>7, <1>8, <1>9, <1>10 DEF Next, StWorker

\* The event that carries a state or a boot stage.
St(x) == [type |-> "STATE", val |-> x]
Ee(x) == [type |-> "EE", val |-> x]

\* Reports are told apart by their kind and by what they say.
LEMMA EventsOf ==
  /\ \A x \in {"M0", "M1", "M3", "SYS_ERR"} : St(x) \in Events
  /\ \A x \in {"SBL", "AMSS", "RDDM"} : Ee(x) \in Events
  /\ \A x, y : St(x) # Ee(y) /\ (St(x) = St(y) => x = y)
<1>1. \A x \in {"M0", "M1", "M3", "SYS_ERR"} : St(x) \in Events
  BY DEF Events, St
<1>2. \A x \in {"SBL", "AMSS", "RDDM"} : Ee(x) \in Events
  BY DEF Events, Ee
<1>3. ASSUME NEW x, NEW y PROVE St(x) # Ee(y) /\ (St(x) = St(y) => x = y)
  <2>1. St(x).type = "STATE" /\ Ee(y).type = "EE" /\ St(x).val = x /\ St(y).val = y
    BY DEF St, Ee
  <2>2. QED BY <2>1
<1>4. QED BY <1>1, <1>2, <1>3

\* Without a failure nothing of error handling ever starts.
CrashFree ==
  /\ budget.syserr = 0 /\ dev # "SYS_ERR" /\ mhictrl # "RESET" /\ ~Holds(er, St("SYS_ERR"))
  /\ "syserr" \notin work /\ pc["syserr"] = "idle" /\ pc["intvec"] = "idle" /\ pc["rpm"] # "iv_notify"
  /\ pm_state \notin L1

\* At first nothing has failed, ...
LEMMA CrashFreeStarts == ASSUME SysErrs = 0, Init PROVE CrashFree
  BY HoldsNone DEF Init, CrashFree, Proc, L1

\* ... and without failures to come every step keeps it so.
LEMMA CrashFreeStays ==
  ASSUME CrashFree, PowerInv, BootInv, WellFormed, [Next]_vars
  PROVE  CrashFree'
<1> USE DEF host, irqs, works, qti, modem, At
<1>t. /\ pc \in [Proc -> UNION {Labels[p] : p \in Proc}] /\ pm_state \in PmState
      /\ transition_list \in Seq(Transitions) /\ er \in Seq(Events)
      /\ dev = "READY" => dev_ee \in {"SBL", "AMSS"}
      /\ budget \in [{"syserr", "idle", "suspend", "late"} -> Nat]
  BY DEF WellFormed, TypeOK, PcOK
<1>g. \A p \in Proc : \A l : Goto(p, l) => /\ pc'[p] = l
                                           /\ \A q \in Proc \ {p} : pc'[q] = pc[q]
  BY <1>t DEF Goto
<1>s. ASSUME NEW t \in PmState \ L1 PROVE Tryset(pm_state, t) \notin L1
  BY DEF Tryset, CrashFree
<1>b. /\ \A w \in {"idle", "suspend", "late"} : Spend(w) => budget'["syserr"] = budget["syserr"]
      /\ ~Spend("syserr")
      /\ Expires => budget'["syserr"] = budget["syserr"]
  BY <1>t DEF Spend, Expires, CrashFree
<1>e. \A e \in Events \ {St("SYS_ERR")} : ~Holds(Append(er, e), St("SYS_ERR"))
  BY <1>t, HoldsAppend DEF CrashFree
<1> USE DEF CrashFree
<1>1. CASE UNCHANGED vars
  BY <1>1 DEF vars
<1>2. CASE Modem
  <2>1. UNCHANGED <<work, pm_state, pc>> /\ dev' # "SYS_ERR" /\ mhictrl' # "RESET"
        /\ budget'["syserr"] = budget["syserr"]
    BY <1>2, <1>b DEF Modem, ModemBoot, ModemReset, ModemM0, ModemIdle, ModemM2, ModemM3, ModemSysErr, ModemRddm
  <2>2. ~Holds(er', St("SYS_ERR"))
    <3>1. CASE ModemBoot
      <4>1. \/ dev_ee' \in {"SBL", "AMSS"} /\ er' = Append(er, Ee(dev_ee'))
            \/ er' = er
        BY <3>1 DEF ModemBoot, Post, Ee
      <4>2. QED BY <4>1, <1>e, EventsOf
    <3>2. CASE ModemM0
      <4>1. er' = Append(er, St("M0")) \/ (dev = "READY" /\ er' = Append(Append(er, St("M0")), Ee(dev_ee)))
        BY <3>2 DEF ModemM0, St, Ee
      <4>2. ~Holds(Append(er, St("M0")), St("SYS_ERR")) /\ Append(er, St("M0")) \in Seq(Events)
        BY <1>e, <1>t, EventsOf
      <4>3. ASSUME dev = "READY" PROVE ~Holds(Append(Append(er, St("M0")), Ee(dev_ee)), St("SYS_ERR"))
        <5>1. Ee(dev_ee) \in Events /\ Ee(dev_ee) # St("SYS_ERR")
          BY <4>3, <1>t, EventsOf
        <5> DEFINE q == Append(er, St("M0"))
        <5> HIDE DEF q
        <5>2. q \in Seq(Events) /\ ~Holds(q, St("SYS_ERR"))
          BY <4>2 DEF q
        <5>3. ~Holds(Append(q, Ee(dev_ee)), St("SYS_ERR"))
          BY <5>1, <5>2, HoldsAppend
        <5>4. QED BY <5>3 DEF q
      <4>4. QED BY <4>1, <4>2, <4>3
    <3>3. CASE ModemIdle \/ ModemM3
      <4>1. er' \in {Append(er, St("M1")), Append(er, St("M3"))}
        BY <3>3 DEF ModemIdle, ModemM3, Post, St
      <4>2. QED BY <4>1, <1>e, EventsOf
    <3>4. CASE ModemReset \/ ModemM2
      BY <3>4 DEF ModemReset, ModemM2
    <3>5. QED BY <1>2, <1>b, <3>1, <3>2, <3>3, <3>4 DEF Modem, ModemSysErr, ModemRddm
  <2>3. QED BY <2>1, <2>2
<1>3. CASE Ctrl
  <2>1. /\ \A p \in Proc \ {"ctrl"} : pc'[p] = pc[p]
        /\ dev' = dev /\ budget' = budget /\ mhictrl' # "RESET"
    BY <1>3, <1>g DEF Ctrl, MsiHandlr, CtrlEvTask, M0Event, M1Event, M3Event, SysErrEvent, EEEvent,
       CtrlDrained, CtrlCheckState, CtrlEvent, Queue, Proc
  <2>2. er' = er \/ (er # <<>> /\ er' = Tail(er))
    BY <1>3 DEF Ctrl, MsiHandlr, CtrlEvTask, M0Event, M1Event, M3Event, SysErrEvent, EEEvent,
       CtrlDrained, CtrlCheckState, CtrlEvent
  <2>3. ~Holds(er', St("SYS_ERR"))
    BY <2>2, <1>t, HoldsTail
  <2>4. ~SysErrEvent
    BY <1>t, HoldsTail DEF SysErrEvent, CtrlEvent, St
  <2>5. /\ pm_state' = pm_state \/ (\E t \in {"M0", "M2", "M3"} : pm_state' = Tryset(pm_state, t))
        /\ "syserr" \notin work'
    BY <1>3, <2>4, <1>t DEF Ctrl, MsiHandlr, CtrlEvTask, M0Event, M1Event, M3Event, EEEvent,
       CtrlDrained, CtrlCheckState, CtrlEvent, Queue
  <2>6. pm_state' \notin L1
    BY <2>5, <1>s DEF PmState, L0, L1
  <2>7. QED BY <2>1, <2>3, <2>5, <2>6 DEF Proc
<1>4. CASE IntvecThread
  BY <1>4, <1>g DEF IntvecThread, Intvec, IntvecClaim, IntvecNotify, Proc
<1>5. CASE StWorker
  <2>1. /\ \A p \in Proc \ {"st"} : pc'[p] = pc[p]
        /\ UNCHANGED <<dev, er>> /\ work' \subseteq work /\ budget'["syserr"] = budget["syserr"]
        /\ mhictrl' # "RESET" /\ (pm_state' = pm_state \/ pm_state' = Tryset(pm_state, "POR"))
    BY <1>5, <1>g, <1>b DEF StWorker, StTake, StDone, StPbl, StSbl, StReady, StMissionMode, MmSync, MmEE,
       CreateDevices, DeviceAdd, ProbeSync, DriverBind, StItem, GetSync, ReadyTransition, RdyWait, RdySet,
       RdyMmio, Proc
  <2>2. pm_state' \notin L1
    BY <2>1, <1>s DEF PmState, L0, L1
  <2>3. QED BY <2>1, <2>2 DEF Proc
<1>6. CASE ReadyWorker
  BY <1>6 DEF ReadyWorker, ReadyRun
<1>7. CASE SysErrWorker
  BY <1>7 DEF SysErrWorker, SysErrStart, DisExit, Disable, DisEnter, DisReset, DisWait, DisKill,
     DisDestroy, DisFlushReady, DisFlushSt, DisFlushed, DisRings, DisDone, ReadyTransition, RdyWait,
     RdySet, RdyMmio
<1>8. CASE PowerUp
  BY <1>8, <1>g DEF PowerUp, Queue, Proc, L1
<1>9. CASE PowerUpSysErr \/ PowerUpPoll \/ PowerUpReset
  BY <1>9, ProbeQuiet DEF Proc
<1>13. CASE Power /\ ~PowerUp /\ ~(PowerUpSysErr \/ PowerUpPoll \/ PowerUpReset)
  <2>1. /\ \A p \in Proc \ {"power"} : pc'[p] = pc[p]
        /\ dev' = dev /\ "syserr" \notin work' /\ budget'["syserr"] = budget["syserr"]
        /\ er' \in {er, <<>>} /\ mhictrl' # "RESET"
    BY <1>13, <1>g, <1>b DEF Power, RemoveStart, PdFatal, PdFree, Disable, DisEnter, DisReset, DisWait, DisKill,
       DisDestroy, DisFlushReady, DisFlushSt, DisFlushed, DisRings, DisDone, ReadyRun, PowerInv, Proc
  <2>2. \/ pm_state' = pm_state
        \/ \E t \in {"LD_ERR_FATAL_DETECT", "SHUTDOWN_PROCESS", "DISABLE"} : pm_state' = Tryset(pm_state, t)
    BY <1>13 DEF Power, RemoveStart, PdFatal, PdFree, Disable, DisEnter, DisReset, DisWait, DisKill,
       DisDestroy, DisFlushReady, DisFlushSt, DisFlushed, DisRings, DisDone, Target
  <2>3. pm_state' \notin L1
    BY <2>2, <1>s DEF PmState, L0, L1, L2, L3
  <2>4. QED BY <2>1, <2>3, HoldsNone DEF Proc
<1>10. CASE Rpm
  <2>1. /\ \A p \in Proc \ {"rpm"} : pc'[p] = pc[p]
        /\ UNCHANGED <<dev, er, work>> /\ budget'["syserr"] = budget["syserr"]
        /\ mhictrl' # "RESET" /\ pc'["rpm"] # "iv_notify"
        /\ pm_state' = pm_state \/ (\E t \in {"M3_ENTER", "M3_EXIT"} : pm_state' = Tryset(pm_state, t))
    BY <1>10, <1>g, <1>b DEF Rpm, SuspendStart, SuspendM0, SuspendEnter, SuspendM3, ResumeStart, ResumeAssert,
       ResumeExit, ResumeM0, ResumeClaim, ResumeNotify, ResumeFail, SuspendFail, IntvecClaim,
       IntvecNotify, RpmUnchanged, Proc
  <2>2. pm_state' \notin L1
    BY <2>1, <1>s DEF PmState, L0, L1
  <2>3. QED BY <2>1, <2>2 DEF Proc
<1>11. CASE DebugReset
  BY <1>11, <1>b DEF DebugReset
<1>12. QED
  BY <1>1, <1>2, <1>3, <1>4, <1>5, <1>6, <1>7, <1>8, <1>9, <1>10, <1>11, <1>13 DEF Next

\* How far a removal has come, and what it has made sure of: the poll has ended, the run of the
\* state worker that flush_work waits for has carried out the READY transition, nobody is in the
\* event ring, and only then mhi_ctxt goes.
Flushing == {"dis_flush_st", "dis_flushing", "dis_rings", "dis_done", "pd_free", "gone"}

RemovalInv ==
  /\ pc["power"] \notin PowerUpLabels \cup {"on"} => dev_ee # "PTHRU"
  /\ pc["power"] \in Flushing => ~Polled
  /\ barrier["power"] = "next" => "st" \in work
  /\ barrier["power"] = "this" => ~Listed /\ pc["st"] # "idle"
  /\ pc["power"] = "dis_flushing" /\ barrier["power"] = "none" => Booted
  /\ pc["power"] \in Flushing \ {"dis_flush_st", "dis_flushing"} => Booted
  /\ pc["power"] \in {"pd_free", "gone"} => pm_state = "DISABLE"
  /\ pc["power"] \in (Draining \cup {"pd_free", "gone"}) \ {"dis_kill"} => pc["ctrl"] = "idle"
  /\ ctxt <=> pc["power"] \notin PowerUpLabels \cup {"gone"}

\* At first there is nothing to remove.
LEMMA RemovalStarts == Init => RemovalInv
  BY DEF Init, RemovalInv, Flushing, Draining, Proc

\* Every step keeps what a removal has made sure of.
LEMMA RemovalStays ==
  ASSUME "PTHRU" \notin Removable, RemovalInv, CrashFree, BootInv, PowerInv, WellFormed, [Next]_vars
  PROVE  RemovalInv'
<1> USE DEF host, irqs, works, qti, modem, At
<1>t. /\ pc \in [Proc -> UNION {Labels[p] : p \in Proc}] /\ pm_state \in PmState
      /\ barrier \in [{"syserr", "power"} -> {"none", "next", "this"}]
      /\ transition_list \in Seq(Transitions)
  BY DEF WellFormed, TypeOK, PcOK
<1>g. \A p \in Proc : \A l : Goto(p, l) => /\ pc'[p] = l
                                           /\ \A q \in Proc \ {p} : pc'[q] = pc[q]
  BY <1>t DEF Goto
<1>k. pc["power"] \notin PowerUpLabels /\ Booted => Booted'
  BY BootedStays
<1>d. /\ \A t \in PmState \ {"POR"} : pm_state = "DISABLE" => Tryset(pm_state, t) = pm_state
      /\ "DISABLE" \notin RegAccessValid /\ "SHUTDOWN_PROCESS" \in RegAccessValid \cap EventAccessInvalid
  BY Table DEF Tryset, RegAccessValid, EventAccessInvalid, InErrorState, PmState, L0, L1, L2, L3
<1> USE DEF RemovalInv, Flushing, Draining
\* Most steps move neither the removal nor what it flushes.
<1>q. ASSUME pc'["power"] = pc["power"], pc'["st"] = pc["st"] \/ pc'["st"] # "idle",
             dev_ee' # "PTHRU" \/ dev_ee' = dev_ee, UNCHANGED <<barrier, ctxt>>,
             Polled' => Polled, "st" \in work => "st" \in work', Listed' => Listed,
             pc["power"] \in {"pd_free", "gone"} => pm_state' = pm_state,
             pc["power"] \in (Draining \cup {"pd_free", "gone"}) \ {"dis_kill"} => pc'["ctrl"] = pc["ctrl"]
      PROVE  RemovalInv'
  BY <1>q, <1>k
<1>1. CASE UNCHANGED vars
  BY <1>1, <1>q DEF vars, Polled, Listed
<1>2. CASE Modem
  <2>1. UNCHANGED <<works, ctxt, pm_state, pc>> /\ (dev_ee' = dev_ee \/ dev_ee' # "PTHRU")
    BY <1>2 DEF Modem, ModemBoot, ModemReset, ModemM0, ModemIdle, ModemM2, ModemM3, ModemSysErr, ModemRddm,
       CrashFree
  <2>2. QED BY <2>1, <1>q DEF Polled, Listed
<1>3. CASE Ctrl
  <2>1. /\ \A p \in Proc \ {"ctrl"} : pc'[p] = pc[p]
        /\ UNCHANGED <<barrier, ctxt, dev_ee>>
        /\ pm_state' = pm_state \/ (\E t \in PmState \ {"POR"} : pm_state' = Tryset(pm_state, t))
    BY <1>3, <1>g DEF Ctrl, MsiHandlr, CtrlEvTask, M0Event, M1Event, M3Event, SysErrEvent, EEEvent,
       CtrlDrained, CtrlCheckState, CtrlEvent, Queue, Proc, PmState, L0, L1
  <2>2. \/ \E x \in {"SBL", "MISSION_MODE"} : Queue(x)
        \/ transition_list' = transition_list /\ work \subseteq work' /\ work' \subseteq work \cup {"syserr"}
    BY <1>3 DEF Ctrl, MsiHandlr, CtrlEvTask, M0Event, M1Event, M3Event, SysErrEvent, EEEvent,
       CtrlDrained, CtrlCheckState, CtrlEvent
  <2>3. (Polled' => Polled) /\ ("st" \in work => "st" \in work') /\ (Listed' => Listed)
    BY <2>2, <1>t, QueueOther DEF Polled, Listed
  <2>4. ASSUME pc["ctrl"] = "idle", pm_state \in {"SHUTDOWN_PROCESS", "DISABLE"}
        PROVE  pc'["ctrl"] = "idle"
    BY <1>3, <2>4, <1>d DEF Ctrl, MsiHandlr, CtrlEvTask, M0Event, M1Event, M3Event, SysErrEvent, EEEvent,
       CtrlDrained, CtrlCheckState, CtrlEvent
  <2>5. QED BY <2>1, <2>3, <2>4, <1>d, <1>q DEF PowerInv, Proc
<1>4. CASE IntvecThread \/ DebugReset \/ SysErrWorker
  <2>1. Intvec \/ SysErrWorker
    BY <1>4, <1>t DEF CrashFree, IntvecThread, IntvecNotify, DebugReset, Spend
  <2>2. ~SysErrWorker
    BY DEF CrashFree, SysErrWorker, SysErrStart, DisExit, Disable, DisEnter, DisReset, DisWait, DisKill,
       DisDestroy, DisFlushReady, DisFlushSt, DisFlushed, DisRings, DisDone, ReadyTransition, RdyWait,
       RdySet, RdyMmio
  <2>3. Intvec
    BY <2>1, <2>2
  <2>4. /\ \A p \in Proc \ {"intvec"} : pc'[p] = pc[p]
        /\ UNCHANGED <<works, ctxt, dev_ee, pm_state>>
    BY <2>3, <1>g DEF Intvec, IntvecClaim, CrashFree, Proc
  <2>5. QED BY <2>4, <1>q DEF Polled, Listed, Proc
<1>5. CASE StTake
  <2>1. /\ pc'["st"] = "st_item" /\ \A p \in Proc \ {"st"} : pc'[p] = pc[p]
        /\ UNCHANGED <<ctxt, dev_ee, pm_state>> /\ work' = work \ {"st"} /\ transition_list' = <<>>
        /\ barrier'["power"] = IF barrier["power"] = "next" THEN "this" ELSE barrier["power"]
    BY <1>5, <1>g, <1>t DEF StTake, Proc
  <2>2. ~Listed'
    BY <2>1, HoldsNone DEF Listed
  <2>3. QED BY <2>1, <2>2, <1>k DEF Polled, Proc
<1>6. CASE StDone
  <2>1. /\ pc["st"] = "st_item" /\ pc'["st"] = "idle" /\ \A p \in Proc \ {"st"} : pc'[p] = pc[p]
        /\ UNCHANGED <<ctxt, dev_ee, pm_state, work, transition_list, st_items>> /\ st_items = <<>>
        /\ barrier'["power"] = IF barrier["power"] = "this" THEN "none" ELSE barrier["power"]
    BY <1>6, <1>g, <1>t DEF StDone, Proc
  <2>2. barrier["power"] = "this" /\ pc["power"] = "dis_flushing" => Booted
    BY <2>1, HoldsNone DEF Booted, InHand, Under, ReadyLabels
  <2>3. QED BY <2>1, <2>2, <1>k DEF Polled, Listed, Proc
<1>7. CASE StWorker /\ ~StTake /\ ~StDone
  <2>1. /\ \A p \in Proc \ {"st"} : pc'[p] = pc[p]
        /\ UNCHANGED <<work, transition_list, barrier, ctxt, dev_ee>>
        /\ pc'["st"] # "idle"
        /\ pm_state' = pm_state \/ pc["st"] = "rdy_set"
    BY <1>7, <1>g DEF StWorker, StPbl, StSbl, StReady, StMissionMode, MmSync, MmEE,
       CreateDevices, DeviceAdd, ProbeSync, DriverBind, StItem, GetSync, ReadyTransition, RdyWait, RdySet,
       RdyMmio, Proc
  <2>2. pc["power"] \in {"pd_free", "gone"} => pc["st"] # "rdy_set"
    BY DEF Booted, Under, ReadyLabels
  <2>3. QED BY <2>1, <2>2, <1>q DEF Polled, Listed, Proc
<1>8. CASE ReadyWorker
  <2>1. /\ UNCHANGED <<pc, ctxt, dev_ee, barrier, pm_state>>
        /\ "st" \in work => "st" \in work'
        /\ Polled' => Polled
    BY <1>8 DEF ReadyWorker, ReadyRun, Polled
  <2>2. Polled
    BY <1>8 DEF ReadyWorker, Polled
  <2>3. pc["st"] = "idle"
    BY <2>2 DEF BootInv
  <2>4. QED BY <2>1, <2>2, <2>3, <1>k
<1>9. CASE PowerUp
  <2>1. work = {} /\ pc["st"] = "idle" /\ pc["ctrl"] = "idle"
    BY <1>9 DEF PowerUp, BootInv, Quiet
  <2>2. QED BY <1>9, <2>1, <1>g DEF PowerUp, Proc
<1>10. CASE RemoveStart \/ PdFatal
  <2>1. /\ \A p \in Proc \ {"power"} : pc'[p] = pc[p] /\ pc'["power"] \in {"pd_fatal", "dis_enter"}
        /\ UNCHANGED <<works, ctxt, dev_ee>> /\ pc["power"] \in {"on", "pd_fatal"}
        /\ pc["power"] = "on" => dev_ee \in Removable
    BY <1>10, <1>g DEF RemoveStart, PdFatal, Proc
  <2>2. QED BY <2>1 DEF Polled, Listed, Proc
<1>11. CASE DisEnter("power")
  <2>1. /\ \A p \in Proc \ {"power"} : pc'[p] = pc[p] /\ pc'["power"] = "dis_kill"
        /\ UNCHANGED <<works, ctxt, dev_ee>> /\ pc["power"] = "dis_enter"
    <3>1. pm_state = "LD_ERR_FATAL_DETECT"
      BY <1>11 DEF DisEnter, PowerInv
    <3>2. Tryset(pm_state, "SHUTDOWN_PROCESS") = "SHUTDOWN_PROCESS" /\ pm_state \notin RegAccessValid
      BY <3>1, Table DEF Tryset, RegAccessValid
    <3>3. QED BY <1>11, <3>2, <1>g DEF DisEnter, Target, Proc
  <2>2. QED BY <2>1 DEF Polled, Listed, Proc
<1>12. CASE DisKill("power") \/ DisDestroy("power")
  <2>1. /\ \A p \in Proc \ {"power"} : pc'[p] = pc[p]
        /\ pc["power"] \in {"dis_kill", "dis_destroy"} /\ pc'["power"] \in {"dis_destroy", "dis_flush_ready"}
        /\ pc["power"] = "dis_kill" => pc["ctrl"] = "idle"
        /\ UNCHANGED <<works, ctxt, dev_ee>>
    BY <1>12, <1>g DEF DisKill, DisDestroy, Proc
  <2>2. QED BY <2>1 DEF Polled, Listed, Proc
<1>13. CASE DisFlushReady("power")
  <2>1. /\ \A p \in Proc \ {"power"} : pc'[p] = pc[p]
        /\ pc["power"] = "dis_flush_ready" /\ pc'["power"] = "dis_flush_st"
        /\ UNCHANGED <<barrier, ctxt, dev_ee>>
    BY <1>13, <1>g DEF DisFlushReady, Proc
  <2>2. CASE ~Polled
    BY <1>13, <2>1, <2>2 DEF DisFlushReady, Polled, Listed, Proc
  <2>3. CASE Polled
    <3>1. ReadyRun /\ pc["st"] = "idle" /\ "st" \notin work
      BY <1>13, <2>3 DEF DisFlushReady, Polled, BootInv
    <3>2. pm_state \in RegAccessValid /\ dev_ee # "PTHRU"
      BY <2>1, <1>d DEF PowerInv
    <3>3. ~Polled'
      BY <3>1, <3>2 DEF ReadyRun, Polled
    <3>4. barrier["power"] = "none"
      BY <3>1, <1>t
    <3>5. QED BY <2>1, <3>3, <3>4 DEF Proc
  <2>4. QED BY <2>2, <2>3
<1>14. CASE DisFlushSt("power")
  <2>1. /\ \A p \in Proc \ {"power"} : pc'[p] = pc[p]
        /\ pc["power"] = "dis_flush_st" /\ pc'["power"] = "dis_flushing"
        /\ UNCHANGED <<work, transition_list, st_items, ctxt, dev_ee>>
        /\ barrier'["power"] = IF "st" \in work THEN "next" ELSE IF pc["st"] = "idle" THEN "none" ELSE "this"
    BY <1>14, <1>g, <1>t DEF DisFlushSt, Proc
  <2>2. "st" \notin work => ~Listed
    BY DEF BootInv
  <2>3. "st" \notin work /\ pc["st"] = "idle" => Booted
    BY <2>1, <2>2 DEF BootInv, Booted, InHand, Under, ReadyLabels
  <2>4. QED BY <2>1, <2>2, <2>3, <1>k DEF Polled, Listed, Proc
<1>15. CASE DisFlushed("power") \/ DisRings("power") \/ PdFree
  <2>1. /\ \A p \in Proc \ {"power"} : pc'[p] = pc[p]
        /\ UNCHANGED <<works, dev_ee, pm_state>>
        /\ \/ pc["power"] = "dis_flushing" /\ barrier["power"] = "none" /\ pc'["power"] = "dis_rings" /\ ctxt' = ctxt
           \/ pc["power"] = "dis_rings" /\ pc'["power"] = "dis_done" /\ ctxt' = ctxt
           \/ pc["power"] = "pd_free" /\ pc'["power"] = "gone" /\ ~ctxt'
    BY <1>15, <1>g DEF DisFlushed, DisRings, PdFree, Proc
  <2>2. QED BY <2>1, <1>k DEF Polled, Listed, Proc
<1>16. CASE DisDone("power")
  <2>1. /\ \A p \in Proc \ {"power"} : pc'[p] = pc[p]
        /\ UNCHANGED <<works, ctxt, dev_ee>> /\ pc["power"] = "dis_done" /\ pc'["power"] = "pd_free"
    BY <1>16, <1>g DEF DisDone, Proc
  <2>2. pm_state' = "DISABLE"
    BY <1>16, <2>1, Table DEF DisDone, PowerInv, Tryset
  <2>3. QED BY <2>1, <2>2, <1>k DEF Polled, Listed, Proc
<1>17. CASE Rpm
  <2>1. /\ \A p \in Proc \ {"rpm"} : pc'[p] = pc[p]
        /\ UNCHANGED <<works, ctxt, dev_ee>>
        /\ pm_state' = pm_state \/ (\E t \in PmState \ {"POR"} : pm_state' = Tryset(pm_state, t))
    BY <1>17, <1>g DEF CrashFree, Rpm, SuspendStart, SuspendM0, SuspendEnter, SuspendM3, ResumeStart, ResumeAssert,
       ResumeExit, ResumeM0, ResumeClaim, ResumeNotify, ResumeFail, SuspendFail, IntvecClaim,
       IntvecNotify, RpmUnchanged, Proc, PmState, L0
  <2>2. QED BY <2>1, <1>d, <1>q DEF Polled, Listed, Proc
<1>18. CASE DisReset("power") \/ DisWait("power")
  BY <1>18 DEF DisReset, DisWait, PowerInv
<1>19. CASE PowerUpSysErr \/ PowerUpPoll \/ PowerUpReset
  <2>1. /\ pc["power"] \in PowerUpLabels /\ pc'["power"] \in PowerUpLabels
        /\ \A p \in Proc \ {"power"} : pc'[p] = pc[p]
        /\ UNCHANGED <<works, ctxt, dev_ee, pm_state>>
    BY <1>19, ProbeQuiet
  <2>2. QED BY <2>1 DEF Polled, Listed, Proc
<1>20. QED
  BY <1>1, <1>2, <1>3, <1>4, <1>5, <1>6, <1>7, <1>8, <1>9, <1>10, <1>11, <1>12, <1>13, <1>14, <1>15,
     <1>16, <1>17, <1>18, <1>19 DEF Next, StWorker, Power, Disable

\* The modem does not fail, and the driver is unbound past its first boot stage, where
\* mhi_pm_ready_worker polls.
SafeRemoval == ~EarlyCrash /\ SysErrs = 0 /\ "PTHRU" \notin Removable

UnbindInv == HostInv /\ CrashFree /\ RemovalInv

\* All that a removal relies on is an invariant.
LEMMA UnbindHolds == ASSUME SafeRemoval PROVE Spec => []UnbindInv
<1>1. Init => CrashFree /\ RemovalInv
  BY CrashFreeStarts, RemovalStarts DEF SafeRemoval
<1>2. HostInv /\ CrashFree /\ RemovalInv /\ [Next]_vars => CrashFree' /\ RemovalInv'
  BY CrashFreeStays, RemovalStays DEF SafeRemoval, HostInv
<1>3. Spec => []HostInv
  BY HostHolds DEF SafeRemoval
<1>4. QED BY <1>1, <1>2, <1>3, PTL DEF Spec, UnbindInv

(* mhi_ctxt is there while an event task, a READY transition or the error  *)
(* worker uses it: mhi_pm_disable_transition has waited for all of them    *)
(* before mhi_pci_device_removed frees it.                                 *)
THEOREM CtxtOutlivesUse == ASSUME SafeRemoval PROVE Spec => []CtxtInUse
<1>1. UnbindInv => CtxtInUse
  BY DEF UnbindInv, HostInv, CrashFree, RemovalInv, BootInv, Booted, Under, Quiet, Flushing, Draining,
     ReadyLabels, CtxtInUse, At
<1>2. QED BY <1>1, UnbindHolds, PTL

(* "not handling sys_err, could be middle of shut down": a controller that *)
(* has been shut down stays down, whatever was queued when the removal     *)
(* began.                                                                  *)
THEOREM ShutDownForGood == ASSUME SafeRemoval PROVE Spec => StaysDown
<1>1. UnbindInv /\ UnbindInv' /\ [Next]_vars
        => [pm_state = "DISABLE" /\ pc["power"] \in {"pd_free", "gone"} => pm_state' = "DISABLE"]_vars
  <2>1. ASSUME [Next]_vars, pc["power"] \in {"pd_free", "gone"}, pc \in [Proc -> UNION {Labels[p] : p \in Proc}]
        PROVE  pc'["power"] \in {"pd_free", "gone"}
    <3>1. CASE Power
      BY <2>1, <3>1 DEF Power, PowerUpSysErr, PowerUpPoll, PowerUpReset, PowerWrites, PowerUp, RemoveStart, PdFatal, PdFree, Disable, DisEnter, DisReset, DisWait,
         DisKill, DisDestroy, DisFlushReady, DisFlushSt, DisFlushed, DisRings, DisDone, At, Goto
    <3>2. CASE ~Power
      <4>1. \A p \in Proc \ {"power"} : \A l : Goto(p, l) => pc'["power"] = pc["power"]
        BY <2>1 DEF Goto, Proc
      <4>2. QED
        BY <2>1, <3>2, <4>1 DEF Next, vars, Modem, ModemBoot, ModemReset, ModemM0, ModemIdle, ModemM2, ModemM3,
           ModemSysErr, ModemRddm, Ctrl, MsiHandlr, CtrlEvTask, M0Event, M1Event, M3Event, SysErrEvent,
           EEEvent, CtrlDrained, CtrlCheckState, CtrlEvent, IntvecThread, Intvec, IntvecClaim, IntvecNotify,
           StWorker, StTake, StDone, StPbl, StSbl, StReady, StMissionMode, MmSync, MmEE, CreateDevices,
           DeviceAdd, ProbeSync, DriverBind, StItem, GetSync, ReadyTransition, RdyWait, RdySet, RdyMmio, ReadyWorker,
           SysErrWorker, SysErrStart, DisExit, Disable, DisEnter, DisReset, DisWait, DisKill, DisDestroy,
           DisFlushReady, DisFlushSt, DisFlushed, DisRings, DisDone, Rpm, SuspendStart, SuspendM0,
           SuspendEnter, SuspendM3, ResumeStart, ResumeAssert, ResumeExit, ResumeM0, ResumeClaim,
           ResumeNotify, ResumeFail, SuspendFail, DebugReset, Proc
    <3>3. QED BY <3>1, <3>2
  <2>2. QED BY <2>1 DEF UnbindInv, RemovalInv, HostInv, WellFormed, TypeOK, PcOK
<1>2. QED BY <1>1, UnbindHolds, PTL DEF Spec, StaysDown

-----------------------------------------------------------------------------
(* The order of the modem's reports.                                       *)

States == {"M0", "M1", "M3", "SYS_ERR"}

\* What may be reported after what, before the host has read the first: M0 only once, nothing but
\* a sleep or a failure after M1, and no state after M3.
Follows(a, b) ==
  /\ a = St("M0") => b # St("M0")
  /\ a = St("M1") => b \notin {St("M0"), St("M1")}
  /\ a = St("M3") => \A x \in States : b # St(x)

Order(q) == \A i, j \in 1..Len(q) : i < j => Follows(q[i], q[j])

\* No report is out of order in an empty ring, ...
LEMMA OrderNone == Order(<<>>)
  BY DEF Order

\* ... nor in a ring that takes one that may follow all of it, ...
LEMMA OrderAppend ==
  ASSUME NEW q \in Seq(Events), NEW e \in Events, Order(q),
         \A a : Holds(q, a) => Follows(a, e)
  PROVE  Order(Append(q, e))
<1>1. /\ Len(Append(q, e)) = Len(q) + 1 /\ Len(q) \in Nat
      /\ \A i \in 1..Len(q) : Append(q, e)[i] = q[i]
      /\ Append(q, e)[Len(q) + 1] = e
  OBVIOUS
<1>2. \A i \in 1..Len(q) : Follows(q[i], e)
  BY DEF Holds
<1>3. ASSUME NEW n \in Nat, n = Len(q), NEW i \in 1..(n + 1), NEW j \in 1..(n + 1), i < j
      PROVE  Follows(Append(q, e)[i], Append(q, e)[j])
  <2>1. i \in 1..n /\ (j \in 1..n \/ j = n + 1)
    BY <1>3
  <2>2. Append(q, e)[i] = q[i]
    BY <1>1, <1>3, <2>1
  <2>3. CASE j \in 1..n
    <3>1. Append(q, e)[j] = q[j]
      BY <1>1, <1>3, <2>3
    <3>2. Follows(q[i], q[j])
      BY <1>3, <2>1, <2>3 DEF Order
    <3>3. QED BY <2>2, <3>1, <3>2
  <2>4. CASE j = n + 1
    BY <1>1, <1>2, <1>3, <2>1, <2>2, <2>4
  <2>5. QED BY <2>1, <2>3, <2>4
<1>4. QED BY <1>1, <1>3 DEF Order

\* ... nor in one whose first report has been read; what is left may follow that one.
LEMMA OrderTail ==
  ASSUME NEW q \in Seq(Events), q # <<>>, Order(q)
  PROVE  /\ Order(Tail(q)) /\ Tail(q) \in Seq(Events)
         /\ \A a : Holds(Tail(q), a) => Follows(Head(q), a)
<1>1. /\ Len(q) \in Nat \ {0} /\ Len(Tail(q)) = Len(q) - 1 /\ Head(q) = q[1]
      /\ \A i \in 1..Len(Tail(q)) : Tail(q)[i] = q[i + 1]
      /\ Tail(q) \in Seq(Events)
  OBVIOUS
<1>2. ASSUME NEW a, Holds(Tail(q), a) PROVE Follows(Head(q), a)
  <2>1. PICK i \in 1..Len(Tail(q)) : Tail(q)[i] = a
    BY <1>2 DEF Holds
  <2>2. i + 1 \in 1..Len(q) /\ 1 \in 1..Len(q) /\ 1 < i + 1 /\ q[i + 1] = a
    BY <1>1, <2>1
  <2>3. Follows(q[1], q[i + 1])
    BY <2>2 DEF Order
  <2>4. QED BY <2>2, <2>3, <1>1
<1>3. ASSUME NEW i \in 1..Len(Tail(q)), NEW j \in 1..Len(Tail(q)), i < j
      PROVE  Follows(Tail(q)[i], Tail(q)[j])
  <2>1. i + 1 \in 1..Len(q) /\ j + 1 \in 1..Len(q) /\ i + 1 < j + 1
    BY <1>1, <1>3
  <2>2. Follows(q[i + 1], q[j + 1])
    BY <2>1 DEF Order
  <2>3. QED BY <1>1, <2>2
<1>4. QED BY <1>1, <1>2, <1>3 DEF Order

\* Reading the first report, and adding one, as far as reported states go.
LEMMA ReadState ==
  ASSUME er \in Seq(Events), er # <<>>, Order(er), er' = Tail(er)
  PROVE  /\ Order(er') /\ er' \in Seq(Events)
         /\ \A x \in States : /\ Holds(er, St(x)) <=> Head(er) = St(x) \/ Holds(er', St(x))
                              /\ Holds(er', St(x)) => Follows(Head(er), St(x))
  BY OrderTail, HoldsTail

\* A state that may follow what is unread is added in order, ...
LEMMA PostState ==
  ASSUME NEW q \in Seq(Events), Order(q), NEW x \in States,
         x = "M0" => ~Holds(q, St("M0")) /\ ~Holds(q, St("M1")),
         x = "M1" => ~Holds(q, St("M1")),
         ~Holds(q, St("M3"))
  PROVE  /\ Order(Append(q, St(x))) /\ Append(q, St(x)) \in Seq(Events)
         /\ \A y \in States : Holds(Append(q, St(x)), St(y)) <=> Holds(q, St(y)) \/ x = y
<1>1. St(x) \in Events /\ \A y \in States : St(x) = St(y) <=> x = y
  BY EventsOf DEF States
<1>2. \A a : Holds(q, a) => Follows(a, St(x))
  BY <1>1 DEF Follows, States
<1>3. Order(Append(q, St(x))) /\ Append(q, St(x)) \in Seq(Events)
  BY <1>1, <1>2, OrderAppend
<1>4. QED BY <1>1, <1>3, HoldsAppend

\* ... and a boot stage may follow anything.
LEMMA PostStage ==
  ASSUME NEW q \in Seq(Events), Order(q), NEW x \in {"SBL", "AMSS", "RDDM"}
  PROVE  /\ Order(Append(q, Ee(x))) /\ Append(q, Ee(x)) \in Seq(Events)
         /\ \A y \in States : Holds(Append(q, Ee(x)), St(y)) <=> Holds(q, St(y))
<1>1. Ee(x) \in Events /\ \A y : St(y) # Ee(x)
  BY EventsOf
<1>2. \A a : Follows(a, Ee(x))
  BY <1>1 DEF Follows
<1>3. Order(Append(q, Ee(x))) /\ Append(q, Ee(x)) \in Seq(Events)
  BY <1>1, <1>2, OrderAppend
<1>4. QED BY <1>1, <1>3, HoldsAppend

-----------------------------------------------------------------------------
(* Who sleeps: the host, the modem, and runtime PM.                        *)

\* The operating states in which the modem runs.
Alive == {"POR", "M0", "M2", "M3_ENTER", "M3", "M3_EXIT"}
Told(x) == Holds(er, St(x))

\* A boot loader that does not report runs in a modem that is reset.
LoaderInv == dev_ee \in InPbl => dev = "RESET"

\* Where the modem can be, what it has been asked for and what it has reported, given what the host
\* believes.  States in error are left out: nothing is promised of a modem that is to be reset.
EventInv ==
  pm_state \in Alive =>
  /\ pm_state = "POR" => dev \in {"RESET", "READY", "M0", "M1", "SYS_ERR"}
  /\ pm_state = "M0" => dev \in {"M0", "M1", "SYS_ERR"}
  /\ pm_state = "M2" => dev \in {"M0", "M1", "M2", "SYS_ERR"}
  /\ pm_state = "M3_ENTER" => dev \in {"M0", "M1", "M3", "SYS_ERR"}
  /\ pm_state = "M3" => dev \in {"M3", "SYS_ERR"}
  /\ pm_state = "M3_EXIT" => dev \in {"M3", "M0", "M1", "SYS_ERR"}
  /\ Order(er)
  /\ mhictrl = "M0" => \/ dev \in {"RESET", "READY"} /\ pm_state = "POR"
                       \/ dev \in {"M3", "SYS_ERR"} /\ pm_state = "M3_EXIT"
  /\ mhictrl = "M2" => pm_state = "M2" /\ ~Told("M0") /\ ~Told("M1") /\ dev \in {"M1", "SYS_ERR"}
  /\ mhictrl = "M3" => pm_state \in {"M3_ENTER", "M3"}
  /\ Told("M0") => /\ pm_state \in {"POR", "M2", "M3_EXIT"} /\ dev \in {"M0", "M1", "SYS_ERR"}
                   /\ mhictrl = "none"
  /\ Told("M1") => dev \in {"M1", "M3", "SYS_ERR"} /\ mhictrl \notin {"M0", "M2"}
  /\ Told("M3") => pm_state = "M3_ENTER" /\ dev \in {"M3", "SYS_ERR"}
  /\ pm_state = "M3" => /\ \A x \in States : ~Told(x)
                        /\ dev_state = "M3" /\ pc["ctrl"] \in {"idle", "ev_more"}
  /\ pm_state = "M3_EXIT" => dev_state = "M3"
  /\ pm_state \in {"M0", "M2", "M3_ENTER"} => dev_state # "M3"
  /\ pm_state = "M3_ENTER" /\ dev \in {"M0", "M1"} => mhictrl = "M3"
  /\ pm_state = "M3_ENTER" /\ dev = "M3" => Told("M3")

\* Runtime PM and the thread that suspends and resumes for it; what they have seen of the host.
SleepInv ==
  /\ pc["rpm"] \in {"sus_m0", "sus_enter", "sus_m3"} <=> rpm = "suspending"
  /\ pc["rpm"] \in {"res_assert", "res_exit", "res_m0", "iv_claim", "iv_notify", "res_fail"} <=> rpm = "resuming"
  /\ pc["rpm"] # "idle" \/ rpm = "suspended" => pc["power"] = "on"
  /\ rpm = "suspended" \/ pc["rpm"] \in {"res_assert", "res_exit"} => pm_state = "M3"
  /\ pc["rpm"] = "sus_m3" => pm_state \in {"M3_ENTER", "M3", "SYS_ERR_DETECT"}
  /\ pc["rpm"] = "res_m0" => pm_state \in {"M3_EXIT", "M0", "M2", "SYS_ERR_DETECT"}
  /\ budget.late \in 0..Lates

\* The modem is found in its boot loader, reset, or past it.
LEMMA LoaderStarts == Init => LoaderInv
  BY DEF Init, LoaderInv

\* Only a reset brings a boot loader back.
LEMMA LoaderStays == ASSUME ~EarlyCrash, LoaderInv, WellFormed, [Next]_vars PROVE LoaderInv'
<1>1. CASE Modem
  BY <1>1 DEF LoaderInv, WellFormed, TypeOK, Modem, ModemBoot, ModemReset, ModemM0, ModemIdle, ModemM2, ModemM3,
     ModemSysErr, ModemRddm, EntersM0, EntersM2, EntersM3, modem, InPbl
<1>2. CASE ~Modem
  BY <1>2, OthersLeaveModem DEF LoaderInv
<1>3. QED BY <1>1, <1>2

\* Of a controller that is down nothing is promised.
LEMMA EventStarts == Init => EventInv
  BY DEF Init, EventInv, Alive

\* How each state of the machine answers.
LEMMA Tries ==
  ASSUME NEW s \in PmState
  PROVE  /\ s \in Alive => Tryset(s, "SYS_ERR_DETECT") = "SYS_ERR_DETECT"
         /\ s \notin Alive => \A t \in PmState \ {"POR"} : Tryset(s, t) \notin Alive
         /\ Tryset(s, "M0") = (IF s \in {"POR", "M2", "M3_EXIT"} THEN "M0" ELSE s)
         /\ Tryset(s, "M2") = (IF s = "M0" THEN "M2" ELSE s)
         /\ Tryset(s, "M3") = (IF s = "M3_ENTER" THEN "M3" ELSE s)
         /\ Tryset(s, "M3_ENTER") = (IF s = "M0" THEN "M3_ENTER" ELSE s)
         /\ Tryset(s, "M3_EXIT") = (IF s = "M3" THEN "M3_EXIT" ELSE s)
         /\ s \notin {"POR", "DISABLE", "SYS_ERR_PROCESS"} => Tryset(s, "POR") = s
         /\ Tryset(s, "POR") \in {s, "POR"}
         /\ s # "SYS_ERR_DETECT" => Tryset(s, "SYS_ERR_PROCESS") = s
         /\ s # "POR" => Tryset(s, "DISABLE") \in {s, "DISABLE"}
  BY Table DEF Tryset, PmState, L0, L1, L2, L3, Async, Alive

\* What the modem does and reports keeps the agreement of host and modem.
LEMMA ModemEvents ==
  ASSUME ~EarlyCrash, pm_state \in Alive, EventInv, LoaderInv, ResetInv, WellFormed, Modem
  PROVE  EventInv'
<1> USE DEF host, irqs, works, qti, modem, At, Told, States
<1>t. /\ er \in Seq(Events) /\ (dev = "READY" => dev_ee \in {"SBL", "AMSS"}) /\ Order(er)
      /\ mhictrl # "RESET" /\ (dev_ee \in InPbl => dev = "RESET")
  BY DEF WellFormed, TypeOK, EventInv, ResetInv, Down, Alive, LoaderInv
<1> USE DEF EventInv, Alive
<1>1. CASE ModemBoot
  <2>1. UNCHANGED <<pm_state, pc, dev_state, mhictrl>> /\ dev_ee' \in {"SBL", "AMSS"}
    BY <1>1 DEF ModemBoot
  <2>2. \/ dev \in {"RESET", "READY"} /\ dev' \in {"RESET", "READY"} /\ er' = er
        \/ dev' = dev /\ er' = Append(er, Ee(dev_ee'))
    BY <1>1, <1>t DEF ModemBoot, Booting, Post, Ee, InPbl
  <2>3. Order(er') /\ \A y \in States : Holds(er', St(y)) <=> Holds(er, St(y))
    <3>1. CASE er' = Append(er, Ee(dev_ee'))
      BY <2>1, <3>1, <1>t, PostStage
    <3>2. CASE er' = er
      BY <3>2, <1>t
    <3>3. QED BY <2>2, <3>1, <3>2
  <2>4. QED BY <2>1, <2>2, <2>3
<1>2. CASE ModemReset
  BY <1>2, <1>t DEF ModemReset
<1>3. CASE ModemM0
  <2>1. UNCHANGED <<pm_state, pc, dev_state>> /\ dev' = "M0" /\ mhictrl' = "none"
    BY <1>3 DEF ModemM0
  <2>2. /\ ~Told("M0") /\ ~Told("M1") /\ ~Told("M3") /\ pm_state \in {"POR", "M2", "M3_EXIT"}
    BY <1>3, <1>t DEF ModemM0, EntersM0
  <2>3. \/ er' = Append(er, St("M0"))
        \/ dev_ee \in {"SBL", "AMSS"} /\ er' = Append(Append(er, St("M0")), Ee(dev_ee))
    BY <1>3, <1>t DEF ModemM0, St, Ee
  <2> DEFINE q == Append(er, St("M0"))
  <2>4. Order(q) /\ q \in Seq(Events) /\ \A y \in States : Holds(q, St(y)) <=> Holds(er, St(y)) \/ y = "M0"
    BY <2>2, <1>t, PostState
  <2>5. Order(er') /\ \A y \in States : Holds(er', St(y)) <=> Holds(er, St(y)) \/ y = "M0"
    <3> HIDE DEF q
    <3>1. er' = q \/ (dev_ee \in {"SBL", "AMSS"} /\ er' = Append(q, Ee(dev_ee)))
      BY <2>3 DEF q
    <3>2. CASE er' = q
      BY <2>4, <3>2
    <3>3. CASE dev_ee \in {"SBL", "AMSS"} /\ er' = Append(q, Ee(dev_ee))
      <4>1. Order(er') /\ \A y \in States : Holds(er', St(y)) <=> Holds(q, St(y))
        BY <2>4, <3>3, PostStage
      <4>2. QED BY <2>4, <4>1
    <3>4. QED BY <3>1, <3>2, <3>3
  <2>6. QED BY <2>1, <2>2, <2>5
<1>4. CASE ModemIdle
  <2>1. UNCHANGED <<pm_state, pc, dev_state, mhictrl>> /\ dev = "M0" /\ dev' = "M1" /\ mhictrl = "none"
        /\ er' = Append(er, St("M1"))
    BY <1>4 DEF ModemIdle, Post, St
  <2>2. Order(er') /\ \A y \in States : Holds(er', St(y)) <=> Holds(er, St(y)) \/ y = "M1"
    BY <2>1, <1>t, PostState
  <2>3. QED BY <2>1, <2>2
<1>5. CASE ModemM2
  BY <1>5 DEF ModemM2, EntersM2
<1>6. CASE ModemM3
  <2>1. UNCHANGED <<pm_state, pc, dev_state>> /\ dev \in {"M0", "M1", "M2"} /\ dev' = "M3" /\ mhictrl = "M3"
        /\ mhictrl' = "none" /\ er' = Append(er, St("M3"))
    BY <1>6 DEF ModemM3, EntersM3, Post, St
  <2>2. Order(er') /\ \A y \in States : Holds(er', St(y)) <=> Holds(er, St(y)) \/ y = "M3"
    BY <2>1, <1>t, PostState
  <2>3. QED BY <2>1, <2>2
<1>7. CASE ModemSysErr
  <2>1. UNCHANGED <<pm_state, pc, dev_state>> /\ dev' = "SYS_ERR" /\ mhictrl' = "none"
        /\ \/ dev \in {"M0", "M1"} /\ er' = Append(er, St("SYS_ERR"))
           \/ er' = er
    BY <1>7 DEF ModemSysErr, Post, St
  <2>2. Order(er') /\ \A y \in States \ {"SYS_ERR"} : Holds(er', St(y)) <=> Holds(er, St(y))
    <3>1. CASE dev \in {"M0", "M1"} /\ er' = Append(er, St("SYS_ERR"))
      <4>1. ~Holds(er, St("M3"))
        BY <3>1
      <4>2. "SYS_ERR" \in States /\ "SYS_ERR" # "M0" /\ "SYS_ERR" # "M1"
        OBVIOUS
      <4>3. QED BY <3>1, <4>1, <4>2, <1>t, PostState
    <3>2. CASE er' = er
      BY <3>2, <1>t
    <3>3. QED BY <2>1, <3>1, <3>2
  <2>3. pm_state = "M3" => er' = er
    BY <2>1
  <2>4. QED BY <2>1, <2>2, <2>3
<1>8. CASE ModemRddm
  <2>1. UNCHANGED <<pm_state, pc, dev_state, dev, mhictrl>> /\ (er' = er \/ er' = Append(er, Ee("RDDM")))
    BY <1>8 DEF ModemRddm, Post, Ee
  <2>2. Order(er') /\ \A y \in States : Holds(er', St(y)) <=> Holds(er, St(y))
    <3>1. CASE er' = er
      BY <3>1, <1>t
    <3>2. CASE er' = Append(er, Ee("RDDM"))
      BY <3>2, <1>t, PostStage
    <3>3. QED BY <2>1, <3>1, <3>2
  <2>3. QED BY <2>1, <2>2
<1>9. QED BY <1>1, <1>2, <1>3, <1>4, <1>5, <1>6, <1>7, <1>8 DEF Modem

\* Reading the ring keeps the agreement of host and modem.
LEMMA CtrlEvents ==
  ASSUME EventInv, WellFormed, Ctrl
  PROVE  EventInv'
<1> USE DEF host, irqs, works, qti, modem, At, Told, States
<1>t. er \in Seq(Events) /\ pc \in [Proc -> UNION {Labels[p] : p \in Proc}] /\ pm_state \in PmState
  BY DEF WellFormed, TypeOK, PcOK
<1>g. \A l : Goto("ctrl", l) => pc'["ctrl"] = l
  BY <1>t DEF Goto, Proc
<1>a. CASE pm_state \notin Alive
  <2>1. pm_state' = pm_state \/ (\E t \in {"M0", "M2", "M3", "SYS_ERR_DETECT"} : pm_state' = Tryset(pm_state, t))
    BY DEF Ctrl, MsiHandlr, CtrlEvTask, M0Event, M1Event, M3Event, SysErrEvent, EEEvent,
       CtrlDrained, CtrlCheckState, CtrlEvent, Queue
  <2>2. pm_state' \notin Alive
    BY <2>1, <1>a, <1>t, Tries DEF PmState, L0, L1
  <2>3. QED BY <2>2 DEF EventInv
<1>b. CASE pm_state \in Alive
  <2>o. Order(er)
    BY <1>b DEF EventInv
  <2>r. ASSUME NEW ty, NEW v, CtrlEvent(ty, v)
        PROVE  /\ Order(er') /\ dev' = dev /\ pc'["ctrl"] = "ev_more" /\ Head(er) = [type |-> ty, val |-> v]
               /\ \A x \in States : /\ Holds(er, St(x)) <=> Head(er) = St(x) \/ Holds(er', St(x))
                                    /\ Holds(er', St(x)) => Follows(Head(er), St(x))
    BY <2>r, <2>o, <1>t, <1>g, ReadState DEF CtrlEvent
  <2>f. /\ \A x \in States : Follows(St("M0"), St(x)) => x # "M0"
        /\ \A x \in States : Follows(St("M1"), St(x)) => x \notin {"M0", "M1"}
        /\ \A x \in States : ~Follows(St("M3"), St(x))
    BY DEF Follows
  <2>1. CASE MsiHandlr \/ CtrlEvTask
    <3>1. UNCHANGED <<er, dev, pm_state, dev_state, mhictrl>>
          /\ (pm_state = "M3" => pc'["ctrl"] = pc["ctrl"])
      BY <2>1 DEF MsiHandlr, CtrlEvTask, RegAccessValid
    <3>2. QED BY <3>1 DEF EventInv
  <2>2. CASE M0Event
    <3>1. /\ Head(er) = St("M0") /\ dev' = dev /\ mhictrl' = mhictrl /\ dev_state' = "M0"
          /\ Order(er') /\ pm_state' = Tryset(pm_state, "M0")
          /\ \A x \in States : Holds(er', St(x)) => x # "M0" /\ Holds(er, St(x))
          /\ Holds(er, St("M0"))
      BY <2>2, <2>r, <2>f DEF M0Event, CtrlEvent, St
    <3>2. pm_state' = "M0"
      BY <3>1, <1>b, <1>t, Tries DEF EventInv
    <3>3. QED BY <3>1, <3>2, <1>b DEF EventInv
  <2>3. CASE M1Event
    <3>1. /\ Head(er) = St("M1") /\ dev' = dev /\ pm_state' = Tryset(pm_state, "M2")
          /\ IF pm_state' = "M2" THEN dev_state' = "M2" /\ mhictrl' = "M2" ELSE UNCHANGED <<dev_state, mhictrl>>
          /\ Order(er')
          /\ \A x \in States : Holds(er', St(x)) => x \notin {"M0", "M1"} /\ Holds(er, St(x))
          /\ \A x \in States : Holds(er, St(x)) => x = "M1" \/ Holds(er', St(x))
          /\ Holds(er, St("M1"))
      BY <2>3, <2>r, <2>f, EventsOf DEF M1Event, CtrlEvent, St
    <3>2. pm_state' = IF pm_state = "M0" THEN "M2" ELSE pm_state
      BY <3>1, <1>t, Tries
    <3>3. pm_state # "M3"
      BY <3>1, <1>b DEF EventInv
    <3>4. QED BY <3>1, <3>2, <3>3, <1>b DEF EventInv, Alive
  <2>4. CASE M3Event
    <3>1. /\ Head(er) = St("M3") /\ dev' = dev /\ mhictrl' = mhictrl /\ dev_state' = "M3"
          /\ Order(er') /\ pm_state' = Tryset(pm_state, "M3") /\ pc'["ctrl"] = "ev_more"
          /\ \A x \in States : ~Holds(er', St(x))
          /\ Holds(er, St("M3"))
      BY <2>4, <2>r, <2>f DEF M3Event, CtrlEvent, St
    <3>2. pm_state = "M3_ENTER" /\ pm_state' = "M3"
      BY <3>1, <1>b, <1>t, Tries DEF EventInv
    <3>3. QED BY <3>1, <3>2, <1>b DEF EventInv, Alive
  <2>5. CASE SysErrEvent
    <3>1. pm_state' = "SYS_ERR_DETECT"
      BY <2>5, <1>b, <1>t, Tries DEF SysErrEvent
    <3>2. QED BY <3>1 DEF EventInv, Alive
  <2>6. CASE EEEvent
    <3>1. /\ UNCHANGED <<dev, pm_state, mhictrl, dev_state>> /\ pc'["ctrl"] = "ev_more" /\ Order(er')
          /\ \A x \in States : Holds(er, St(x)) <=> Holds(er', St(x))
      <4>1. \A v : \A x : [type |-> "EE", val |-> v] # St(x)
        BY EventsOf DEF Ee
      <4>2. QED BY <2>6, <2>r, <4>1 DEF EEEvent, CtrlEvent
    <3>2. QED BY <3>1, <1>b DEF EventInv
  <2>7. CASE CtrlDrained
    <3>1. UNCHANGED <<er, dev, pm_state, dev_state, mhictrl>>
          /\ (pc["ctrl"] \in {"idle", "ev_more"} => pc'["ctrl"] \in {"idle", "ev_more"})
      BY <2>7, <1>g DEF CtrlDrained
    <3>2. QED BY <3>1 DEF EventInv
  <2>8. CASE CtrlCheckState
    <3>1. UNCHANGED <<er, dev, dev_state, mhictrl>> /\ pc["ctrl"] = "ev_none"
          /\ (pm_state' = pm_state \/ pm_state' = Tryset(pm_state, "SYS_ERR_DETECT"))
      BY <2>8, <1>g DEF CtrlCheckState
    <3>2. pm_state' = pm_state \/ pm_state' \notin Alive
      BY <3>1, <1>b, <1>t, Tries DEF Alive
    <3>3. QED BY <3>1, <3>2, <1>b DEF EventInv
  <2>9. QED BY <2>1, <2>2, <2>3, <2>4, <2>5, <2>6, <2>7, <2>8 DEF Ctrl
<1>c. QED BY <1>a, <1>b

\* A controller that comes back to POR finds the modem reset and its ring empty.
LEMMA BackToPor ==
  ASSUME er' = <<>>, pm_state' = "POR", dev' \in {"RESET", "READY"}, mhictrl' \in {"none", "M0"}
  PROVE  EventInv'
  BY HoldsNone, OrderNone DEF EventInv, Told

\* Every step keeps the agreement of host and modem.
LEMMA EventStays ==
  ASSUME ~EarlyCrash, EventInv, SleepInv, LoaderInv, HostInv, [Next]_vars
  PROVE  EventInv'
<1> USE DEF host, irqs, works, qti, modem, At
<1>t. /\ pc \in [Proc -> UNION {Labels[p] : p \in Proc}] /\ pm_state \in PmState
  BY DEF HostInv, WellFormed, TypeOK, PcOK
<1>g. \A p \in Proc : \A l : Goto(p, l) => /\ pc'[p] = l
                                           /\ \A q \in Proc \ {p} : pc'[q] = pc[q]
  BY <1>t DEF Goto
\* Most steps leave host and modem where they are, ...
<1>k. ASSUME UNCHANGED <<pm_state, dev, dev_state, er, mhictrl>>, pc'["ctrl"] = pc["ctrl"]
      PROVE  EventInv'
  BY <1>k DEF EventInv, Told
\* ... or note an error, ...
<1>e. ASSUME pm_state' = pm_state \/ pm_state' \notin Alive,
             UNCHANGED <<dev, dev_state, er, mhictrl>>, pc'["ctrl"] = pc["ctrl"]
      PROVE  EventInv'
  BY <1>e, <1>k DEF EventInv
<1>n. /\ \A t \in PmState \ {"POR"} : pm_state \notin Alive => Tryset(pm_state, t) \notin Alive
      /\ \A t \in {"SYS_ERR_DETECT", "SYS_ERR_PROCESS", "SHUTDOWN_PROCESS", "LD_ERR_FATAL_DETECT", "DISABLE"} :
           Tryset(pm_state, t) = pm_state \/ Tryset(pm_state, t) \notin Alive
      /\ \A s \in Down : s \notin Alive
  BY <1>t, Tries DEF Tryset, Alive, Down
<1>1. CASE UNCHANGED vars \/ ReadyWorker \/ SysErrStart \/ DisExit \/ RemoveStart
  BY <1>1, <1>k, <1>g DEF vars, ReadyWorker, SysErrStart, DisExit, RemoveStart, Proc
<1>2. CASE Modem
  <2>1. CASE pm_state \in Alive
    BY <1>2, <2>1, ModemEvents DEF HostInv
  <2>2. CASE pm_state \notin Alive
    <3>1. pm_state' = pm_state
      BY <1>2 DEF Modem, ModemBoot, ModemReset, ModemM0, ModemIdle, ModemM2, ModemM3, ModemSysErr, ModemRddm
    <3>2. QED BY <2>2, <3>1 DEF EventInv
  <2>3. QED BY <2>1, <2>2
<1>3. CASE Ctrl
  BY <1>3, CtrlEvents DEF HostInv
<1>4. CASE IntvecThread \/ DebugReset
  <2>1. /\ UNCHANGED <<dev, dev_state, er, mhictrl>> /\ pc'["ctrl"] = pc["ctrl"]
        /\ pm_state' = pm_state \/ pm_state' = Tryset(pm_state, "SYS_ERR_DETECT")
    BY <1>4, <1>g DEF IntvecThread, Intvec, IntvecClaim, IntvecNotify, DebugReset, Proc
  <2>2. QED BY <2>1, <1>n, <1>e
<1>5. CASE StWorker /\ ~RdySet("st", "st_item") /\ ~RdyMmio("st", "st_item")
  <2>1. UNCHANGED <<pm_state, dev, dev_state, er, mhictrl>> /\ pc'["ctrl"] = pc["ctrl"]
    BY <1>5, <1>g DEF StWorker, StTake, StDone, StPbl, StSbl, StReady, StMissionMode, MmSync, MmEE,
       CreateDevices, DeviceAdd, ProbeSync, DriverBind, StItem, GetSync, ReadyTransition, RdyWait, Proc
  <2>2. QED BY <2>1, <1>k
<1>6. CASE RdySet("st", "st_item") \/ RdyMmio("st", "st_item")
  <2>1. Quiet
    BY <1>6 DEF RdySet, RdyMmio, Under, ReadyLabels, HostInv, BootInv, Booted
  <2>2. /\ er' = <<>> /\ dev' \in {"RESET", "READY"} /\ mhictrl' \in {"none", "M0"}
        /\ pm_state' = pm_state \/ pm_state' = Tryset(pm_state, "POR")
    BY <1>6, <2>1 DEF RdySet, RdyMmio, Quiet
  <2>3. pm_state' = "POR" \/ pm_state' \notin Alive
    BY <2>1, <2>2, <1>t, Tries DEF Quiet, Alive
  <2>4. QED BY <2>2, <2>3, BackToPor DEF EventInv
<1>7. CASE RdySet("syserr", "dis_exit") \/ RdyMmio("syserr", "dis_exit")
  <2>1. dev \in {"RESET", "READY"} /\ mhictrl = "none" /\ er = <<>> /\ (pm_state = "POR" \/ pm_state \in Down)
    BY <1>7 DEF RdySet, RdyMmio, HostInv, ResetInv, ReadyLabels, AfterReset
  <2>2. /\ er' = <<>> /\ dev' \in {"RESET", "READY"} /\ mhictrl' \in {"none", "M0"}
        /\ pm_state' = pm_state \/ pm_state' = Tryset(pm_state, "POR")
    BY <1>7, <2>1 DEF RdySet, RdyMmio
  <2>3. pm_state' = "POR" \/ pm_state' \notin Alive
    BY <2>1, <2>2, <1>n, <1>t, Tries
  <2>4. QED BY <2>2, <2>3, BackToPor DEF EventInv
<1>8. CASE RdyWait("syserr", "dis_exit")
  BY <1>8, <1>g, <1>k DEF RdyWait, Proc
<1>9. ASSUME NEW p \in {"syserr", "power"}, DisEnter(p) PROVE EventInv'
  <2>1. UNCHANGED <<dev, er, mhictrl>> /\ pc'["ctrl"] = pc["ctrl"]
    BY <1>9, <1>g DEF DisEnter, Proc
  <2>2. \/ pm_state' \in {"SYS_ERR_PROCESS", "SHUTDOWN_PROCESS"}
        \/ UNCHANGED <<pm_state, dev_state>>
    BY <1>9 DEF DisEnter, Target
  <2>3. QED BY <2>1, <2>2, <1>k DEF EventInv, Alive
<1>10. ASSUME NEW p \in {"syserr", "power"}, DisReset(p) \/ DisRings(p) PROVE EventInv'
  <2>1. pm_state \notin Alive
    BY <1>10, <1>n DEF DisReset, DisRings, HostInv, ResetInv, PowerInv, AfterReset, Draining, Down, Alive
  <2>2. pm_state' = pm_state
    BY <1>10 DEF DisReset, DisRings
  <2>3. QED BY <2>1, <2>2 DEF EventInv
<1>11. ASSUME NEW p \in {"syserr", "power"}, Disable(p),
              ~DisEnter(p), ~DisReset(p), ~DisRings(p), ~DisDone(p)
       PROVE  EventInv'
  <2>1. UNCHANGED <<pm_state, dev, dev_state, er, mhictrl>> /\ pc'["ctrl"] = pc["ctrl"]
    BY <1>11, <1>g DEF Disable, DisWait, DisKill, DisDestroy, DisFlushReady, DisFlushSt, DisFlushed, Proc
  <2>2. QED BY <2>1, <1>k
<1>12. CASE DisDone("syserr")
  <2>1. dev \in {"RESET", "READY"} /\ mhictrl = "none" /\ er = <<>> /\ pm_state \in Down
    BY <1>12 DEF DisDone, HostInv, ResetInv, AfterReset, Draining
  <2>2. /\ er' = <<>> /\ dev' \in {"RESET", "READY"} /\ mhictrl' \in {"none", "M0"}
        /\ pm_state' = pm_state \/ pm_state' = Tryset(pm_state, "POR")
    BY <1>12, <2>1 DEF DisDone
  <2>3. pm_state' = "POR" \/ pm_state' \notin Alive
    BY <2>1, <2>2, <1>n, <1>t, Tries
  <2>4. QED BY <2>2, <2>3, BackToPor DEF EventInv
<1>13. CASE DisDone("power") \/ PdFatal \/ PdFree
  <2>1. /\ UNCHANGED <<dev, dev_state, er, mhictrl>> /\ pc'["ctrl"] = pc["ctrl"]
        /\ \/ pm_state' = pm_state
           \/ \E t \in {"DISABLE", "LD_ERR_FATAL_DETECT"} : pm_state' = Tryset(pm_state, t)
    BY <1>13, <1>g DEF DisDone, PdFatal, PdFree, Proc
  <2>2. QED BY <2>1, <1>n, <1>e
<1>14. CASE PowerUp
  <2>1. Quiet
    BY <1>14 DEF PowerUp, HostInv, BootInv
  <2>2. er' = <<>> /\ dev' \in {"RESET", "READY"} /\ mhictrl' = "none" /\ pm_state' = "POR"
    BY <1>14, <2>1 DEF PowerUp, Quiet
  <2>3. QED BY <2>2, BackToPor
<1>15. CASE SuspendEnter
  <2>1. /\ UNCHANGED <<dev, dev_state, er>> /\ pc'["ctrl"] = pc["ctrl"]
        /\ pm_state' = Tryset(pm_state, "M3_ENTER")
        /\ IF pm_state' = "M3_ENTER" THEN mhictrl' = "M3" ELSE mhictrl' = mhictrl
    BY <1>15, <1>g DEF SuspendEnter, SuspendFail, RpmUnchanged, Proc
  <2>2. pm_state' = IF pm_state = "M0" THEN "M3_ENTER" ELSE pm_state
    BY <2>1, <1>t, Tries
  <2>3. QED BY <2>1, <2>2 DEF EventInv, Told, Alive
<1>16. CASE ResumeExit
  <2>1. /\ UNCHANGED <<dev, dev_state, er>> /\ pc'["ctrl"] = pc["ctrl"] /\ pm_state = "M3"
        /\ pm_state' = Tryset(pm_state, "M3_EXIT") /\ mhictrl' \in {"M0", mhictrl}
    BY <1>16, <1>g DEF ResumeExit, RpmUnchanged, SleepInv, Proc
  <2>2. pm_state' = "M3_EXIT" /\ mhictrl' = "M0"
    BY <1>16, <2>1, <1>t, Tries DEF ResumeExit
  <2>3. QED BY <2>1, <2>2 DEF EventInv, Told, Alive, States
<1>17. CASE Rpm /\ ~SuspendEnter /\ ~ResumeExit
  <2>1. /\ UNCHANGED <<dev, dev_state, er, mhictrl>> /\ pc'["ctrl"] = pc["ctrl"]
        /\ pm_state' = pm_state \/ pm_state' = Tryset(pm_state, "SYS_ERR_DETECT")
    BY <1>17, <1>g DEF Rpm, SuspendStart, SuspendM0, SuspendM3, ResumeStart, ResumeAssert,
       ResumeM0, ResumeClaim, ResumeNotify, ResumeFail, SuspendFail, IntvecClaim,
       IntvecNotify, RpmUnchanged, Proc
  <2>2. QED BY <2>1, <1>n, <1>e
<1>18. CASE PowerUpSysErr \/ PowerUpPoll \/ PowerUpReset
  BY <1>18, ProbeQuiet, <1>k DEF HostInv, Proc
<1>19. QED
  BY <1>1, <1>2, <1>3, <1>4, <1>5, <1>6, <1>7, <1>8, <1>9, <1>10, <1>11, <1>12, <1>13, <1>14, <1>15,
     <1>16, <1>17, <1>18 DEF Next, StWorker, SysErrWorker, Power, ReadyTransition, Disable

\* The device is found active.
LEMMA SleepStarts == Init => SleepInv
  BY ConstantsAssumption DEF Init, SleepInv, Proc

\* The steps of others, while runtime PM sleeps or has pm_mutex.
LEMMA SleepOthers ==
  ASSUME SleepInv, EventInv, HostInv, [Next]_vars, ~Rpm,
         rpm = "suspended" \/ pc["rpm"] # "idle"
  PROVE  /\ rpm' = rpm /\ (rpm = "suspended" \/ pm_mutex' = pm_mutex)
         /\ pc'["power"] = "on" /\ pc'["rpm"] = pc["rpm"]
         /\ pm_state = "M3" => pm_state' = "M3"
         /\ pm_state \in {"M3_ENTER", "SYS_ERR_DETECT"} /\ pc["rpm"] = "sus_m3"
              => pm_state' \in {"M3_ENTER", "M3", "SYS_ERR_DETECT"}
         /\ pm_state \in {"M3_EXIT", "M0", "M2", "SYS_ERR_DETECT"} /\ pc["rpm"] = "res_m0"
              => pm_state' \in {"M3_EXIT", "M0", "M2", "SYS_ERR_DETECT"}
<1> USE DEF host, irqs, works, qti, modem, At
<1>t. /\ pc \in [Proc -> UNION {Labels[p] : p \in Proc}] /\ pm_state \in PmState
      /\ pc["rpm"] \in Labels["rpm"]
      /\ \A p \in {"syserr", "power", "rpm"} : pm_mutex = p <=> pc[p] \in Critical[p]
  BY DEF HostInv, WellFormed, TypeOK, PcOK, MutexInv, Proc
<1>g. \A p \in Proc \ {"rpm", "power"} : \A l : Goto(p, l) => pc'["rpm"] = pc["rpm"] /\ pc'["power"] = pc["power"]
  BY <1>t DEF Goto, Proc
<1>p. pc["power"] = "on"
  BY DEF SleepInv
<1>m. pc["rpm"] # "idle" => pm_mutex = "rpm"
  BY <1>t DEF Critical, Labels
<1>d. /\ Tryset(pm_state, "POR") = pm_state \/ pm_state \in {"POR", "DISABLE", "SYS_ERR_PROCESS"}
      /\ pm_state # "SYS_ERR_DETECT" => Tryset(pm_state, "SYS_ERR_PROCESS") = pm_state
  BY <1>t, Tries
<1>r. \A t \in {"M0", "M2", "M3", "SYS_ERR_DETECT"} :
        /\ pm_state \in {"M3_ENTER", "SYS_ERR_DETECT"} => Tryset(pm_state, t) \in {"M3_ENTER", "M3", "SYS_ERR_DETECT"}
        /\ pm_state \in {"M3_EXIT", "M0", "M2", "SYS_ERR_DETECT"}
             => Tryset(pm_state, t) \in {"M3_EXIT", "M0", "M2", "SYS_ERR_DETECT"}
  BY <1>t, Tries DEF Tryset
<1>1. CASE UNCHANGED vars
  BY <1>1, <1>p DEF vars
<1>2. CASE Modem \/ ReadyWorker
  BY <1>2, <1>p DEF Modem, ModemBoot, ModemReset, ModemM0, ModemIdle, ModemM2, ModemM3, ModemSysErr, ModemRddm,
     ReadyWorker
<1>3. CASE Ctrl
  <2>1. UNCHANGED <<rpm, pm_mutex>> /\ pc'["power"] = "on" /\ pc'["rpm"] = pc["rpm"]
    BY <1>3, <1>g, <1>p DEF Ctrl, MsiHandlr, CtrlEvTask, M0Event, M1Event, M3Event, SysErrEvent, EEEvent,
       CtrlDrained, CtrlCheckState, CtrlEvent, Queue, Proc
  <2>2. pm_state' = pm_state \/ (\E t \in {"M0", "M2", "M3", "SYS_ERR_DETECT"} : pm_state' = Tryset(pm_state, t))
    BY <1>3 DEF Ctrl, MsiHandlr, CtrlEvTask, M0Event, M1Event, M3Event, SysErrEvent, EEEvent,
       CtrlDrained, CtrlCheckState, CtrlEvent, Queue
  <2>3. pm_state = "M3" => pm_state' = "M3"
    <3>1. ASSUME pm_state = "M3", SysErrEvent \/ CtrlCheckState PROVE FALSE
      <4>1. \A x \in States : ~Told(x)
        BY <3>1 DEF EventInv, Alive
      <4>2. pc["ctrl"] # "ev_none"
        BY <3>1 DEF EventInv, Alive
      <4>3. er # <<>> /\ Head(er) = St("SYS_ERR")
        BY <3>1, <4>2 DEF SysErrEvent, CtrlEvent, CtrlCheckState, St
      <4>4. Told("SYS_ERR")
        BY <4>3, HoldsTail DEF Told, HostInv, WellFormed, TypeOK
      <4>5. QED BY <4>1, <4>4 DEF States
    <3>2. pm_state = "M3" => \A t \in {"M0", "M2", "M3"} : Tryset(pm_state, t) = "M3"
      BY <1>t, Tries
    <3>3. QED BY <1>3, <3>1, <3>2 DEF Ctrl, MsiHandlr, CtrlEvTask, M0Event, M1Event, M3Event, EEEvent,
       CtrlDrained, CtrlEvent, Queue
  <2>4. QED BY <2>1, <2>2, <2>3, <1>r
<1>4. CASE IntvecThread \/ DebugReset
  <2>1. UNCHANGED <<rpm, pm_mutex>> /\ pc'["power"] = "on" /\ pc'["rpm"] = pc["rpm"]
        /\ (pm_state' = pm_state \/ pm_state' = Tryset(pm_state, "SYS_ERR_DETECT"))
    BY <1>4, <1>g, <1>p DEF IntvecThread, Intvec, IntvecClaim, IntvecNotify, DebugReset, Proc
  <2>2. pm_state = "M3" => pm_state' = "M3"
    BY <1>4 DEF IntvecThread, Intvec, IntvecClaim, IntvecNotify, DebugReset, EventInv, Alive, RegAccessValid
  <2>3. QED BY <2>1, <2>2, <1>r
<1>5. CASE StWorker \/ SysErrWorker
  <2>1. /\ rpm' = rpm /\ pc'["power"] = "on" /\ pc'["rpm"] = pc["rpm"]
    BY <1>5, <1>g, <1>p DEF StWorker, StTake, StDone, StPbl, StSbl, StReady, StMissionMode, MmSync, MmEE,
       CreateDevices, DeviceAdd, ProbeSync, DriverBind, StItem, GetSync, ReadyTransition, RdyWait, RdySet,
       RdyMmio, SysErrWorker, SysErrStart, DisExit, Disable, DisEnter, DisReset, DisWait, DisKill,
       DisDestroy, DisFlushReady, DisFlushSt, DisFlushed, DisRings, DisDone, AfterDisable, Proc
  <2>2. pm_mutex = "rpm" => pm_mutex' = pm_mutex
    BY <1>5 DEF StWorker, StTake, StDone, StPbl, StSbl, StReady, StMissionMode, MmSync, MmEE,
       CreateDevices, DeviceAdd, ProbeSync, DriverBind, StItem, ReadyTransition, RdyWait, RdySet,
       RdyMmio, SysErrWorker, SysErrStart, DisExit, Disable, DisEnter, DisReset, DisWait, DisKill,
       DisDestroy, DisFlushReady, DisFlushSt, DisFlushed, DisRings, DisDone, Lock, Unlock, NoProc
  <2>3. \/ pm_state' = pm_state
        \/ pm_state' = Tryset(pm_state, "POR")
        \/ pm_state' = Tryset(pm_state, "SYS_ERR_PROCESS") /\ pm_mutex = NoProc
    BY <1>5 DEF StWorker, StTake, StDone, StPbl, StSbl, StReady, StMissionMode, MmSync, MmEE,
       CreateDevices, DeviceAdd, ProbeSync, DriverBind, StItem, ReadyTransition, RdyWait, RdySet,
       RdyMmio, SysErrWorker, SysErrStart, DisExit, Disable, DisEnter, DisReset, DisWait, DisKill,
       DisDestroy, DisFlushReady, DisFlushSt, DisFlushed, DisRings, DisDone, Target
  <2>4. QED BY <2>1, <2>2, <2>3, <1>m, <1>d DEF NoProc
<1>6. CASE Power
  <2>1. RemoveStart
    BY <1>6, <1>p DEF Power, PowerUpSysErr, PowerUpPoll, PowerUpReset, PowerWrites, PowerUp, PdFatal, PdFree, Disable, DisEnter, DisReset, DisWait, DisKill,
       DisDestroy, DisFlushReady, DisFlushSt, DisFlushed, DisRings, DisDone
  <2>2. rpm \in {"active", "error"}
    BY <2>1 DEF RemoveStart
  <2>3. QED BY <2>2, <1>t DEF SleepInv, Labels
<1>7. QED BY <1>1, <1>2, <1>3, <1>4, <1>5, <1>6 DEF Next

\* Runtime PM and its thread belong to nobody else.
LEMMA OthersLeaveRpm ==
  ASSUME WellFormed, [Next]_vars, ~Rpm
  PROVE  rpm' = rpm /\ pc'["rpm"] = pc["rpm"]
<1>1. \A p \in Proc \ {"rpm"} : \A l : Goto(p, l) => pc'["rpm"] = pc["rpm"]
  BY DEF WellFormed, TypeOK, PcOK, Goto, Proc
<1>2. QED
  BY <1>1 DEF At, host, irqs, works, qti, modem, vars, Next, Modem, ModemBoot, ModemReset, ModemM0, ModemIdle, ModemM2, ModemM3,
     ModemSysErr, ModemRddm, Ctrl, MsiHandlr, CtrlEvTask, M0Event, M1Event, M3Event, SysErrEvent,
     EEEvent, CtrlDrained, CtrlCheckState, CtrlEvent, IntvecThread, Intvec, IntvecClaim, IntvecNotify,
     StWorker, StTake, StDone, StPbl, StSbl, StReady, StMissionMode, MmSync, MmEE, CreateDevices,
     DeviceAdd, ProbeSync, DriverBind, StItem, GetSync, ReadyTransition, RdyWait, RdySet, RdyMmio, ReadyWorker,
     SysErrWorker, SysErrStart, DisExit, Disable, DisEnter, DisReset, DisWait, DisKill, DisDestroy,
     DisFlushReady, DisFlushSt, DisFlushed, DisRings, DisDone, Power, PowerUpSysErr, PowerUpPoll, PowerUpReset, PowerWrites, PowerUp, RemoveStart, PdFatal,
     PdFree, AfterDisable, DebugReset, Proc

\* What the environment does, and how a wait ends, is paid for.
LEMMA BudgetSpent ==
  ASSUME [Next]_vars
  PROVE  \/ budget' = budget \/ Expires
         \/ \E w \in {"syserr", "idle", "suspend", "late"} : Spend(w)
  BY DEF At, host, irqs, works, qti, modem, vars, Next, Modem, ModemBoot, ModemReset, ModemM0, ModemIdle, ModemM2, ModemM3,
     ModemSysErr, ModemRddm, Ctrl, MsiHandlr, CtrlEvTask, M0Event, M1Event, M3Event, SysErrEvent,
     EEEvent, CtrlDrained, CtrlCheckState, CtrlEvent, IntvecThread, Intvec, IntvecClaim, IntvecNotify,
     StWorker, StTake, StDone, StPbl, StSbl, StReady, StMissionMode, MmSync, MmEE, CreateDevices,
     DeviceAdd, ProbeSync, DriverBind, StItem, GetSync, ReadyTransition, RdyWait, RdySet, RdyMmio, ReadyWorker,
     SysErrWorker, SysErrStart, DisExit, Disable, DisEnter, DisReset, DisWait, DisKill, DisDestroy,
     DisFlushReady, DisFlushSt, DisFlushed, DisRings, DisDone, Power, PowerUpSysErr, PowerUpPoll, PowerUpReset, PowerWrites, PowerUp, RemoveStart, PdFatal,
     PdFree, Rpm, SuspendStart, SuspendM0, SuspendEnter, SuspendM3, ResumeStart, ResumeAssert,
     ResumeExit, ResumeM0, ResumeClaim, ResumeNotify, ResumeFail, DebugReset

\* Every step keeps what runtime PM knows.
LEMMA SleepStays ==
  ASSUME SleepInv, EventInv, HostInv, WellFormed', [Next]_vars
  PROVE  SleepInv'
<1> USE DEF host, irqs, works, qti, modem, At
<1>t. /\ pc \in [Proc -> UNION {Labels[p] : p \in Proc}] /\ pm_state \in PmState
      /\ pc["rpm"] \in Labels["rpm"] /\ pc'["rpm"] \in Labels["rpm"]
      /\ budget \in [{"syserr", "idle", "suspend", "late"} -> Nat]
      /\ Lates \in Nat
  BY ConstantsAssumption DEF HostInv, WellFormed, TypeOK, PcOK, Proc
<1>g. \A p \in Proc : \A l : Goto(p, l) => /\ pc'[p] = l
                                           /\ \A q \in Proc \ {p} : pc'[q] = pc[q]
  BY <1>t DEF Goto
<1>b. budget'.late \in 0..Lates
  <2>1. \A w \in {"syserr", "idle", "suspend", "late"} :
          Spend(w) => budget'.late \in {budget.late, budget.late - 1} /\ budget'.late >= 0
    BY <1>t DEF Spend
  <2>2. Expires => budget'.late \in {budget.late, budget.late - 1} /\ budget'.late >= 0
    BY <2>1, <1>t DEF Expires
  <2>3. QED BY <2>1, <2>2, <1>t, BudgetSpent DEF SleepInv
<1>1. CASE ~Rpm /\ (rpm = "suspended" \/ pc["rpm"] # "idle")
  BY <1>1, <1>b, SleepOthers DEF SleepInv
<1>2. CASE ~Rpm /\ rpm # "suspended" /\ pc["rpm"] = "idle"
  <2>1. rpm' = rpm /\ pc'["rpm"] = "idle"
    BY <1>2, OthersLeaveRpm DEF HostInv
  <2>2. QED BY <1>2, <2>1, <1>b DEF SleepInv
<1>3. CASE SuspendStart
  BY <1>3, <1>g, <1>b DEF SuspendStart, SleepInv, Proc
<1>4. CASE SuspendM0
  BY <1>4, <1>g, <1>b DEF SuspendM0, SuspendFail, RpmUnchanged, SleepInv, Proc
<1>5. CASE SuspendEnter
  BY <1>5, <1>g, <1>b DEF SuspendEnter, SuspendFail, RpmUnchanged, SleepInv, Proc
<1>6. CASE SuspendM3
  <2>1. dev_state = "M3" /\ pm_state \notin InErrorState => pm_state = "M3"
    BY <1>6 DEF SuspendM3, SleepInv, EventInv, Alive, InErrorState, L1
  <2>2. QED BY <1>6, <2>1, <1>g, <1>b DEF SuspendM3, SuspendFail, RpmUnchanged, SleepInv, Proc
<1>7. CASE ResumeStart \/ ResumeAssert \/ ResumeFail
  BY <1>7, <1>g, <1>b DEF ResumeStart, ResumeAssert, ResumeFail, RpmUnchanged, SleepInv, Proc
<1>8. CASE ResumeExit
  BY <1>8, <1>g, <1>b DEF ResumeExit, RpmUnchanged, SleepInv, Proc
<1>9. CASE ResumeM0
  BY <1>9, <1>g, <1>b DEF ResumeM0, RpmUnchanged, SleepInv, Proc
<1>10. CASE ResumeClaim \/ ResumeNotify
  BY <1>10, <1>g, <1>b DEF ResumeClaim, IntvecClaim, ResumeNotify, IntvecNotify, SleepInv, Proc
<1>11. QED BY <1>1, <1>2, <1>3, <1>4, <1>5, <1>6, <1>7, <1>8, <1>9, <1>10 DEF Rpm

\* Until the host has handled them, the modem's reports are on their way to it, and so is a failure
\* of a modem in M0, M2 or told to sleep: by an event, by the BHI interrupt, or behind an M3 event.
LoudInv ==
  pc["power"] = "on" =>
  /\ /\ \/ pm_state \in {"M0", "M2", "M3_ENTER"}
        \/ pm_state \in {"POR", "M3_EXIT"} /\ Told("M0")
     /\ dev = "SYS_ERR"
     => intvec \/ Told("SYS_ERR") \/ Told("M3")
  /\ pm_state \in {"M0", "M2", "M3_ENTER"} /\ er # <<>> => msi \/ tasklet \/ pc["ctrl"] # "idle"
  /\ pc["ctrl"] = "ev_none" /\ er # <<>> => msi \/ tasklet

\* At first nothing is to be told.
LEMMA LoudStarts == Init => LoudInv
  BY DEF Init, LoudInv, Proc

\* Every step keeps reports and failures on their way.
LEMMA LoudStays ==
  ASSUME ~EarlyCrash, LoudInv, EventInv, SleepInv, LoaderInv, HostInv, [Next]_vars
  PROVE  LoudInv'
<1> USE DEF host, irqs, works, qti, modem, At
<1>t. /\ pc \in [Proc -> UNION {Labels[p] : p \in Proc}] /\ pm_state \in PmState
      /\ er \in Seq(Events)
      /\ dev = "READY" => dev_ee \in {"SBL", "AMSS"}
  BY DEF HostInv, WellFormed, TypeOK, PcOK
<1>g. \A p \in Proc : \A l : Goto(p, l) => /\ pc'[p] = l
                                           /\ \A q \in Proc \ {p} : pc'[q] = pc[q]
  BY <1>t DEF Goto
<1> USE DEF LoudInv, Told
\* Steps that leave the modem and what is on its way alone, but may move pm_state out of operation.
<1>k. ASSUME UNCHANGED <<dev, er, msi, tasklet, intvec>>, pc'["ctrl"] = pc["ctrl"],
             pc'["power"] = "on" => pc["power"] = "on",
             pm_state' = pm_state \/ pm_state' \notin {"M0", "M2", "M3_ENTER", "POR", "M3_EXIT"}
      PROVE  LoudInv'
  BY <1>k
<1>n. /\ \A t \in {"SYS_ERR_DETECT", "SYS_ERR_PROCESS", "SHUTDOWN_PROCESS", "LD_ERR_FATAL_DETECT", "DISABLE"} :
           Tryset(pm_state, t) = pm_state \/ Tryset(pm_state, t) \notin {"M0", "M2", "M3_ENTER", "POR", "M3_EXIT"}
  BY DEF Tryset
<1>1. CASE UNCHANGED vars \/ ReadyWorker \/ SysErrStart \/ DisExit \/ RemoveStart
  BY <1>1, <1>k, <1>g DEF vars, ReadyWorker, SysErrStart, DisExit, RemoveStart, Proc
<1>2. CASE Modem
  <2>p. UNCHANGED <<pm_state, pc, tasklet>>
    BY <1>2 DEF Modem, ModemBoot, ModemReset, ModemM0, ModemIdle, ModemM2, ModemM3, ModemSysErr, ModemRddm
  <2>c. pc["power"] = "on" => ctxt
    BY DEF HostInv, PowerInv
  <2>s. \A S, q, e, t : q \in Seq(S) /\ e \in S => (Holds(Append(q, e), t) <=> Holds(q, t) \/ e = t)
    BY HoldsAppend
  <2>1. CASE ModemSysErr
    <3>1. CASE dev \in {"M0", "M1"} /\ er' = Append(er, St("SYS_ERR")) /\ msi'
      <4>1. Holds(er', St("SYS_ERR"))
        BY <3>1, <2>s, <1>t, EventsOf
      <4>2. QED BY <2>p, <3>1, <4>1
    <3>2. CASE intvec' = (intvec \/ ctxt) /\ UNCHANGED <<er, msi>>
      BY <2>p, <3>2, <2>c
    <3>3. CASE dev = "M3" /\ UNCHANGED <<intvec, er, msi>>
      BY <2>p, <3>3 DEF EventInv, Alive
    <3>4. QED BY <2>1, <3>1, <3>2, <3>3 DEF ModemSysErr, Post, St
  <2>2. CASE ModemRddm /\ ~ctxt
    BY <2>2, <2>p, <2>c
  <2>7. CASE ModemRddm /\ ctxt
    <3>1. msi' /\ er' = Append(er, Ee("RDDM")) /\ UNCHANGED <<dev, intvec>>
      BY <2>7 DEF ModemRddm, Post, Ee
    <3>2. \A x \in States : Holds(er', St(x)) <=> Holds(er, St(x))
      BY <3>1, <2>s, <1>t, EventsOf
    <3>3. QED BY <2>p, <3>1, <3>2 DEF States
  <2>3. CASE ModemBoot \/ ModemM0 \/ ModemIdle \/ ModemM2 \/ ModemM3
    <3>1. dev' # "SYS_ERR" /\ (msi' \/ UNCHANGED <<er, msi>>)
      BY <2>3 DEF ModemBoot, Booting, ModemM0, ModemIdle, ModemM2, ModemM3, Post
    <3>2. QED BY <2>p, <3>1
  <2>4. CASE ModemReset
    BY <2>4, <2>p DEF ModemReset
  <2>5. QED BY <1>2, <2>1, <2>2, <2>3, <2>4, <2>7 DEF Modem
<1>3. CASE Ctrl
  <2>p. pc'["power"] = pc["power"] /\ UNCHANGED <<dev, intvec>>
    BY <1>3, <1>g DEF Ctrl, MsiHandlr, CtrlEvTask, M0Event, M1Event, M3Event, SysErrEvent, EEEvent,
       CtrlDrained, CtrlCheckState, CtrlEvent, Queue, Proc
  <2>r. ASSUME NEW ty, NEW v, CtrlEvent(ty, v)
        PROVE  /\ pc'["ctrl"] = "ev_more" /\ Head(er) = [type |-> ty, val |-> v]
               /\ \A x \in States : Holds(er, St(x)) <=> Head(er) = St(x) \/ Holds(er', St(x))
    BY <2>r, <1>t, <1>g, HoldsTail DEF CtrlEvent, Proc
  <2>e. \A x \in States : \A y \in States : St(x) = St(y) => x = y
    BY EventsOf
  <2>1. CASE MsiHandlr
    <3>1. tasklet' = (tasklet \/ er # <<>>) /\ UNCHANGED <<pm_state, pc, er>>
      BY <2>1 DEF MsiHandlr
    <3>2. (tasklet => tasklet') /\ (er # <<>> => tasklet')
      BY <3>1, Zenon
    <3>3. QED BY <2>p, <3>1, <3>2
  <2>2. CASE CtrlEvTask
    <3>1. pm_state \in {"M0", "M2", "M3_ENTER"} => pm_state \in RegAccessValid \ EventAccessInvalid
      BY DEF RegAccessValid, EventAccessInvalid, PmState, L0, InErrorState, L1, L2, L3
    <3>2. UNCHANGED <<pm_state, er, msi>> /\ pc["ctrl"] = "idle" /\ pc'["ctrl"] \in {"idle", "ev_first"}
          /\ (pm_state \in {"M0", "M2", "M3_ENTER"} => pc'["ctrl"] = "ev_first")
      BY <2>2, <3>1, <1>g DEF CtrlEvTask, Proc
    <3>3. QED BY <2>p, <3>2
  <2>3. CASE M0Event
    <3>1. /\ pc'["ctrl"] = "ev_more" /\ Holds(er, St("M0"))
          /\ \A x \in States \ {"M0"} : Holds(er', St(x)) <=> Holds(er, St(x))
          /\ Holds(er', St("M0")) => Holds(er, St("M0"))
          /\ pm_state' = IF pm_state \in {"POR", "M2", "M3_EXIT"} THEN "M0" ELSE pm_state
      BY <2>3, <2>r, <2>e, <1>t, Tries DEF M0Event, St, States
    <3>2. QED BY <2>p, <3>1 DEF States
  <2>4. CASE M1Event
    <3>1. /\ pc'["ctrl"] = "ev_more"
          /\ \A x \in States \ {"M1"} : Holds(er', St(x)) <=> Holds(er, St(x))
          /\ pm_state' = IF pm_state = "M0" THEN "M2" ELSE pm_state
      BY <2>4, <2>r, <2>e, <1>t, Tries DEF M1Event, St, States
    <3>2. QED BY <2>p, <3>1 DEF States
  <2>5. CASE M3Event
    <3>1. /\ pc'["ctrl"] = "ev_more" /\ Holds(er, St("M3"))
          /\ \A x \in States \ {"M3"} : Holds(er', St(x)) <=> Holds(er, St(x))
          /\ pm_state' = IF pm_state = "M3_ENTER" THEN "M3" ELSE pm_state
      BY <2>5, <2>r, <2>e, <1>t, Tries DEF M3Event, St, States
    <3>2. QED BY <2>p, <3>1 DEF States, EventInv, Alive
  <2>6. CASE SysErrEvent
    <3>1. pc'["ctrl"] = "ev_more" /\ pm_state' = Tryset(pm_state, "SYS_ERR_DETECT")
      BY <2>6, <2>r DEF SysErrEvent
    <3>2. pm_state' \notin {"M0", "M2", "M3_ENTER", "POR", "M3_EXIT"}
      BY <3>1, <1>t, Tries DEF Tryset, Alive
    <3>3. QED BY <2>p, <3>1, <3>2
  <2>7. CASE EEEvent
    <3>1. pc'["ctrl"] = "ev_more" /\ pm_state' = pm_state
          /\ \A x \in States : Holds(er', St(x)) <=> Holds(er, St(x))
      <4>1. \A v : \A x : [type |-> "EE", val |-> v] # St(x)
        BY EventsOf DEF Ee
      <4>2. QED BY <2>7, <2>r, <4>1 DEF EEEvent
    <3>2. QED BY <2>p, <3>1 DEF States
  <2>8. CASE CtrlDrained
    BY <2>8, <2>p DEF CtrlDrained
  <2>9. CASE CtrlCheckState
    <3>1. UNCHANGED <<er, msi, tasklet>> /\ pc["ctrl"] = "ev_none" /\ pc'["ctrl"] = "idle"
          /\ (pm_state' = pm_state \/ pm_state' = Tryset(pm_state, "SYS_ERR_DETECT"))
      BY <2>9, <1>g DEF CtrlCheckState, Proc
    <3>2. QED BY <2>p, <3>1, <1>n
  <2>10. QED BY <1>3, <2>1, <2>2, <2>3, <2>4, <2>5, <2>6, <2>7, <2>8, <2>9 DEF Ctrl
<1>4. CASE Intvec
  <2>1. /\ UNCHANGED <<dev, er, msi, tasklet>> /\ pc'["ctrl"] = pc["ctrl"] /\ pc'["power"] = pc["power"]
    BY <1>4, <1>g DEF Intvec, IntvecClaim, Proc
  <2>2. CASE dev = "SYS_ERR" /\ pm_state \in {"M0", "M2", "M3_ENTER", "POR", "M3_EXIT"}
    <3>1. pm_state \in RegAccessValid \ {"SYS_ERR_DETECT"}
      BY <2>2 DEF RegAccessValid, PmState, L0
    <3>2. pm_state' = "SYS_ERR_DETECT"
      BY <1>4, <2>2, <3>1, <1>t, Tries DEF Intvec, IntvecClaim, Alive
    <3>3. QED BY <2>1, <3>2
  <2>3. CASE ~(dev = "SYS_ERR" /\ pm_state \in {"M0", "M2", "M3_ENTER", "POR", "M3_EXIT"})
    <3>1. pm_state' \in {pm_state, "SYS_ERR_DETECT"}
      BY <1>4 DEF Intvec, IntvecClaim
    <3>2. QED BY <2>1, <2>3, <3>1
  <2>4. QED BY <2>2, <2>3
<1>5. CASE (IntvecThread /\ ~Intvec) \/ DebugReset
  <2>1. /\ UNCHANGED <<dev, er, msi, tasklet, intvec>> /\ pc'["ctrl"] = pc["ctrl"] /\ pc'["power"] = pc["power"]
        /\ pm_state' = pm_state \/ pm_state' = Tryset(pm_state, "SYS_ERR_DETECT")
    BY <1>5, <1>g DEF IntvecThread, IntvecNotify, DebugReset, Proc
  <2>2. QED BY <2>1, <1>n, <1>k
<1>6. CASE StWorker /\ ~RdySet("st", "st_item")
  <2>1. UNCHANGED <<pm_state, dev, er, msi, tasklet, intvec>> /\ pc'["ctrl"] = pc["ctrl"]
        /\ pc'["power"] = pc["power"]
    BY <1>6, <1>g DEF StWorker, StTake, StDone, StPbl, StSbl, StReady, StMissionMode, MmSync, MmEE,
       CreateDevices, DeviceAdd, ProbeSync, DriverBind, StItem, GetSync, ReadyTransition, RdyWait, RdyMmio, Proc
  <2>2. QED BY <2>1, <1>k
<1>7. CASE RdySet("st", "st_item")
  <2>1. Quiet
    BY <1>7 DEF RdySet, Under, ReadyLabels, HostInv, BootInv, Booted
  <2>2. UNCHANGED <<dev, er, msi, tasklet, intvec>> /\ pc'["ctrl"] = pc["ctrl"]
    BY <1>7, <1>g DEF RdySet, Proc
  <2>3. QED BY <2>1, <2>2 DEF Quiet
<1>8. CASE ReadyTransition("syserr", "dis_exit")
  <2>1. UNCHANGED <<dev, er, msi, tasklet, intvec>> /\ pc'["ctrl"] = pc["ctrl"] /\ pc'["power"] = pc["power"]
    BY <1>8, <1>g DEF ReadyTransition, RdyWait, RdySet, RdyMmio, Proc
  <2>2. er = <<>> /\ dev # "SYS_ERR"
    BY <1>8 DEF ReadyTransition, RdyWait, RdySet, RdyMmio, HostInv, ResetInv, ReadyLabels, AfterReset
  <2>3. QED BY <2>1, <2>2
<1>9. ASSUME NEW p \in {"syserr", "power"}, Disable(p), ~DisRings(p), ~DisDone(p)
      PROVE  LoudInv'
  <2>1. UNCHANGED <<dev, er, msi, tasklet, intvec>> /\ pc'["ctrl"] = pc["ctrl"]
    BY <1>9, <1>g DEF Disable, DisEnter, DisReset, DisWait, DisKill, DisDestroy, DisFlushReady, DisFlushSt,
       DisFlushed, Proc
  <2>2. pm_state' = pm_state \/ pm_state' \in {"SYS_ERR_PROCESS", "SHUTDOWN_PROCESS"}
    BY <1>9 DEF Disable, DisEnter, DisReset, DisWait, DisKill, DisDestroy, DisFlushReady, DisFlushSt,
       DisFlushed, Target
  <2>3. pc'["power"] = "on" => pc["power"] = "on"
    BY <1>9, <1>g DEF Disable, DisEnter, DisReset, DisWait, DisKill, DisDestroy, DisFlushReady, DisFlushSt,
       DisFlushed, AfterDisable, Proc
  <2>4. QED BY <2>1, <2>2, <2>3, <1>k
<1>10. ASSUME NEW p \in {"syserr", "power"}, DisRings(p) PROVE LoudInv'
  <2>1. er' = <<>> /\ pm_state' = pm_state /\ dev' = dev
    BY <1>10 DEF DisRings
  <2>2. pm_state \in Down
    BY <1>10 DEF DisRings, HostInv, ResetInv, PowerInv, AfterReset, Draining, Down
  <2>3. QED BY <2>1, <2>2 DEF Down
<1>11. CASE DisDone("syserr")
  <2>1. UNCHANGED <<dev, er>> /\ er = <<>> /\ dev # "SYS_ERR"
    BY <1>11 DEF DisDone, HostInv, ResetInv, AfterReset, Draining
  <2>2. QED BY <2>1
<1>12. CASE DisDone("power") \/ PdFatal \/ PdFree
  <2>1. pc'["power"] # "on"
    BY <1>12, <1>g DEF DisDone, PdFatal, PdFree, Proc
  <2>2. QED BY <2>1
<1>13. CASE PowerUp
  <2>1. Quiet
    BY <1>13 DEF PowerUp, HostInv, BootInv
  <2>2. UNCHANGED <<dev, er>>
    BY <1>13 DEF PowerUp
  <2>3. QED BY <2>1, <2>2 DEF Quiet
<1>14. CASE Rpm
  <2>1. /\ UNCHANGED <<dev, er, msi, tasklet, intvec>> /\ pc'["ctrl"] = pc["ctrl"] /\ pc'["power"] = pc["power"]
    BY <1>14, <1>g DEF Rpm, SuspendStart, SuspendM0, SuspendEnter, SuspendM3, ResumeStart, ResumeAssert, ResumeExit,
       ResumeM0, ResumeClaim, ResumeNotify, ResumeFail, SuspendFail, IntvecClaim,
       IntvecNotify, RpmUnchanged, Proc
  <2>2. \/ pm_state' = pm_state
        \/ pm_state' = Tryset(pm_state, "SYS_ERR_DETECT")
        \/ pm_state = "M0" /\ pm_state' = "M3_ENTER"
        \/ pm_state = "M3" /\ pm_state' = "M3_EXIT"
    <3>1. SuspendEnter \/ ResumeExit \/ ~(SuspendEnter \/ ResumeExit)
      OBVIOUS
    <3>2. CASE SuspendEnter \/ ResumeExit
      BY <3>2, <1>t, Tries DEF SuspendEnter, ResumeExit
    <3>3. CASE ~(SuspendEnter \/ ResumeExit)
      BY <1>14, <3>3 DEF Rpm, SuspendStart, SuspendM0, SuspendM3, ResumeStart, ResumeAssert,
         ResumeM0, ResumeClaim, ResumeNotify, ResumeFail, IntvecClaim, IntvecNotify
    <3>4. QED BY <3>2, <3>3
  <2>3. CASE pm_state = "M0" /\ pm_state' = "M3_ENTER"
    BY <2>1, <2>3
  <2>4. CASE pm_state = "M3" /\ pm_state' = "M3_EXIT"
    BY <2>1, <2>4 DEF EventInv, Alive, States
  <2>5. QED BY <2>1, <2>2, <2>3, <2>4, <1>n, <1>k
<1>15. CASE PowerUpSysErr \/ PowerUpPoll \/ PowerUpReset
  BY <1>15, ProbeQuiet, <1>k DEF HostInv, Proc
<1>16. QED
  BY <1>1, <1>2, <1>3, <1>4, <1>5, <1>6, <1>7, <1>8, <1>9, <1>10, <1>11, <1>12, <1>13, <1>14, <1>15
     DEF Next, StWorker, SysErrWorker, Power, ReadyTransition, Disable, IntvecThread

\* While every answer is in time, only the thread that suspends and resumes is in a sleep state.
OwnedInv ==
  budget.late = Lates =>
    /\ rpm = "active" => pm_state \notin {"M3_ENTER", "M3", "M3_EXIT"}
    /\ pc["rpm"] \in {"sus_m0", "sus_enter"} => pm_state \notin {"M3_ENTER", "M3", "M3_EXIT"}

\* At first nobody sleeps.
LEMMA OwnedStarts == Init => OwnedInv
  BY DEF Init, OwnedInv, Proc

\* A modem told to sleep has not answered yet: then the answer is under way.
LEMMA SleepAnswered ==
  ASSUME pc["rpm"] = "sus_m3", dev_state # "M3", pm_state \notin InErrorState,
         LoudInv, EventInv, SleepInv, HostInv
  PROVE  Answering
<1> USE DEF At
<1>1. pm_state = "M3_ENTER" /\ pc["power"] = "on"
  BY DEF SleepInv, EventInv, Alive, InErrorState, L1
<1>2. er # <<>> => Answering
  BY <1>1 DEF LoudInv, Answering
<1>3. \A x : Told(x) => er # <<>>
  BY HoldsNone DEF Told
<1>4. CASE dev \in {"M0", "M1"}
  BY <1>1, <1>4 DEF EventInv, Alive, Answering, EntersM3
<1>5. CASE dev = "M3"
  BY <1>1, <1>2, <1>3, <1>5 DEF EventInv, Alive
<1>6. CASE dev = "SYS_ERR"
  BY <1>1, <1>2, <1>3, <1>6 DEF LoudInv, Answering
<1>7. QED BY <1>1, <1>4, <1>5, <1>6 DEF EventInv, Alive

\* Every step in time leaves the sleep states to their owner.
LEMMA OwnedStays ==
  ASSUME OwnedInv, LoudInv, EventInv, SleepInv, SleepInv', HostInv, [Next]_vars
  PROVE  OwnedInv'
<1> USE DEF host, irqs, works, qti, modem, At
<1>t. /\ pc \in [Proc -> UNION {Labels[p] : p \in Proc}] /\ pm_state \in PmState
      /\ pc["rpm"] \in Labels["rpm"]
      /\ budget \in [{"syserr", "idle", "suspend", "late"} -> Nat]
      /\ Lates \in Nat
  BY ConstantsAssumption DEF HostInv, WellFormed, TypeOK, PcOK, Proc
<1>g. \A p \in Proc : \A l : Goto(p, l) => /\ pc'[p] = l
                                           /\ \A q \in Proc \ {p} : pc'[q] = pc[q]
  BY <1>t DEF Goto
\* A wait that expires on an answer under way is the late one.
<1>l. Expires /\ Answering => budget'.late < Lates
  BY <1>t DEF Expires, Spend, SleepInv
<1>m. Expires => budget'.late <= budget.late
  BY <1>t DEF Expires, Spend
<1>w. \A w \in {"syserr", "idle", "suspend", "late"} : Spend(w) => budget'.late <= budget.late
  BY <1>t DEF Spend
<1>b. budget'.late = Lates => budget.late = Lates
  <2>2. budget'.late <= budget.late
    BY BudgetSpent, <1>m, <1>w, <1>t
  <2>3. QED BY <2>2, <1>t DEF SleepInv
<1> SUFFICES ASSUME budget'.late = Lates, budget.late = Lates
             PROVE  /\ rpm' = "active" => pm_state' \notin {"M3_ENTER", "M3", "M3_EXIT"}
                    /\ pc'["rpm"] \in {"sus_m0", "sus_enter"} => pm_state' \notin {"M3_ENTER", "M3", "M3_EXIT"}
  BY <1>b DEF OwnedInv
<1>o. /\ rpm = "active" => pm_state \notin {"M3_ENTER", "M3", "M3_EXIT"}
      /\ pc["rpm"] \in {"sus_m0", "sus_enter"} => pm_state \notin {"M3_ENTER", "M3", "M3_EXIT"}
  BY DEF OwnedInv
<1>1. CASE ~Rpm
  <2>1. rpm' = rpm /\ pc'["rpm"] = pc["rpm"]
    BY <1>1, OthersLeaveRpm DEF HostInv
  <2>2. \/ pm_state' = pm_state
        \/ pm_state' = "POR"
        \/ \E t \in {"M0", "M2", "M3", "SYS_ERR_DETECT", "SYS_ERR_PROCESS", "SHUTDOWN_PROCESS",
                     "LD_ERR_FATAL_DETECT", "DISABLE", "POR"} : pm_state' = Tryset(pm_state, t)
    BY <1>1 DEF vars, Next, Modem, ModemBoot, ModemReset, ModemM0, ModemIdle, ModemM2, ModemM3,
       ModemSysErr, ModemRddm, Ctrl, MsiHandlr, CtrlEvTask, M0Event, M1Event, M3Event, SysErrEvent,
       EEEvent, CtrlDrained, CtrlCheckState, CtrlEvent, IntvecThread, Intvec, IntvecClaim, IntvecNotify,
       StWorker, StTake, StDone, StPbl, StSbl, StReady, StMissionMode, MmSync, MmEE, CreateDevices,
       DeviceAdd, ProbeSync, DriverBind, StItem, ReadyTransition, RdyWait, RdySet, RdyMmio, ReadyWorker,
       SysErrWorker, SysErrStart, DisExit, Disable, DisEnter, DisReset, DisWait, DisKill, DisDestroy,
       DisFlushReady, DisFlushSt, DisFlushed, DisRings, DisDone, Target, Power, PowerUpSysErr, PowerUpPoll, PowerUpReset, PowerWrites, PowerUp, RemoveStart, PdFatal,
       PdFree, DebugReset
  <2>3. pm_state \notin {"M3_ENTER", "M3", "M3_EXIT"} => pm_state' \notin {"M3_ENTER", "M3", "M3_EXIT"}
    BY <2>2, <1>t, Tries DEF Tryset
  <2>4. QED BY <2>1, <2>3, <1>o
<1>2. CASE SuspendStart
  BY <1>2, <1>g, <1>o DEF SuspendStart, Proc
<1>3. CASE SuspendM0
  BY <1>3, <1>g, <1>o DEF SuspendM0, SuspendFail, RpmUnchanged, Proc
<1>4. CASE SuspendEnter
  <2>1. pm_state' = "M3_ENTER" \/ pm_state' = pm_state
    BY <1>4 DEF SuspendEnter, Tryset
  <2>2. QED BY <1>4, <2>1, <1>g, <1>o DEF SuspendEnter, SuspendFail, RpmUnchanged, SleepInv, Proc
<1>5. CASE SuspendM3
  <2>1. pm_state' = pm_state /\ pc'["rpm"] = "idle"
    BY <1>5, <1>g DEF SuspendM3, SuspendFail, Proc
  <2>2. \/ rpm' = "suspended"
        \/ pm_state \in InErrorState
        \/ dev_state # "M3" /\ pm_state \notin InErrorState /\ Expires
    BY <1>5 DEF SuspendM3
  <2>3. CASE dev_state # "M3" /\ pm_state \notin InErrorState /\ Expires
    <3>1. Answering
      BY <1>5, <2>3, SleepAnswered DEF SuspendM3
    <3>2. QED BY <2>3, <3>1, <1>l, <1>t
  <2>4. pm_state \in InErrorState => pm_state \notin {"M3_ENTER", "M3", "M3_EXIT"}
    BY DEF InErrorState, L1, L2, L3
  <2>5. QED BY <2>1, <2>2, <2>3, <2>4
<1>6. CASE ResumeM0
  <2>1. dev_state = "M0" /\ pm_state \notin InErrorState => pm_state \notin {"M3_ENTER", "M3", "M3_EXIT"}
    BY <1>6 DEF ResumeM0, SleepInv, EventInv, Alive
  <2>2. QED BY <1>6, <2>1, <1>g DEF ResumeM0, RpmUnchanged, SleepInv, Proc
<1>7. CASE Rpm /\ ~SuspendStart /\ ~SuspendM0 /\ ~SuspendEnter /\ ~SuspendM3 /\ ~ResumeM0
  <2>1. rpm' \in {"resuming", "error"} /\ pc'["rpm"] \notin {"sus_m0", "sus_enter"}
    BY <1>7, <1>g DEF Rpm, ResumeStart, ResumeAssert, ResumeExit, ResumeClaim, ResumeNotify, ResumeFail,
       IntvecClaim, IntvecNotify, RpmUnchanged, SleepInv, Proc
  <2>2. QED BY <2>1
<1>8. QED BY <1>1, <1>2, <1>3, <1>4, <1>5, <1>6, <1>7 DEF Rpm

SleepAgreed == HostInv /\ LoaderInv /\ SleepInv /\ EventInv /\ LoudInv /\ OwnedInv

\* All that suspend and resume rely on is an invariant.
LEMMA SleepHolds == ASSUME ~EarlyCrash PROVE Spec => []SleepAgreed
<1>1. Init => LoaderInv /\ SleepInv /\ EventInv /\ LoudInv /\ OwnedInv
  BY LoaderStarts, SleepStarts, EventStarts, LoudStarts, OwnedStarts
<1>2. ASSUME HostInv, HostInv', LoaderInv, SleepInv, EventInv, LoudInv, OwnedInv, [Next]_vars
      PROVE  LoaderInv' /\ SleepInv' /\ EventInv' /\ LoudInv' /\ OwnedInv'
  <2>1. WellFormed /\ WellFormed'
    BY <1>2 DEF HostInv
  <2>2. LoaderInv' /\ EventInv' /\ LoudInv'
    BY <1>2, <2>1, LoaderStays, EventStays, LoudStays
  <2>3. SleepInv'
    BY <1>2, <2>1, SleepStays
  <2>4. OwnedInv'
    BY <1>2, <2>3, OwnedStays
  <2>5. QED BY <2>2, <2>3, <2>4
<1>3. Spec => []HostInv
  BY HostHolds
<1>4. QED BY <1>1, <1>2, <1>3, PTL DEF Spec, SleepAgreed

(* Host, modem and kernel agree on who sleeps.  The MHI_ASSERT of          *)
(* mhi_pm_resume holds; the kernel cuts the link only to a modem that      *)
(* sleeps or has failed, and nothing that was under way when it did moves  *)
(* the host out of M3; and unless an answer comes too late, mhi_pm_suspend *)
(* gives up only in an error state, so that a device the kernel believes   *)
(* to be active is never left in a sleep state.                            *)
THEOREM SleepIsAgreed == ASSUME ~EarlyCrash PROVE Spec => []M3Agreed
<1>1. SleepAgreed => M3Agreed
  BY DEF SleepAgreed, SleepInv, EventInv, OwnedInv, Alive, M3Agreed, AssertM3, AsleepTogether, M3StateOwned, At
<1>2. QED BY <1>1, SleepHolds, PTL
=============================================================================

------------------------------- MODULE MhiPm -------------------------------
(***************************************************************************)
(* Power management of the PCIe MHI modem driver: the controller's         *)
(* pm_state, dev_state and ee, and everybody who moves them:               *)
(*                                                                         *)
(*   ctrl    tasklet of the control event ring     (mhi_ctrl_ev_task)      *)
(*   intvec  threaded BHI interrupt      (mhi_intvec_threaded_handlr)      *)
(*   st      work item that drains transition_list      (mhi_pm_st_worker) *)
(*   ready   delayed work that polls the boot stage  (mhi_pm_ready_worker) *)
(*   syserr  work item that resets a failed device (mhi_pm_sys_err_worker) *)
(*   power   probe and removal of the PCI device                           *)
(*   rpm     runtime suspend and resume of the PCI device                  *)
(*   the modem itself, known by how the driver uses it.                    *)
(*                                                                         *)
(* A section under the write side of pm_lock is one step.  pm_mutex is     *)
(* held across steps.  wait_event_timeout either sees its condition or     *)
(* times out.                                                              *)
(***************************************************************************)
EXTENDS PmStates, Naturals, Sequences

CONSTANTS
  FirstEE,      \* boot stages the modem may be in when the driver probes it
  ResetEE,      \* boot stages a reset may leave it in
  SysErrs,      \* how many times the modem fails
  EarlyCrash,   \* may it fail before it first reaches M0?
  Idles,        \* how many times it asks for M2
  Suspends,     \* how many times the kernel suspends it
  Lates,        \* how many waits expire although an answer is under way
  Removable     \* boot stages of the modem in which the driver may be unbound

ASSUME ConstantsAssumption ==
  /\ FirstEE \subseteq {"PTHRU", "EDL", "SBL", "AMSS"}
  /\ ResetEE \subseteq {"PTHRU", "EDL", "AMSS"}
  /\ {SysErrs, Idles, Suspends, Lates} \subseteq Nat
  /\ EarlyCrash \in BOOLEAN

ASSUME RemovableAssumption == Removable \subseteq EE

Proc == {"ctrl", "intvec", "st", "ready", "syserr", "power", "rpm"}
NoProc == "none"

VARIABLES
  pm_state, dev_state, ee,      \* struct mhi_controller, under pm_lock
  pm_mutex,                     \* its holder
  pc,                           \* where each process is
  er, msi, tasklet,             \* unread control events; MSI raised; task scheduled
  intvec, iv_ee,                \* BHI interrupt raised; ee its handler read
  transition_list, st_items,    \* queued transitions; the ones st_worker took
  work,                         \* which work items are queued
  barrier,                      \* run of st_worker that each flush_work waits for
  devices,                      \* the client device of the AMSS channels
  ctxt,                         \* are mhi_ctxt and the interrupts allocated?
  powered_on, rpm, fatal,       \* mhi_qti: on; runtime status; fatal error reported
  dev, dev_ee, dev_ready,       \* MHISTATUS, BHI_EXECENV of the modem
  mhictrl, wake,                \* unserved request in MHICTRL; wake doorbell rung
  budget                        \* what the environment may still do

host == <<pm_state, dev_state, ee>>
irqs == <<er, msi, tasklet, intvec, iv_ee>>
works == <<transition_list, st_items, work, barrier>>
qti == <<devices, ctxt, powered_on, rpm, fatal>>
modem == <<dev, dev_ee, dev_ready, mhictrl, wake>>
vars == <<host, pm_mutex, pc, irqs, works, qti, modem, budget>>

Work == {"st", "ready", "syserr"}
Events == [type: {"STATE"}, val: {"M0", "M1", "M3", "SYS_ERR"}]
            \cup [type: {"EE"}, val: {"SBL", "AMSS", "RDDM"}]
Transitions == {"PBL", "SBL", "MISSION_MODE", "READY"}
DevState == {"RESET", "READY", "M0", "M1", "M2", "M3", "SYS_ERR"}

\* Labels of the code two processes share.
DisableLabels == {"dis_enter", "dis_reset", "dis_wait", "dis_kill", "dis_destroy",
                  "dis_flush_ready", "dis_flush_st", "dis_flushing", "dis_rings", "dis_done"}
ReadyLabels == {"rdy_wait", "rdy_set", "rdy_mmio"}
PowerUpLabels == {"idle", "pu_poll", "pu_reset", "pu_init"}
Labels ==
  [ctrl   |-> {"idle", "ev_first", "ev_more", "ev_none"},
   intvec |-> {"idle", "iv_notify"},
   st     |-> {"idle", "st_item", "mm_sync", "mm_ee", "create", "add", "probe", "bind"} \cup ReadyLabels,
   ready  |-> {"idle"},
   syserr |-> {"idle", "dis_exit"} \cup DisableLabels \cup ReadyLabels,
   power  |-> {"on", "pd_fatal", "pd_free", "gone"} \cup PowerUpLabels \cup DisableLabels,
   rpm    |-> {"idle", "sus_m0", "sus_enter", "sus_m3", "res_assert", "res_exit", "res_m0",
               "iv_claim", "iv_notify", "res_fail"}]

PcOK == /\ pc \in [Proc -> UNION {Labels[p] : p \in Proc}]
        /\ \A p \in Proc : pc[p] \in Labels[p]

Flags == /\ msi \in BOOLEAN /\ tasklet \in BOOLEAN /\ intvec \in BOOLEAN
         /\ ctxt \in BOOLEAN /\ powered_on \in BOOLEAN /\ fatal \in BOOLEAN
         /\ dev_ready \in BOOLEAN /\ wake \in BOOLEAN

TypeOK ==
  /\ pm_state \in PmState
  /\ dev_state \in DevState
  /\ ee \in EE
  /\ pm_mutex \in {NoProc, "syserr", "power", "rpm"}
  /\ PcOK
  /\ er \in Seq(Events)
  /\ iv_ee \in [{"intvec", "rpm"} -> EE]
  /\ transition_list \in Seq(Transitions) /\ st_items \in Seq(Transitions)
  /\ work \in SUBSET Work
  /\ barrier \in [{"syserr", "power"} -> {"none", "next", "this"}]
  /\ devices \in {"none", "unbound", "bound"}
  /\ rpm \in {"active", "suspending", "suspended", "resuming", "error"}
  /\ dev \in DevState /\ dev_ee \in EE /\ (dev = "READY" => dev_ee \in {"SBL", "AMSS"})
  /\ mhictrl \in {"none", "RESET", "M0", "M2", "M3"}
  /\ Flags
  /\ budget \in [{"syserr", "idle", "suspend", "late"} -> Nat]

-----------------------------------------------------------------------------
Goto(p, l) == pc' = [pc EXCEPT ![p] = l]
At(p, l) == pc[p] = l
Spend(what) == /\ budget[what] > 0
               /\ budget' = [budget EXCEPT ![what] = @ - 1]

\* mhi_queue_state_transition
Queue(t) == /\ transition_list' = Append(transition_list, t)
            /\ work' = work \cup {"st"}

\* What the modem is about to do ...
Booting == dev_ee \in {"PTHRU", "SBL"} /\ dev \in {"RESET", "READY", "M0", "M1"} /\ mhictrl # "RESET"
EntersM0 == \/ mhictrl = "M0" /\ dev \in {"READY", "M3"}
            \/ wake /\ dev = "M2" /\ mhictrl # "RESET"
EntersM2 == mhictrl = "M2" /\ dev = "M1"
EntersM3 == mhictrl = "M3" /\ dev \in {"M0", "M1", "M2"}

\* ... and whether something is on its way to the host.
Answering ==
  \/ mhictrl = "RESET" \/ Booting \/ EntersM0 \/ EntersM2 \/ EntersM3
  \/ msi \/ tasklet \/ intvec \/ pc["ctrl"] # "idle" \/ pc["intvec"] # "idle"

\* A wait expires: no answer will come, or it comes too late.
Expires == \/ ~Answering /\ UNCHANGED budget
           \/ Answering /\ Spend("late")

Init ==
  /\ pm_state = "DISABLE" /\ dev_state = "RESET" /\ ee = "MAX"
  /\ pm_mutex = NoProc
  /\ pc = [p \in Proc |-> "idle"]
  /\ er = <<>> /\ msi = FALSE /\ tasklet = FALSE /\ intvec = FALSE
  /\ iv_ee = [p \in {"intvec", "rpm"} |-> "MAX"]
  /\ transition_list = <<>> /\ st_items = <<>> /\ work = {}
  /\ barrier = [p \in {"syserr", "power"} |-> "none"]
  /\ devices = "none" /\ ctxt = FALSE /\ powered_on = FALSE
  /\ rpm = "active" /\ fatal = FALSE
  /\ dev_ee \in FirstEE
  /\ dev = IF dev_ee \in InPbl THEN "RESET" ELSE "READY"
  /\ dev_ready = (dev_ee \notin InPbl)
  /\ mhictrl = "none" /\ wake = FALSE
  /\ budget = [syserr |-> SysErrs, idle |-> Idles, suspend |-> Suspends, late |-> Lates]

-----------------------------------------------------------------------------
(* The modem (external).                                                   *)

Post(ev) == er' = Append(er, ev) /\ msi' = TRUE

\* Boot goes on: pass-through, secondary loader, mission mode.
ModemBoot ==
  /\ Booting
  /\ \/ dev_ee = "PTHRU" /\ dev_ee' \in {"SBL", "AMSS"} /\ dev' = "READY" /\ dev_ready' = TRUE
     \/ dev_ee = "SBL" /\ dev_ee' = "AMSS" /\ UNCHANGED <<dev, dev_ready>>
  /\ IF dev \in {"M0", "M1"}
       THEN Post([type |-> "EE", val |-> dev_ee'])
       ELSE UNCHANGED <<er, msi>>
  /\ UNCHANGED <<host, pm_mutex, pc, tasklet, intvec, iv_ee, works, qti, mhictrl, wake, budget>>

\* A reset takes effect; the modem comes up ready, or stuck in a boot loader.
ModemReset ==
  /\ mhictrl = "RESET" /\ mhictrl' = "none" /\ wake' = FALSE
  /\ dev_ee' \in ResetEE
  /\ dev_ready' = (dev_ee' = "AMSS")
  /\ dev' = IF dev_ready' THEN "READY" ELSE "RESET"
  /\ UNCHANGED <<host, pm_mutex, pc, irqs, works, qti, budget>>

\* The modem reaches M0 as asked, and reports its stage when it leaves READY.
ModemM0 ==
  /\ EntersM0
  /\ dev' = "M0" /\ mhictrl' = "none" /\ wake' = FALSE
  /\ LET m0 == Append(er, [type |-> "STATE", val |-> "M0"])
     IN  er' = IF dev = "READY" THEN Append(m0, [type |-> "EE", val |-> dev_ee]) ELSE m0
  /\ msi' = TRUE
  /\ UNCHANGED <<host, pm_mutex, pc, tasklet, intvec, iv_ee, works, qti, dev_ee, dev_ready, budget>>

\* It has nothing to do and asks for M2 with an M1 event.
ModemIdle ==
  /\ dev = "M0" /\ dev_ee = "AMSS" /\ mhictrl = "none" /\ ~wake /\ Spend("idle")
  /\ dev' = "M1" /\ Post([type |-> "STATE", val |-> "M1"])
  /\ UNCHANGED <<host, pm_mutex, pc, tasklet, intvec, iv_ee, works, qti, dev_ee, dev_ready, mhictrl, wake>>

ModemM2 ==
  /\ EntersM2
  /\ dev' = "M2" /\ mhictrl' = "none"
  /\ UNCHANGED <<host, pm_mutex, pc, irqs, works, qti, dev_ee, dev_ready, wake, budget>>

ModemM3 ==
  /\ EntersM3
  /\ dev' = "M3" /\ mhictrl' = "none"
  /\ Post([type |-> "STATE", val |-> "M3"])
  /\ UNCHANGED <<host, pm_mutex, pc, tasklet, intvec, iv_ee, works, qti, dev_ee, dev_ready, wake, budget>>

\* It crashes, and says so by an event, by the BHI interrupt, or not at all while asleep; the
\* interrupt has a handler, and a vector in BHI_INTVEC, from power-up until it is freed.
ModemSysErr ==
  /\ dev # "SYS_ERR" /\ dev_ee # "EDL" /\ mhictrl # "RESET" /\ Spend("syserr")
  /\ wake' = FALSE
  /\ EarlyCrash \/ dev \notin {"RESET", "READY"}
  /\ dev' = "SYS_ERR" /\ mhictrl' = "none"
  /\ \/ dev \in {"M0", "M1"} /\ Post([type |-> "STATE", val |-> "SYS_ERR"])
        /\ UNCHANGED <<intvec, dev_ee>>
     \/ dev # "M3" /\ intvec' = (intvec \/ ctxt) /\ dev_ee' \in {dev_ee, "RDDM"} /\ UNCHANGED <<er, msi>>
     \/ dev = "M3" /\ UNCHANGED <<intvec, dev_ee, er, msi>>
  /\ UNCHANGED <<host, pm_mutex, pc, tasklet, iv_ee, works, qti, dev_ready>>

\* A crashed modem enters its ram-dump stage.
ModemRddm ==
  /\ dev = "SYS_ERR" /\ dev_ee = "AMSS" /\ rpm # "suspended"
  /\ dev_ee' = "RDDM"
  /\ IF ctxt THEN Post([type |-> "EE", val |-> "RDDM"]) ELSE UNCHANGED <<er, msi>>
  /\ UNCHANGED <<host, pm_mutex, pc, tasklet, intvec, iv_ee, works, qti, dev, dev_ready, mhictrl, wake, budget>>

Modem == ModemBoot \/ ModemReset \/ ModemM0 \/ ModemIdle \/ ModemM2 \/ ModemM3
           \/ ModemSysErr \/ ModemRddm

-----------------------------------------------------------------------------
(* Interrupts and the control event ring.                                  *)

\* mhi_msi_handlr: schedule the task if the ring holds an event.
MsiHandlr ==
  /\ msi /\ msi' = FALSE
  /\ tasklet' = (tasklet \/ er # <<>>)
  /\ UNCHANGED <<host, pm_mutex, pc, er, intvec, iv_ee, works, qti, modem, budget>>

\* Mutant: the ring is entered although events are not to be processed.
CtrlEvTask_RegistersOnly ==
  /\ tasklet /\ At("ctrl", "idle")
  /\ tasklet' = FALSE
  /\ IF pm_state \in RegAccessValid THEN Goto("ctrl", "ev_first") ELSE UNCHANGED pc
  /\ UNCHANGED <<host, pm_mutex, er, msi, intvec, iv_ee, works, qti, modem, budget>>

\* mhi_ctrl_ev_task: enter the ring unless registers or events are off limits.
CtrlEvTask ==
  /\ tasklet /\ At("ctrl", "idle")
  /\ tasklet' = FALSE
  /\ IF pm_state \in RegAccessValid \ EventAccessInvalid
       THEN Goto("ctrl", "ev_first")
       ELSE UNCHANGED pc
  /\ UNCHANGED <<host, pm_mutex, er, msi, intvec, iv_ee, works, qti, modem, budget>>

\* mhi_process_ctrl_ev_ring, one event.
CtrlEvent(type, val) ==
  /\ pc["ctrl"] \in {"ev_first", "ev_more"}
  /\ er # <<>> /\ Head(er) = [type |-> type, val |-> val]
  /\ er' = Tail(er)
  /\ Goto("ctrl", "ev_more")
  /\ UNCHANGED <<pm_mutex, msi, tasklet, intvec, iv_ee, st_items, barrier, qti, dev, dev_ee, dev_ready, wake, budget>>

\* mhi_pm_m0_transition
M0Event ==
  /\ CtrlEvent("STATE", "M0")
  /\ dev_state' = "M0" /\ pm_state' = Tryset(pm_state, "M0")
  /\ UNCHANGED <<ee, transition_list, work, mhictrl>>

\* Mutant: MHICTRL is written whatever mhi_tryset_pm_state answered.
M1Event_Unchecked ==
  /\ CtrlEvent("STATE", "M1")
  /\ pm_state' = Tryset(pm_state, "M2") /\ dev_state' = "M2" /\ mhictrl' = "M2"
  /\ UNCHANGED <<ee, transition_list, work>>

\* mhi_pm_m1_transition: allow M2 unless the host left M0 meanwhile.
M1Event ==
  /\ CtrlEvent("STATE", "M1")
  /\ pm_state' = Tryset(pm_state, "M2")
  /\ IF pm_state' = "M2"
       THEN dev_state' = "M2" /\ mhictrl' = "M2"
       ELSE UNCHANGED <<dev_state, mhictrl>>
  /\ UNCHANGED <<ee, transition_list, work>>

\* mhi_pm_m3_transition
M3Event ==
  /\ CtrlEvent("STATE", "M3")
  /\ dev_state' = "M3" /\ pm_state' = Tryset(pm_state, "M3")
  /\ UNCHANGED <<ee, transition_list, work, mhictrl>>

\* Mutant: the failure is noted and nobody is told to handle it.
SysErrEvent_Unscheduled ==
  /\ CtrlEvent("STATE", "SYS_ERR")
  /\ pm_state' = Tryset(pm_state, "SYS_ERR_DETECT")
  /\ UNCHANGED <<dev_state, ee, transition_list, work, mhictrl>>

SysErrEvent ==
  /\ CtrlEvent("STATE", "SYS_ERR")
  /\ pm_state' = Tryset(pm_state, "SYS_ERR_DETECT")
  /\ work' = IF pm_state' = "SYS_ERR_DETECT" THEN work \cup {"syserr"} ELSE work
  /\ UNCHANGED <<dev_state, ee, transition_list, mhictrl>>

\* SBL and mission mode are handed to the state worker, the ram dump is noted at once.
EEEvent ==
  \/ /\ CtrlEvent("EE", "SBL") /\ Queue("SBL")
     /\ UNCHANGED <<host, mhictrl>>
  \/ /\ CtrlEvent("EE", "AMSS") /\ Queue("MISSION_MODE")
     /\ UNCHANGED <<host, mhictrl>>
  \/ /\ CtrlEvent("EE", "RDDM") /\ ee' = "RDDM"
     /\ UNCHANGED <<pm_state, dev_state, transition_list, work, mhictrl>>

\* The ring is drained; an interrupt that brought no event may mean SYS_ERR.
CtrlDrained ==
  /\ pc["ctrl"] \in {"ev_first", "ev_more"} /\ er = <<>>
  /\ Goto("ctrl", IF At("ctrl", "ev_first") THEN "ev_none" ELSE "idle")
  /\ UNCHANGED <<host, pm_mutex, irqs, works, qti, modem, budget>>

CtrlCheckState ==
  /\ At("ctrl", "ev_none") /\ Goto("ctrl", "idle")
  /\ IF dev = "SYS_ERR"
       THEN /\ pm_state' = Tryset(pm_state, "SYS_ERR_DETECT")
            /\ work' = IF pm_state' = "SYS_ERR_DETECT" THEN work \cup {"syserr"} ELSE work
       ELSE UNCHANGED <<pm_state, work>>
  /\ UNCHANGED <<dev_state, ee, pm_mutex, irqs, transition_list, st_items, barrier, qti, modem, budget>>

Ctrl == MsiHandlr \/ CtrlEvTask \/ M0Event \/ M1Event \/ M3Event \/ SysErrEvent
          \/ EEEvent \/ CtrlDrained \/ CtrlCheckState

\* Mutant: the state is assigned, not tried.
IntvecClaim_Forced(p, done) ==
  /\ IF pm_state \in RegAccessValid \ {"SYS_ERR_DETECT"} /\ dev = "SYS_ERR"
       THEN pm_state' = "SYS_ERR_DETECT" /\ iv_ee' = [iv_ee EXCEPT ![p] = dev_ee] /\ Goto(p, "iv_notify")
       ELSE UNCHANGED <<pm_state, iv_ee>> /\ Goto(p, done)
  /\ UNCHANGED <<dev_state, ee, pm_mutex, er, msi, tasklet, works, qti, modem, budget>>

\* mhi_intvec_threaded_handlr, run by the interrupt thread or inside a failed resume:
\* a crash is claimed under the lock, once, ...
IntvecClaim(p, done) ==
  /\ IF /\ pm_state \in RegAccessValid \ {"SYS_ERR_DETECT"}
        /\ dev = "SYS_ERR"
        /\ Tryset(pm_state, "SYS_ERR_DETECT") = "SYS_ERR_DETECT"
       THEN pm_state' = "SYS_ERR_DETECT" /\ iv_ee' = [iv_ee EXCEPT ![p] = dev_ee] /\ Goto(p, "iv_notify")
       ELSE UNCHANGED <<pm_state, iv_ee>> /\ Goto(p, done)
  /\ UNCHANGED <<dev_state, ee, pm_mutex, er, msi, tasklet, works, qti, modem, budget>>

Intvec == /\ intvec /\ At("intvec", "idle") /\ intvec' = FALSE
          /\ IntvecClaim("intvec", "idle")

\* ... and then reset the modem, or leave a fatal error to the controller driver.
IntvecNotify(p) ==
  /\ At(p, "iv_notify")
  /\ IF ee = iv_ee[p] /\ ee \in InPbl
       THEN fatal' = TRUE /\ UNCHANGED work
       ELSE work' = work \cup {"syserr"} /\ UNCHANGED fatal
  /\ UNCHANGED <<host, irqs, transition_list, st_items, barrier, devices, ctxt, powered_on, modem, budget>>

IntvecThread ==
  \/ Intvec
  \/ IntvecNotify("intvec") /\ Goto("intvec", "idle") /\ UNCHANGED <<pm_mutex, rpm>>

-----------------------------------------------------------------------------
(* mhi_ready_state_transition, run by the state worker or, with pm_mutex   *)
(* held, by the error worker.  ret is where the caller goes on.            *)

RdyWait(p, ret) ==
  /\ At(p, "rdy_wait")
  /\ \/ pm_state \in InFatalState /\ Goto(p, ret) /\ UNCHANGED budget
     \/ mhictrl # "RESET" /\ dev_ready /\ Goto(p, "rdy_set") /\ UNCHANGED budget
     \/ (mhictrl = "RESET" \/ ~dev_ready) /\ Expires /\ Goto(p, ret)
  /\ UNCHANGED <<host, pm_mutex, irqs, works, qti, modem>>

RdySet(p, ret) ==
  /\ At(p, "rdy_set")
  /\ pm_state' = Tryset(pm_state, "POR") /\ dev_state' = "READY"
  /\ Goto(p, IF pm_state' = "POR" THEN "rdy_mmio" ELSE ret)
  /\ UNCHANGED <<ee, pm_mutex, irqs, works, qti, modem, budget>>

\* Event rings are programmed and the modem is sent to M0, unless the link died.
RdyMmio(p, ret) ==
  /\ At(p, "rdy_mmio") /\ Goto(p, ret)
  /\ mhictrl' = IF pm_state \in RegAccessValid THEN "M0" ELSE mhictrl
  /\ UNCHANGED <<host, pm_mutex, irqs, works, qti, dev, dev_ee, dev_ready, wake, budget>>

ReadyTransition(p, ret) == RdyWait(p, ret) \/ RdySet(p, ret) \/ RdyMmio(p, ret)

-----------------------------------------------------------------------------
(* The state worker.                                                       *)

\* mhi_pm_st_worker takes the whole list.
StTake ==
  /\ At("st", "idle") /\ "st" \in work
  /\ work' = work \ {"st"}
  /\ st_items' = transition_list /\ transition_list' = <<>>
  /\ barrier' = [p \in DOMAIN barrier |-> IF barrier[p] = "next" THEN "this" ELSE barrier[p]]
  /\ Goto("st", "st_item")
  /\ UNCHANGED <<host, pm_mutex, irqs, qti, modem, budget>>

StDone ==
  /\ At("st", "st_item") /\ st_items = <<>> /\ Goto("st", "idle")
  /\ barrier' = [p \in DOMAIN barrier |-> IF barrier[p] = "this" THEN "none" ELSE barrier[p]]
  /\ UNCHANGED <<host, pm_mutex, irqs, transition_list, st_items, work, qti, modem, budget>>

\* One item: note the stage, make devices, or wait for READY.
StItem(t) ==
  /\ At("st", "st_item") /\ st_items # <<>> /\ Head(st_items) = t
  /\ st_items' = Tail(st_items)
  /\ UNCHANGED <<pm_state, dev_state, pm_mutex, irqs, transition_list, work, barrier, qti, dev, dev_ee,
                 dev_ready, mhictrl, budget>>

StPbl == /\ StItem("PBL") /\ UNCHANGED <<pc, wake>>
         /\ ee' = IF pm_state \in RegAccessValid THEN dev_ee ELSE ee

StSbl == StItem("SBL") /\ UNCHANGED wake /\ ee' = "SBL" /\ Goto("st", "create")

StReady == StItem("READY") /\ UNCHANGED <<ee, wake>> /\ Goto("st", "rdy_wait")

\* mhi_assert_dev_wake rings the wake doorbell of a modem known to be in M2 and keeps no count.
WakeGet == wake' = (wake \/ dev_state = "M2")

StMissionMode == /\ StItem("MISSION_MODE") /\ UNCHANGED ee /\ Goto("st", "mm_sync")
                 /\ WakeGet

\* Mutant: wait_event instead of wait_event_timeout, and for M0 alone.
GetSync_Forever(l, ok, fail) ==
  At("st", l) /\ pm_state = "M0" /\ Goto("st", ok) /\ UNCHANGED budget

\* __mhi_device_get_sync after its wake_get: wait for M0.
GetSync(l, ok, fail) ==
  /\ At("st", l)
  /\ \/ pm_state \in InErrorState /\ Goto("st", fail) /\ UNCHANGED budget
     \/ pm_state = "M0" /\ Goto("st", ok) /\ UNCHANGED budget
     \/ pm_state \notin InErrorState \cup {"M0"} /\ Expires /\ Goto("st", fail)

\* mhi_pm_mission_mode_transition
MmSync ==
  /\ GetSync("mm_sync", "mm_ee", "st_item")
  /\ UNCHANGED <<host, pm_mutex, irqs, works, qti, modem>>

MmEE ==
  /\ At("st", "mm_ee")
  /\ ee' = IF pm_state \in RegAccessValid THEN dev_ee ELSE ee
  /\ Goto("st", IF ee' \in MissionMode /\ pm_state \notin InErrorState
                 THEN "create" ELSE "st_item")
  /\ UNCHANGED <<pm_state, dev_state, pm_mutex, irqs, works, qti, modem, budget>>

\* mhi_create_devices: a channel without device, started in the current stage, ...
CreateDevices ==
  /\ At("st", "create")
  /\ Goto("st", IF devices = "none" /\ ee = "AMSS" THEN "add" ELSE "st_item")
  /\ UNCHANGED <<host, pm_mutex, irqs, works, qti, modem, budget>>

\* ... gets one on the bus, ...
DeviceAdd ==
  /\ At("st", "add") /\ Goto("st", "probe")
  /\ devices' = "unbound" /\ WakeGet
  /\ UNCHANGED <<host, pm_mutex, irqs, works, ctxt, powered_on, rpm, fatal, dev, dev_ee, dev_ready,
                 mhictrl, budget>>

\* ... and mhi_driver_probe offers it to a driver once the modem is in M0.
ProbeSync ==
  /\ GetSync("probe", "bind", "st_item")
  /\ UNCHANGED <<host, pm_mutex, irqs, works, qti, modem>>

\* The driver may fail when the modem failed meanwhile.
DriverBind ==
  /\ At("st", "bind") /\ Goto("st", "st_item")
  /\ devices' \in {"bound"} \cup (IF pm_state \in InErrorState THEN {"unbound"} ELSE {})
  /\ UNCHANGED <<host, pm_mutex, irqs, works, ctxt, powered_on, rpm, fatal, modem, budget>>

StWorker == StTake \/ StDone \/ StPbl \/ StSbl \/ StReady \/ StMissionMode \/ MmSync
              \/ MmEE \/ CreateDevices \/ DeviceAdd \/ ProbeSync \/ DriverBind
              \/ ReadyTransition("st", "st_item")

\* Mutant: the poll is not repeated.
ReadyRun_Once ==
  LET stage == IF pm_state \in RegAccessValid THEN dev_ee ELSE "MAX"
  IN  IF dev_state = "RESET" /\ stage \in {"AMSS", "SBL", "EDL"}
        THEN /\ transition_list' = Append(transition_list, IF stage = "EDL" THEN "PBL" ELSE "READY")
             /\ work' = (work \ {"ready"}) \cup {"st"}
        ELSE work' = work \ {"ready"} /\ UNCHANGED transition_list

\* mhi_pm_ready_worker: poll again while the modem is in pass-through mode.
ReadyRun ==
  LET stage == IF pm_state \in RegAccessValid THEN dev_ee ELSE "MAX"
  IN  \/ /\ dev_state = "RESET" /\ stage = "PTHRU"
         /\ UNCHANGED <<work, transition_list>>
      \/ /\ dev_state = "RESET" /\ stage \in {"AMSS", "SBL", "EDL"}
         /\ transition_list' = Append(transition_list, IF stage = "EDL" THEN "PBL" ELSE "READY")
         /\ work' = (work \ {"ready"}) \cup {"st"}
      \/ /\ dev_state # "RESET" \/ stage \notin {"PTHRU", "AMSS", "SBL", "EDL"}
         /\ work' = work \ {"ready"} /\ UNCHANGED transition_list

ReadyWorker ==
  /\ "ready" \in work /\ ReadyRun
  /\ UNCHANGED <<host, pm_mutex, pc, irqs, st_items, barrier, qti, modem, budget>>

-----------------------------------------------------------------------------
(* mhi_pm_disable_transition: the error worker resets the modem, removal   *)
(* shuts it down.  pm_mutex is dropped while clients and workers drain.    *)

Target(p) == IF p = "syserr" THEN "SYS_ERR_PROCESS" ELSE "SHUTDOWN_PROCESS"
AfterDisable(p) == IF p = "syserr" THEN "idle" ELSE "pd_free"
Lock(p) == pm_mutex = NoProc /\ pm_mutex' = p
Unlock(p) == pm_mutex = p /\ pm_mutex' = NoProc

DisEnter(p) ==
  /\ At(p, "dis_enter") /\ pm_mutex = NoProc
  /\ IF Tryset(pm_state, Target(p)) = Target(p)
       THEN /\ pm_state' = Target(p) /\ ee' = "DISABLE_TRANSITION" /\ dev_state' = "RESET"
            /\ pm_mutex' = p
            /\ Goto(p, IF pm_state \in RegAccessValid THEN "dis_reset" ELSE "dis_kill")
       ELSE UNCHANGED <<host, pm_mutex>> /\ Goto(p, AfterDisable(p))
  /\ UNCHANGED <<irqs, works, qti, modem, budget>>

DisReset(p) ==
  /\ At(p, "dis_reset") /\ Goto(p, "dis_wait")
  /\ mhictrl' = "RESET"
  /\ UNCHANGED <<host, pm_mutex, irqs, works, qti, dev, dev_ee, dev_ready, wake, budget>>

\* Mutant: the modem is asked to reset, and not waited for.
DisWait_Hasty(p) ==
  /\ At(p, "dis_wait") /\ Goto(p, "dis_kill")
  /\ UNCHANGED <<host, pm_mutex, irqs, works, qti, modem, budget>>

\* A modem that does not leave RESET ends error handling, not shutdown.
DisWait(p) ==
  /\ At(p, "dis_wait")
  /\ \/ mhictrl # "RESET" /\ Goto(p, "dis_kill") /\ UNCHANGED <<pm_mutex, budget>>
     \/ /\ mhictrl = "RESET" /\ Expires
        /\ IF p = "syserr" THEN Unlock(p) /\ Goto(p, "idle")
                           ELSE UNCHANGED pm_mutex /\ Goto(p, "dis_kill")
  /\ UNCHANGED <<host, irqs, works, qti, modem>>

\* Mutant: pm_mutex is not dropped before the clients go.
DisKill_Locked(p) ==
  /\ At(p, "dis_kill") /\ ~tasklet /\ At("ctrl", "idle") /\ Goto(p, "dis_destroy")
  /\ UNCHANGED <<host, pm_mutex, irqs, works, qti, modem, budget>>

\* tasklet_kill waits for the task to be neither scheduled nor running.
DisKill(p) ==
  /\ At(p, "dis_kill") /\ ~tasklet /\ At("ctrl", "idle")
  /\ Unlock(p) /\ Goto(p, "dis_destroy")
  /\ UNCHANGED <<host, irqs, works, qti, modem, budget>>

\* A device is not yet among the children of the controller while it is being probed.
DisDestroy(p) ==
  /\ At(p, "dis_destroy") /\ Goto(p, "dis_flush_ready")
  /\ devices' = IF pc["st"] \in {"probe", "bind"} THEN devices ELSE "none"
  /\ UNCHANGED <<host, pm_mutex, irqs, works, ctxt, powered_on, rpm, fatal, modem, budget>>

\* flush_delayed_work runs the work now; it may queue itself again.
DisFlushReady(p) ==
  /\ At(p, "dis_flush_ready") /\ Goto(p, "dis_flush_st")
  /\ IF "ready" \in work THEN ReadyRun ELSE UNCHANGED <<work, transition_list>>
  /\ UNCHANGED <<host, pm_mutex, irqs, st_items, barrier, qti, modem, budget>>

\* Mutant: st_worker is not flushed.
DisFlushSt_Missing(p) ==
  /\ At(p, "dis_flush_st") /\ Goto(p, "dis_flushing")
  /\ UNCHANGED <<host, pm_mutex, irqs, works, qti, modem, budget>>

\* flush_work waits for the run that is queued or else under way, not for later ones.
DisFlushSt(p) ==
  /\ At(p, "dis_flush_st") /\ Goto(p, "dis_flushing")
  /\ barrier' = [barrier EXCEPT ![p] = IF "st" \in work THEN "next"
                                       ELSE IF At("st", "idle") THEN "none" ELSE "this"]
  /\ UNCHANGED <<host, pm_mutex, irqs, transition_list, st_items, work, qti, modem, budget>>

DisFlushed(p) ==
  /\ At(p, "dis_flushing") /\ barrier[p] = "none" /\ Goto(p, "dis_rings")
  /\ UNCHANGED <<host, pm_mutex, irqs, works, qti, modem, budget>>

\* Command and event rings, and their contexts, start over.
DisRings(p) ==
  /\ At(p, "dis_rings") /\ Lock(p) /\ Goto(p, "dis_done")
  /\ er' = <<>>
  /\ UNCHANGED <<host, msi, tasklet, intvec, iv_ee, works, qti, modem, budget>>

DisDone(p) ==
  /\ At(p, "dis_done")
  /\ \/ /\ p = "syserr" /\ dev_ee = "EDL" /\ dev = "RESET"
        /\ ee' = "EDL" /\ pm_state' = Tryset(pm_state, "POR")
        /\ Unlock(p) /\ Goto(p, "idle")
     \/ /\ p = "syserr" /\ ~(dev_ee = "EDL" /\ dev = "RESET")
        /\ Goto(p, "rdy_wait") /\ UNCHANGED <<pm_state, ee, pm_mutex>>
     \/ /\ p = "power"
        /\ pm_state' = Tryset(pm_state, "DISABLE") /\ UNCHANGED ee
        /\ Unlock(p) /\ Goto(p, "pd_free")
  /\ UNCHANGED <<dev_state, irqs, works, qti, modem, budget>>

Disable(p) == DisEnter(p) \/ DisReset(p) \/ DisWait(p) \/ DisKill(p) \/ DisDestroy(p)
                \/ DisFlushReady(p) \/ DisFlushSt(p) \/ DisFlushed(p) \/ DisRings(p) \/ DisDone(p)

\* mhi_pm_sys_err_worker
SysErrStart ==
  /\ "syserr" \in work /\ At("syserr", "idle")
  /\ work' = work \ {"syserr"} /\ Goto("syserr", "dis_enter")
  /\ UNCHANGED <<host, pm_mutex, irqs, transition_list, st_items, barrier, qti, modem, budget>>

DisExit ==
  /\ At("syserr", "dis_exit") /\ Unlock("syserr") /\ Goto("syserr", "idle")
  /\ UNCHANGED <<host, irqs, works, qti, modem, budget>>

SysErrWorker == SysErrStart \/ Disable("syserr") \/ ReadyTransition("syserr", "dis_exit") \/ DisExit

-----------------------------------------------------------------------------
(* Probe and removal of the PCI device.                                    *)

PowerWrites(request) ==
  /\ mhictrl' = request
  /\ UNCHANGED <<host, pm_mutex, irqs, works, qti, dev, dev_ee, dev_ready, wake, budget>>

\* mhi_pci_probe calls mhi_power_up: a modem still in SYS_ERR is told to reset, ...
PowerUpSysErr ==
  /\ At("power", "idle")
  /\ IF dev = "SYS_ERR" THEN Goto("power", "pu_poll") /\ PowerWrites("RESET")
                        ELSE Goto("power", "pu_reset") /\ PowerWrites(mhictrl)

\* ... polled, and given up if it has not left SYS_ERR in time.
PowerUpPoll ==
  /\ At("power", "pu_poll") /\ PowerWrites(mhictrl)
  /\ Goto("power", IF dev = "SYS_ERR" THEN "gone" ELSE "pu_reset")

\* mhi_async_power_up tells one past READY to reset; the sleep of 50 ms checks nothing.
PowerUpReset ==
  /\ At("power", "pu_reset") /\ Goto("power", "pu_init")
  /\ PowerWrites(IF dev \in DevState \ {"RESET", "READY"} THEN "RESET" ELSE mhictrl)

\* Interrupts and mhi_ctxt are set up, and the first transition is queued.
PowerUp ==
  /\ At("power", "pu_init") /\ Goto("power", "on")
  /\ pm_state' = "POR" /\ dev_state' = "RESET" /\ ee' = "MAX"
  /\ ctxt' = TRUE /\ powered_on' = TRUE
  /\ IF dev_ee \in InPbl
       THEN work' = work \cup {"ready"} /\ UNCHANGED transition_list
       ELSE Queue("READY")
  /\ UNCHANGED <<pm_mutex, irqs, st_items, barrier, devices, rpm, fatal, modem, budget>>

\* mhi_pci_device_removed, once pm_runtime_get_sync has woken the device.
RemoveStart ==
  /\ dev_ee \in Removable /\ At("power", "on") /\ rpm \in {"active", "error"} /\ pm_mutex = NoProc
  /\ powered_on' = FALSE /\ Goto("power", "pd_fatal")
  /\ UNCHANGED <<host, pm_mutex, irqs, works, devices, ctxt, rpm, fatal, modem, budget>>

\* mhi_power_down(false): the link counts as dead.
PdFatal ==
  /\ At("power", "pd_fatal") /\ pm_mutex = NoProc /\ Goto("power", "dis_enter")
  /\ pm_state' = Tryset(pm_state, "LD_ERR_FATAL_DETECT")
  /\ UNCHANGED <<dev_state, ee, pm_mutex, irqs, works, qti, modem, budget>>

\* Interrupts, then mhi_ctxt, are released; free_irq waits for the handlers.
PdFree ==
  /\ At("power", "pd_free") /\ At("intvec", "idle") /\ Goto("power", "gone")
  /\ ctxt' = FALSE /\ msi' = FALSE /\ intvec' = FALSE
  /\ UNCHANGED <<host, pm_mutex, er, tasklet, iv_ee, works, devices, powered_on, rpm, fatal, modem, budget>>

Power == PowerUpSysErr \/ PowerUpPoll \/ PowerUpReset \/ PowerUp \/ RemoveStart \/ PdFatal \/ Disable("power") \/ PdFree

-----------------------------------------------------------------------------
(* Runtime suspend and resume (mhi_qti around mhi_pm_suspend and _resume). *)

RpmUnchanged == UNCHANGED <<irqs, works, devices, ctxt, powered_on, fatal, dev, dev_ee, dev_ready>>

\* Only a modem in mission mode and not in error is put to sleep.
SuspendStart ==
  /\ At("rpm", "idle") /\ rpm = "active" /\ At("power", "on") /\ powered_on
  /\ ee = "AMSS" /\ pm_state \notin EventAccessInvalid
  /\ Spend("suspend")
  /\ Lock("rpm") /\ rpm' = "suspending" /\ Goto("rpm", "sus_m0")
  /\ WakeGet /\ UNCHANGED <<host, mhictrl>> /\ RpmUnchanged

SuspendFail == Unlock("rpm") /\ rpm' = "active" /\ Goto("rpm", "idle")

\* Wait for the modem to be out of M2.
SuspendM0 ==
  /\ At("rpm", "sus_m0")
  /\ \/ /\ dev_state \in {"M0", "M1"} /\ pm_state \notin InErrorState
        /\ Goto("rpm", "sus_enter") /\ UNCHANGED <<pm_mutex, rpm, budget>>
     \/ pm_state \in InErrorState /\ SuspendFail /\ UNCHANGED budget
     \/ dev_state \notin {"M0", "M1"} /\ pm_state \notin InErrorState /\ Expires /\ SuspendFail
  /\ UNCHANGED <<host, mhictrl, wake>> /\ RpmUnchanged

SuspendEnter ==
  /\ At("rpm", "sus_enter")
  /\ pm_state' = Tryset(pm_state, "M3_ENTER")
  /\ IF pm_state' = "M3_ENTER"
       THEN mhictrl' = "M3" /\ Goto("rpm", "sus_m3") /\ UNCHANGED <<pm_mutex, rpm>>
       ELSE SuspendFail /\ UNCHANGED mhictrl
  /\ UNCHANGED <<dev_state, ee, wake, budget>> /\ RpmUnchanged

\* Mutant: the wait's result is not looked at.
SuspendM3_Unchecked ==
  /\ At("rpm", "sus_m3")
  /\ \/ (dev_state = "M3" \/ pm_state \in InErrorState) /\ UNCHANGED budget
     \/ dev_state # "M3" /\ pm_state \notin InErrorState /\ Expires
  /\ Unlock("rpm") /\ rpm' = "suspended" /\ Goto("rpm", "idle")
  /\ UNCHANGED <<host, mhictrl, wake>> /\ RpmUnchanged

\* Wait for M3; when it is reached the kernel powers the link down.
SuspendM3 ==
  /\ At("rpm", "sus_m3")
  /\ \/ /\ dev_state = "M3" /\ pm_state \notin InErrorState
        /\ Unlock("rpm") /\ rpm' = "suspended" /\ Goto("rpm", "idle") /\ UNCHANGED budget
     \/ pm_state \in InErrorState /\ SuspendFail /\ UNCHANGED budget
     \/ dev_state # "M3" /\ pm_state \notin InErrorState /\ Expires /\ SuspendFail
  /\ UNCHANGED <<host, mhictrl, wake>> /\ RpmUnchanged

ResumeStart ==
  /\ At("rpm", "idle") /\ rpm = "suspended" /\ pm_mutex = NoProc
  /\ IF pm_state \in InErrorState
       THEN rpm' = "error" /\ UNCHANGED <<pm_mutex, pc>>
       ELSE Lock("rpm") /\ rpm' = "resuming" /\ Goto("rpm", "res_assert")
  /\ UNCHANGED <<host, mhictrl, wake, budget>> /\ RpmUnchanged

\* MHI_ASSERT(pm_state != MHI_PM_M3) and the calls that tell clients.
ResumeAssert ==
  /\ At("rpm", "res_assert") /\ Goto("rpm", "res_exit")
  /\ UNCHANGED <<host, pm_mutex, rpm, mhictrl, wake, budget>> /\ RpmUnchanged

ResumeExit ==
  /\ At("rpm", "res_exit")
  /\ pm_state' = Tryset(pm_state, "M3_EXIT")
  /\ IF pm_state' = "M3_EXIT" THEN mhictrl' = "M0" /\ Goto("rpm", "res_m0")
                              ELSE Goto("rpm", "res_fail") /\ UNCHANGED mhictrl
  /\ UNCHANGED <<dev_state, ee, pm_mutex, rpm, wake, budget>> /\ RpmUnchanged

\* Wait for M0; without it, look for a crash that slept through the suspend.
ResumeM0 ==
  /\ At("rpm", "res_m0")
  /\ \/ /\ dev_state = "M0" /\ pm_state \notin InErrorState
        /\ Unlock("rpm") /\ rpm' = "active" /\ Goto("rpm", "idle") /\ UNCHANGED budget
     \/ /\ pm_state \in InErrorState /\ Goto("rpm", "iv_claim") /\ UNCHANGED <<pm_mutex, rpm, budget>>
     \/ /\ dev_state # "M0" /\ pm_state \notin InErrorState /\ Expires
        /\ Goto("rpm", "iv_claim") /\ UNCHANGED <<pm_mutex, rpm>>
  /\ UNCHANGED <<host, mhictrl, wake>> /\ RpmUnchanged

ResumeClaim == At("rpm", "iv_claim") /\ IntvecClaim("rpm", "res_fail") /\ UNCHANGED intvec

ResumeNotify == IntvecNotify("rpm") /\ Goto("rpm", "res_fail") /\ UNCHANGED <<pm_mutex, rpm>>

ResumeFail ==
  /\ At("rpm", "res_fail") /\ Unlock("rpm") /\ rpm' = "error" /\ Goto("rpm", "idle")
  /\ UNCHANGED <<host, mhictrl, wake, budget>> /\ RpmUnchanged

Rpm == SuspendStart \/ SuspendM0 \/ SuspendEnter \/ SuspendM3 \/ ResumeStart \/ ResumeAssert
         \/ ResumeExit \/ ResumeM0 \/ ResumeClaim \/ ResumeNotify \/ ResumeFail

\* mhi_debugfs_trigger_reset: an operator asks for a reset of a modem in M0.
DebugReset ==
  /\ ctxt /\ At("power", "on") /\ dev_state = "M0" /\ pm_state \notin InErrorState
  /\ Spend("syserr")
  /\ pm_state' = Tryset(pm_state, "SYS_ERR_DETECT")
  /\ work' = IF pm_state' = "SYS_ERR_DETECT" THEN work \cup {"syserr"} ELSE work
  /\ UNCHANGED <<dev_state, ee, pm_mutex, pc, irqs, transition_list, st_items, barrier, qti, modem>>

Next == Modem \/ Ctrl \/ IntvecThread \/ StWorker \/ ReadyWorker \/ SysErrWorker
          \/ Power \/ Rpm \/ DebugReset

Spec == Init /\ [][Next]_vars

(***************************************************************************)
(* Queued work, raised interrupts and threads that entered the driver run; *)
(* the modem boots and serves MHICTRL.  Crashes, idling, suspend, removal  *)
(* and resets by an operator need not happen.                              *)
(***************************************************************************)
Fairness ==
  /\ WF_vars(ModemBoot) /\ WF_vars(ModemReset) /\ WF_vars(ModemM0)
  /\ WF_vars(ModemM2) /\ WF_vars(ModemM3)
  /\ WF_vars(Ctrl) /\ WF_vars(IntvecThread) /\ WF_vars(StWorker) /\ WF_vars(ReadyWorker)
  /\ WF_vars(SysErrWorker) /\ WF_vars(PowerUpSysErr \/ PowerUpPoll \/ PowerUpReset \/ PowerUp) /\ WF_vars(PdFatal)
  /\ WF_vars(Disable("power")) /\ WF_vars(PdFree)
  /\ WF_vars(SuspendM0 \/ SuspendEnter \/ SuspendM3)
  /\ WF_vars(ResumeAssert \/ ResumeExit \/ ResumeM0 \/ ResumeClaim \/ ResumeNotify \/ ResumeFail)

FairSpec == Spec /\ Fairness

-----------------------------------------------------------------------------
(* What must not happen.                                                   *)

\* Where each process holds pm_mutex.
Critical ==
  [syserr |-> {"dis_reset", "dis_wait", "dis_kill", "dis_done", "dis_exit"} \cup ReadyLabels,
   power  |-> {"dis_reset", "dis_wait", "dis_kill", "dis_done"},
   rpm    |-> Labels.rpm \ {"idle"}]

(* pm_mutex has exactly the owner that is in its critical section, although*)
(* mhi_pm_disable_transition drops and takes it again half way through:    *)
(* error handling, shutdown, suspend and resume never overlap in it.       *)
MutexInv == \A p \in {"syserr", "power", "rpm"} : pm_mutex = p <=> pc[p] \in Critical[p]

(* The state is well formed: everything has its type, no transition without*)
(* a case in mhi_pm_st_worker is queued, and pm_mutex has its owner.       *)
WellFormed == TypeOK /\ MutexInv

(* MHI_ASSERT in mhi_pm_resume: a resume that saw no error finds M3.  The  *)
(* two reads are not under pm_lock.                                        *)
AssertM3 == At("rpm", "res_assert") => pm_state = "M3"

(* The kernel cuts the link only to a modem that sleeps or has crashed, and*)
(* nothing that was under way moves the host out of M3 behind its back.    *)
AsleepTogether == rpm = "suspended" => /\ dev \in {"M3", "SYS_ERR"}
                                       /\ pm_state \in {"M3"} \cup InErrorState

(* The sleep states belong to runtime PM: unless an M3 came late, nobody   *)
(* is in one while the kernel believes the device to be active.            *)
M3StateOwned ==
  budget.late = Lates /\ pm_state \in {"M3_ENTER", "M3", "M3_EXIT"} => rpm # "active"

(* Host, modem and kernel agree on who sleeps.                             *)
M3Agreed == AssertM3 /\ AsleepTogether /\ M3StateOwned

(* When mhi_pm_disable_transition rewinds command and event rings, the     *)
(* modem does not use them: it is reset and nobody has sent it to M0.      *)
RingsResetWhileQuiet == At("syserr", "dis_done") => dev \in {"RESET", "READY", "SYS_ERR"}

(* A modem told to reset is told nothing else before it has done so: no M2,*)
(* M3 or M0 request of another thread reaches MHICTRL in between.          *)
ResetKept == [][mhictrl = "RESET" => mhictrl' \in {"RESET", "none"}]_vars

(* Who may move pm_state where, and under whose pm_mutex: the ladder.      *)
Ladder == INSTANCE PmLadder WITH state <- pm_state, owner <- pm_mutex
LadderSpec == Ladder!Spec

(* mhi_ctxt is there while an event task, a READY transition or the error  *)
(* worker uses it.                                                         *)
CtxtInUse ==
  (pc["syserr"] \in {"dis_done", "rdy_mmio"} \/ At("st", "rdy_mmio") \/ pc["ctrl"] # "idle") => ctxt

(* "not handling sys_err, could be middle of shut down": a controller that *)
(* has been shut down stays down.                                          *)
StaysDown == [][pm_state = "DISABLE" /\ pc["power"] \in {"pd_free", "gone"}
                  => pm_state' = "DISABLE"]_vars

-----------------------------------------------------------------------------
(* What must happen.                                                       *)

\* A failure that was noted is handled, or reported as fatal.
CrashHandled == (pm_state = "SYS_ERR_DETECT") ~> (pm_state # "SYS_ERR_DETECT" \/ fatal)

\* Removal finishes, whatever the workers it flushes were waiting for.
RemovalCompletes == At("power", "pd_fatal") ~> At("power", "gone")

\* Nobody keeps pm_mutex for ever: every wait under it ends.
MutexReleased == (pm_mutex # NoProc) ~> (pm_mutex = NoProc)

\* Error handling, removal, suspend and resume do not wait for each other for ever.
NobodyStuck == RemovalCompletes /\ MutexReleased

\* The client of the AMSS channels gets to talk to a modem, from any boot stage, unless the modem
\* fails, dozes off, is suspended, answers too late or is removed first.
Up == devices = "bound" /\ pm_state \in {"M0", "M2", "M3_ENTER", "M3", "M3_EXIT"}
Undisturbed ==
  /\ budget = [syserr |-> SysErrs, idle |-> Idles, suspend |-> Suspends, late |-> Lates]
  /\ pc["power"] \in PowerUpLabels \cup {"on"}
ComesUp == <>(Up \/ ~Undisturbed)
=============================================================================

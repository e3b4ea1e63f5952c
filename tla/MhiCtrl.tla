------------------------------ MODULE MhiCtrl -------------------------------
(***************************************************************************)
(* The life of a controller: mhi_pci_probe registers it, sets up the PCI   *)
(* device and powers it up, each step of which may fail and then undoes    *)
(* the ones before; mhi_pci_device_removed takes all of it down.  Beside   *)
(* it users of the device node mhi_BHI, which write an image into a modem  *)
(* that is in emergency download mode (core/mhi_boot.c).                   *)
(*                                                                         *)
(* A resource is a name in held; an interrupt line a number in lines, 0    *)
(* being that of BHI.                                                      *)
(***************************************************************************)
EXTENDS Integers, Sequences

CONSTANTS
  Users,    \* threads that call the device node, once each
  Events,   \* event rings
  Failing,  \* steps that may fail
  Retries   \* times the kernel probes again after a failure

ASSUME CtrlAssumption == Events \in Nat \ {0} /\ Retries \in Nat /\ Failing \subseteq STRING

VARIABLES
  held, lines, refs,  \* resources; interrupt lines; references to the bus device
  wrong,              \* resources that were released and not held
  one,                \* the device has a single MSI
  pm, pc, retries,    \* pm_state; the thread of probe and remove
  upc, bufs, result,  \* the users: where, whose DMA buffer exists, what they were told
  ee, status,         \* execution environment; BHI_STATUS
  reading, taken,     \* images the modem is reading, and has read
  torn, late,         \* it read one that was freed; a wait ran out
  overlap,            \* two writes at once, or a removal during a call
  stray               \* a register was used while none was mapped

resources == <<held, lines, refs, wrong>>
users     == <<upc, bufs, result>>
modem     == <<ee, status, reading, taken>>
marks     == <<torn, late, overlap, stray>>
vars      == <<resources, one, pm, pc, retries, users, modem, marks>>

Registered == {"cntrl", "chan", "event", "cmd", "dev", "bus", "node", "list"}
Pci        == {"enable", "region", "master", "regs", "vectors", "irqs"}
Power      == {"ctxt", "seg"}

\* The order in which resources are taken; the list of the bus is the last of a registration.
Order == <<"cntrl", "chan", "event", "cmd", "dev", "bus", "node", "list",
           "enable", "region", "master", "regs", "vectors", "irqs", "ctxt", "seg", "lines">>
Following(r) == Order[1 + CHOOSE i \in DOMAIN Order : Order[i] = r]

Init ==
  /\ held = {} /\ lines = {} /\ refs = 0 /\ wrong = {}
  /\ one \in BOOLEAN
  /\ pm = "disable" /\ pc = "cntrl" /\ retries = Retries
  /\ upc = [u \in Users |-> "idle"] /\ bufs = {} /\ result = [u \in Users |-> "none"]
  /\ ee = "EDL" /\ status = "none" /\ reading = {} /\ taken = {}
  /\ torn = FALSE /\ late = FALSE /\ overlap = FALSE /\ stray = FALSE

Removal == {"shutdown", "power_down", "deinit", "unregister"}
Busy == {u \in Users : upc[u] \notin {"idle", "back", "dead"}}
Release(rs) == held' = held \ rs /\ wrong' = wrong \cup (rs \ held)

-----------------------------------------------------------------------------
(* Registration (mhi_register_controller, of_register_mhi_controller).     *)

\* The labels of of_register_mhi_controller and of_parse_dt that a failure of r falls through,
\* and mhi_free_controller.
RegisterUndo(r) ==
  CASE r = "cntrl" -> {}
    [] r = "chan"  -> {"cntrl"}
    [] r = "event" -> {"chan", "cntrl"}
    [] r = "cmd"   -> {"event", "chan", "cntrl"}
    [] r = "dev"   -> {"cmd", "event", "chan", "cntrl"}
    [] r = "bus"   -> {"dev", "cmd", "event", "chan", "cntrl"}
    [] OTHER       -> {}

Register ==
  /\ pc \in Registered
  /\ \/ /\ held' = held \cup {pc} /\ pc' = Following(pc)
        /\ refs' = (IF pc = "dev" THEN 1 ELSE refs) /\ wrong' = wrong
     \/ /\ pc \in Failing \ {"node", "list"} /\ Release(RegisterUndo(pc)) /\ pc' = "failed"
        /\ refs' = 0
  /\ UNCHANGED <<lines, one, pm, retries, users, modem, marks>>

-----------------------------------------------------------------------------
(* mhi_init_pci_dev, and mhi_deinit_pci_dev for what fails after it.       *)

\* Mutant: the label of the vectors is skipped.
PciUndo_KeepsVectors(r) ==
  CASE r = "enable"  -> {"region"}
    [] r = "region"  -> {"enable", "region"}
    [] r = "regs"    -> {"master", "enable", "region"}
    [] r = "vectors" -> {"regs", "master", "enable", "region"}
    [] r = "irqs"    -> {"regs", "master", "enable", "region"}

\* The labels of mhi_init_pci_dev: the device is disabled one label too early, and its region
\* released one too late.
PciUndo(r) ==
  CASE r = "enable"  -> {"region"}
    [] r = "region"  -> {"enable", "region"}
    [] r = "regs"    -> {"master", "enable", "region"}
    [] r = "vectors" -> {"regs", "master", "enable", "region"}
    [] r = "irqs"    -> {"vectors", "regs", "master", "enable", "region"}

\* Fewer vectors are granted than there are lines, and more than one: error_req_msi lies below
\* the label that frees them, and probe returns their number.
PartialGrant ==
  /\ pc = "vectors" /\ "grant" \in Failing /\ ~one /\ Events >= 2
  /\ held' = (held \cup {"vectors"}) \ PciUndo("vectors") /\ wrong' = wrong \cup (PciUndo("vectors") \ held)
  /\ pc' = "partial" /\ stray' = stray

\* When the registers cannot be mapped ret is still that of the DMA mask: an error, or 0, and then
\* probe goes on.
InitPci ==
  /\ pc \in Pci
  /\ \/ held' = held \cup {pc} /\ pc' = Following(pc) /\ UNCHANGED <<wrong, stray>>
     \/ /\ pc \in Failing \ {"master"} /\ Release(PciUndo(pc)) /\ pc' = "failed" /\ stray' = stray
     \/ /\ pc \in Failing \cap {"regs"} /\ Release(PciUndo(pc)) /\ pc' = "dead" /\ stray' = TRUE
     \/ PartialGrant
  /\ UNCHANGED <<lines, refs, one, pm, retries, users, modem, torn, late, overlap>>

-----------------------------------------------------------------------------
(* mhi_power_up: mhi_init_dev_ctxt, mhi_init_irq_setup, mhi_async_power_up. *)

DeinitPci == Pci
Wanted == IF one THEN {0} ELSE 0 .. Events

DevCtxt ==
  /\ pc \in Power
  /\ \/ held' = held \cup {pc} /\ pc' = Following(pc) /\ wrong' = wrong
     \/ /\ pc \in Failing /\ Release(DeinitPci \cup IF pc = "seg" THEN {"ctxt"} ELSE {}) /\ pc' = "failed"
  /\ UNCHANGED <<lines, refs, one, pm, retries, users, modem, marks>>

\* The lines in order; a failure gives back those before it, and that of BHI.
IrqSetup ==
  /\ pc = "lines" /\ lines # Wanted
  /\ LET line == CHOOSE l \in Wanted \ lines : \A k \in Wanted \ lines : l <= k
     IN  \/ lines' = lines \cup {line} /\ UNCHANGED <<held, wrong, pc>>
         \/ /\ "lines" \in Failing /\ lines' = lines \ (0 .. line)
            /\ Release(DeinitPci \cup Power) /\ pc' = "failed"
  /\ UNCHANGED <<refs, one, pm, retries, users, modem, marks>>

\* The offsets of BHI are read, and the controller is there.
PowerUp ==
  /\ pc = "lines" /\ lines = Wanted
  /\ \/ pm' = "por" /\ pc' = "bound" /\ UNCHANGED <<held, lines, wrong>>
     \/ /\ "offsets" \in Failing /\ lines' = {} /\ Release(DeinitPci \cup Power)
        /\ pc' = "failed" /\ pm' = pm
  /\ UNCHANGED <<refs, one, retries, users, modem, marks>>

\* Another probe finds a controller that is registered (mhi_bdf_to_controller, which takes a
\* reference to its device).
Probe ==
  /\ pc = "failed" /\ retries > 0 /\ retries' = retries - 1
  /\ IF "bus" \in held THEN pc' = "enable" /\ refs' = refs + 1 ELSE pc' = "cntrl" /\ refs' = refs
  /\ UNCHANGED <<held, lines, wrong, one, pm, users, modem, marks>>

-----------------------------------------------------------------------------
(* mhi_pci_device_removed.                                                 *)

\* The controller is looked up once more; mhi_power_down begins, not gracefully.
RemoveStart ==
  /\ pc = "bound" /\ pc' = "shutdown" /\ refs' = refs + 1 /\ pm' = "ld_err"
  /\ overlap' = (overlap \/ Busy # {})
  /\ UNCHANGED <<held, lines, wrong, one, retries, users, modem, torn, late, stray>>

\* The kernel takes a positive result of probe for success, so that the device can be removed.
\* mhi_deinit_free_irq then goes through an array of lines that was never allocated.
RemovePartial ==
  /\ pc = "partial" /\ pc' = "dead" /\ refs' = refs + 1
  /\ overlap' = (overlap \/ Busy # {})
  /\ UNCHANGED <<held, lines, wrong, one, pm, retries, users, modem, torn, late, stray>>

Shutdown ==
  /\ pc = "shutdown" /\ pc' = "power_down" /\ pm' = "shutdown"
  /\ UNCHANGED <<resources, one, retries, users, modem, marks>>

\* mhi_deinit_free_irq, mhi_deinit_dev_ctxt
PowerDown ==
  /\ pc = "power_down" /\ pc' = "deinit" /\ pm' = "disable"
  /\ lines' = {} /\ Release(Power)
  /\ UNCHANGED <<refs, one, retries, users, modem, marks>>

Deinit ==
  /\ pc = "deinit" /\ pc' = "unregister" /\ Release(DeinitPci)
  /\ UNCHANGED <<lines, refs, one, pm, retries, users, modem, marks>>

\* mhi_unregister_mhi_controller drops the one reference that its registration took.
Unregister ==
  /\ pc = "unregister" /\ pc' = "gone" /\ refs' = refs - 1
  /\ Release((Registered \ {"cntrl", "dev"}) \cup (IF refs = 1 THEN {"dev"} ELSE {}))
  /\ UNCHANGED <<lines, one, pm, retries, users, modem, marks>>

-----------------------------------------------------------------------------
(* IOCTL_BHI_WRITEIMAGE.                                                   *)

Goto(u, l) == upc' = [upc EXCEPT ![u] = l]
Back(u, r) == Goto(u, "back") /\ result' = [result EXCEPT ![u] = r]

\* A register is used, and there is none.
Fault(u) == "regs" \notin held /\ stray' = TRUE /\ Goto(u, "dead")
InError == pm \in {"ld_err", "shutdown"}

\* mhi_cntrl_ioctl: the controller is on the list, or it is not there any more.
Call(u) ==
  /\ upc[u] = "idle"
  /\ IF "list" \in held THEN Goto(u, "called") /\ result' = result ELSE Back(u, "ENODEV")
  /\ overlap' = (overlap \/ pc \in Removal)
  /\ UNCHANGED <<resources, one, pm, pc, retries, bufs, modem, torn, late, stray>>

\* BhiWrite up to the DMA buffer.  What it logs first reads the registers.
Enter(u) ==
  /\ upc[u] = "called"
  /\ \/ Fault(u) /\ UNCHANGED <<result, bufs>>
     \/ /\ "regs" \in held /\ stray' = stray
        /\ \/ ee # "EDL" /\ Back(u, "EINVAL") /\ bufs' = bufs
           \/ ee = "EDL" /\ Goto(u, "program") /\ bufs' = bufs \cup {u} /\ result' = result
           \/ ee = "EDL" /\ "dma" \in Failing /\ Back(u, "ENOMEM") /\ bufs' = bufs
  /\ UNCHANGED <<resources, one, pm, pc, retries, modem, torn, late, overlap>>

\* mhi_free_coherent
FreeBuf(u) == bufs' = bufs \ {u} /\ torn' = (torn \/ u \in reading)

Writable == pm \in {"por", "shutdown"}

\* Mutant: the status of the last download is left in place.
Program_Stale(u) ==
  /\ upc[u] = "program"
  /\ \/ /\ Writable /\ "regs" \in held
        /\ status' = status /\ reading' = reading \cup {u} /\ Goto(u, "wait")
        /\ overlap' = (overlap \/ \E v \in Users : upc[v] = "wait") /\ UNCHANGED <<bufs, torn, result, stray>>
     \/ Writable /\ Fault(u) /\ UNCHANGED <<status, reading, overlap, bufs, torn, result>>
     \/ ~Writable /\ FreeBuf(u) /\ Back(u, "EIO") /\ UNCHANGED <<status, reading, overlap, stray>>
  /\ UNCHANGED <<resources, one, pm, pc, retries, ee, taken, late>>

\* mhi_fw_load_sbl, with pm_lock read: status cleared, address and size written, doorbell rung.
Program(u) ==
  /\ upc[u] = "program"
  /\ \/ /\ Writable /\ "regs" \in held
        /\ status' = "none" /\ reading' = reading \cup {u} /\ Goto(u, "wait")
        /\ overlap' = (overlap \/ \E v \in Users : upc[v] = "wait") /\ UNCHANGED <<bufs, torn, result, stray>>
     \/ Writable /\ Fault(u) /\ UNCHANGED <<status, reading, overlap, bufs, torn, result>>
     \/ ~Writable /\ FreeBuf(u) /\ Back(u, "EIO") /\ UNCHANGED <<status, reading, overlap, stray>>
  /\ UNCHANGED <<resources, one, pm, pc, retries, ee, taken, late>>

\* The end of its wait, and of the buffer.
Wait(u) ==
  /\ upc[u] = "wait"
  /\ \/ InError /\ Back(u, "EIO") /\ UNCHANGED <<late, stray>> /\ FreeBuf(u)
     \/ /\ ~InError /\ "regs" \in held /\ status # "none" /\ FreeBuf(u)
        /\ IF status = "success" THEN Goto(u, "ready") /\ result' = result ELSE Back(u, "EIO")
        /\ UNCHANGED <<late, stray>>
     \/ /\ ~InError /\ "regs" \in held /\ status = "none" /\ FreeBuf(u)
        /\ late' = TRUE /\ Back(u, "ETIMEDOUT") /\ stray' = stray
     \/ ~InError /\ Fault(u) /\ UNCHANGED <<bufs, torn, result, late>>
  /\ UNCHANGED <<resources, one, pm, pc, retries, modem, overlap>>

\* mhi_ready_state_transition: the modem resets, or does not.  POR can also be reached from
\* DISABLE, where a removal has left the controller.
Ready(u) ==
  /\ upc[u] = "ready"
  /\ \/ /\ ~InError /\ "regs" \in held /\ pm' = "por" /\ Goto(u, "flash") /\ UNCHANGED <<result, stray>>
     \/ (InError \/ "regs" \in held) /\ Back(u, "EIO") /\ UNCHANGED <<pm, stray>>
     \/ ~InError /\ Fault(u) /\ UNCHANGED <<pm, result>>
  /\ UNCHANGED <<resources, one, pc, retries, bufs, modem, torn, late, overlap>>

\* The wait for the flash programmer ends, or runs out: ret, which is returned, is 0 in either
\* case, and what was left of the wait after an error.  A wait that ran out is logged with what
\* the registers say.
Flash(u) ==
  /\ upc[u] = "flash"
  /\ \/ InError /\ Back(u, "left") /\ stray' = stray
     \/ ~InError /\ (ee = "FP" \/ "regs" \in held) /\ Back(u, "ok") /\ stray' = stray
     \/ ~InError /\ ee # "FP" /\ Fault(u) /\ result' = result
  /\ UNCHANGED <<resources, one, pm, pc, retries, bufs, modem, torn, late, overlap>>

-----------------------------------------------------------------------------
(* The modem.                                                              *)

\* It has fetched an image, or found fault with it.
ModemRead(u) ==
  /\ u \in reading /\ reading' = reading \ {u}
  /\ \/ status' = "success" /\ taken' = taken \cup {u}
     \/ status' = "error" /\ taken' = taken
  /\ UNCHANGED <<resources, one, pm, pc, retries, users, ee, marks>>

\* It runs what it was given.
ModemRun ==
  /\ ee = "EDL" /\ taken # {} /\ ee' = "FP"
  /\ UNCHANGED <<resources, one, pm, pc, retries, users, status, reading, taken, marks>>

User(u) == Call(u) \/ Enter(u) \/ Program(u) \/ Wait(u) \/ Ready(u) \/ Flash(u)
Life    == \/ Register \/ InitPci \/ DevCtxt \/ IrqSetup \/ PowerUp \/ Probe
           \/ RemoveStart \/ RemovePartial \/ Shutdown \/ PowerDown \/ Deinit \/ Unregister

Next == Life \/ (\E u \in Users : User(u) \/ ModemRead(u)) \/ ModemRun

Spec == Init /\ [][Next]_vars

-----------------------------------------------------------------------------
(* Properties.                                                             *)

\* Whatever step fails, and after whichever earlier attempts, the ladders of labels give back
\* exactly what was taken: after a failed probe nothing is held but a registration, which the
\* next probe uses, and after a removal only the controller and its device, which nobody frees.
\* The exception is a partial grant, whose vectors stay with the device, but nothing else: a thread
\* that dies for want of registers or lines holds no more than that.
Undone ==
  /\ wrong = {}
  /\ pc = "failed" => held \in {{}, Registered} /\ lines = {}
  /\ pc = "partial" => held = Registered \cup {"vectors"} /\ lines = {}
  /\ pc = "dead" => held \in {Registered, Registered \cup {"vectors"}} /\ lines = {}
  /\ pc = "bound"  => held = Registered \cup Pci \cup Power /\ lines = Wanted
  /\ pc = "gone"   => held = {"cntrl", "dev"} /\ lines = {}

\* The modem reads from a buffer that was freed only if a wait had run out, if two images were
\* written at once, or if the device was removed during a call: mhi_fw_load_sbl does not take the
\* status of an earlier download for its own.
ImageWhole == torn => late \/ overlap

\* A user is told that the image was written only if the modem has read that image (BhiWrite).
TrueAnswer == \A u \in Users : result[u] = "ok" => u \in taken \/ late \/ overlap

\* A download hands over the image it was asked to, and says so only then.
Loaded == ImageWhole /\ TrueAnswer
=============================================================================

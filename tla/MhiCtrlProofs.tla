---------------------------- MODULE MhiCtrlProofs ----------------------------
(***************************************************************************)
(* A controller that is probed, fails, is probed again and removed, and    *)
(* downloads that end with what the modem did, for any number of users,    *)
(* event rings and probes.                                                 *)
(*                                                                         *)
(* Undone looks at three places of probe and remove; Ladder says of every  *)
(* place what is held there, which interrupt lines, and how many           *)
(* references to the device there are at least.                            *)
(*                                                                         *)
(* Loaded needs DownloadInv: who is in the wait of a download while        *)
(* nothing has gone wrong is there alone, in a controller that is up, and  *)
(* BHI_STATUS is about the image of that wait.                             *)
(***************************************************************************)
EXTENDS MhiCtrl, TLAPS

Listed == {"bound"} \cup Removal
Places == Registered \cup Pci \cup Power \cup {"lines", "failed", "partial", "dead", "gone"} \cup Listed

\* What is held at each place of probe and remove; a probe that failed leaves a registration or
\* nothing, and who has died a registration, with the vectors of a partial grant or without.
HeldAt(p) ==
  CASE p = "cntrl"      -> {}
    [] p = "chan"       -> {"cntrl"}
    [] p = "event"      -> {"cntrl", "chan"}
    [] p = "cmd"        -> {"cntrl", "chan", "event"}
    [] p = "dev"        -> {"cntrl", "chan", "event", "cmd"}
    [] p = "bus"        -> {"cntrl", "chan", "event", "cmd", "dev"}
    [] p = "node"       -> {"cntrl", "chan", "event", "cmd", "dev", "bus"}
    [] p = "list"       -> {"cntrl", "chan", "event", "cmd", "dev", "bus", "node"}
    [] p = "region"     -> Registered \cup {"enable"}
    [] p = "master"     -> Registered \cup {"enable", "region"}
    [] p = "regs"       -> Registered \cup {"enable", "region", "master"}
    [] p = "vectors"    -> Registered \cup {"enable", "region", "master", "regs"}
    [] p = "irqs"       -> Registered \cup {"enable", "region", "master", "regs", "vectors"}
    [] p = "ctxt"       -> Registered \cup Pci
    [] p = "seg"        -> Registered \cup Pci \cup {"ctxt"}
    [] p \in {"lines", "bound", "shutdown", "power_down"} -> Registered \cup Pci \cup Power
    [] p = "deinit"     -> Registered \cup Pci
    [] p \in {"enable", "unregister"} -> Registered
    [] p = "partial"    -> Registered \cup {"vectors"}
    [] p = "gone"       -> {"cntrl", "dev"}

\* The interrupt lines below n.
LinesBelow(n) == {l \in Wanted : l < n}

Ladder ==
  /\ pc \in Places
  /\ pc = "failed" => held \in {{}, Registered}
  /\ pc = "dead" => held \in {Registered, Registered \cup {"vectors"}}
  /\ pc \notin {"failed", "dead"} => held = HeldAt(pc)
  /\ pc \notin {"lines", "bound", "shutdown", "power_down"} => lines = {}
  /\ pc = "lines" => \E n \in Nat : lines = LinesBelow(n)
  /\ pc \in {"bound", "shutdown", "power_down"} => lines = Wanted
  /\ refs \in Nat
  /\ "dev" \in held => refs >= 1
  /\ pc \in Removal => refs >= 2
  /\ one \in BOOLEAN

-----------------------------------------------------------------------------
(* Downloads.                                                              *)

Answers    == {"none", "ENODEV", "EINVAL", "ENOMEM", "EIO", "ETIMEDOUT", "left", "ok"}
UserPlaces == {"idle", "called", "program", "wait", "ready", "flash", "back", "dead"}

Amiss == late \/ overlap

UserTypes ==
  /\ upc \in [Users -> UserPlaces] /\ result \in [Users -> Answers]
  /\ reading \subseteq Users /\ taken \subseteq Users

\* Where the life of the controller and a download meet.
UpInv ==
  /\ pm # "disable" => pc \in Listed \cup {"gone"}
  /\ InError => pc \in {"shutdown", "power_down"}
  /\ \A u \in Users : upc[u] \in {"wait", "ready", "flash"} => pc \in Listed \cup {"gone"}
  /\ pc \in Removal \cup {"gone"} /\ Busy # {} => overlap

DownloadInv ==
  ~Amiss =>
    /\ ~torn
    /\ \A u \in reading : upc[u] = "wait" /\ status = "none"
    /\ \A u, v \in Users : upc[u] = "wait" /\ upc[v] = "wait" => u = v
    /\ \A u \in Users : upc[u] = "wait" /\ status = "success" => u \in taken
    /\ \A u \in Users : upc[u] \in {"ready", "flash"} \/ result[u] = "ok" => u \in taken

IInv == Ladder /\ UserTypes /\ UpInv /\ DownloadInv

-----------------------------------------------------------------------------
(* Probe and remove.                                                       *)

\* The steps of probe, one after the other (of_register_mhi_controller, mhi_init_pci_dev,
\* mhi_init_dev_ctxt).
LEMMA NextStep ==
  /\ Following("cntrl") = "chan"
  /\ Following("chan") = "event"
  /\ Following("event") = "cmd"
  /\ Following("cmd") = "dev"
  /\ Following("dev") = "bus"
  /\ Following("bus") = "node"
  /\ Following("node") = "list"
  /\ Following("list") = "enable"
  /\ Following("enable") = "region"
  /\ Following("region") = "master"
  /\ Following("master") = "regs"
  /\ Following("regs") = "vectors"
  /\ Following("vectors") = "irqs"
  /\ Following("irqs") = "ctxt"
  /\ Following("ctxt") = "seg"
  /\ Following("seg") = "lines"
<1>1. DOMAIN Order = 1 .. 17
  BY DEF Order
<1>2. ASSUME NEW r, NEW k \in 1 .. 16, Order[k] = r, \A i \in 1 .. 17 : Order[i] = r => i = k
      PROVE  Following(r) = Order[1 + k]
  <2>1. (CHOOSE i \in DOMAIN Order : Order[i] = r) = k
    BY <1>1, <1>2
  <2>2. QED
    BY <2>1 DEF Following
<1>3. QED
  BY <1>2 DEF Order

\* A step of probe adds its resource to what is held.
LEMMA StepHolds ==
  \A p \in Registered \cup Pci \cup Power :
    /\ HeldAt(p) \cup {p} = HeldAt(Following(p))
    /\ Following(p) \in Registered \cup Pci \cup Power \cup {"lines"}
<1>1. \A p \in Registered : HeldAt(p) \cup {p} = HeldAt(Following(p))
  BY NextStep DEF Registered, HeldAt
<1>2. \A p \in Pci : HeldAt(p) \cup {p} = HeldAt(Following(p))
  BY NextStep DEF Pci, HeldAt
<1>3. \A p \in Power : HeldAt(p) \cup {p} = HeldAt(Following(p))
  BY NextStep DEF Power, HeldAt
<1>4. \A p \in Registered \cup Pci \cup Power :
        Following(p) \in Registered \cup Pci \cup Power \cup {"lines"}
  BY NextStep DEF Registered, Pci, Power
<1>5. QED
  BY <1>1, <1>2, <1>3, <1>4

\* A failed step of the registration leaves nothing (the labels of of_register_mhi_controller).
LEMMA RegisterUndone ==
  \A p \in Registered \ {"node", "list"} :
    HeldAt(p) \ RegisterUndo(p) = {} /\ RegisterUndo(p) \subseteq HeldAt(p)
BY DEF Registered, HeldAt, RegisterUndo

\* A failed step of mhi_init_pci_dev leaves the registration, apart from a partial grant.  Two of
\* its labels also release what is not held.
LEMMA PciUndone ==
  \A p \in Pci \ {"master"} :
    /\ HeldAt(p) \ PciUndo(p) = Registered
    /\ p \notin {"enable", "region"} => PciUndo(p) \subseteq HeldAt(p)
BY DEF Registered, Pci, HeldAt, PciUndo

\* So does a failed step of mhi_power_up, and the removal up to mhi_unregister_mhi_controller.
LEMMA PowerUndone ==
  /\ HeldAt("ctxt") \ DeinitPci = Registered /\ DeinitPci \subseteq HeldAt("ctxt")
  /\ HeldAt("seg") \ (DeinitPci \cup {"ctxt"}) = Registered
  /\ DeinitPci \cup {"ctxt"} \subseteq HeldAt("seg")
  /\ HeldAt("lines") \ (DeinitPci \cup Power) = Registered
  /\ DeinitPci \cup Power \subseteq HeldAt("lines")
  /\ HeldAt("power_down") \ Power = HeldAt("deinit") /\ Power \subseteq HeldAt("power_down")
  /\ HeldAt("deinit") \ DeinitPci = HeldAt("unregister") /\ DeinitPci \subseteq HeldAt("deinit")
  /\ HeldAt("unregister") \ (Registered \ {"cntrl", "dev"}) = HeldAt("gone")
  /\ Registered \ {"cntrl", "dev"} \subseteq HeldAt("unregister")
BY DEF Registered, Pci, DeinitPci, Power, HeldAt

\* The first probe finds nothing.
LEMMA LadderStarts == Init => Ladder
BY DEF Init, Ladder, HeldAt, Registered, Pci, Power, Places, Listed, Removal

\* Registration (mhi_register_controller).
LEMMA LadderRegister == Ladder /\ Register => Ladder'
<1> SUFFICES ASSUME Ladder, Register PROVE Ladder'
  OBVIOUS
<1>1. pc \in Registered /\ held = HeldAt(pc) /\ lines = {} /\ refs \in Nat /\ one \in BOOLEAN
  BY DEF Ladder, Register, Registered, Removal
<1>2. lines' = {} /\ one' \in BOOLEAN /\ refs' \in Nat
  BY <1>1 DEF Register
<1>3. CASE held' = held \cup {pc} /\ pc' = Following(pc) /\ refs' = (IF pc = "dev" THEN 1 ELSE refs)
  <2>1. held' = HeldAt(pc') /\ pc' \in Registered \cup Pci \cup Power \cup {"lines"}
    BY <1>1, <1>3, StepHolds
  <2>2. pc' \notin Power \cup {"lines"} /\ pc' \in Registered \cup Pci
    BY <1>1, <1>3, NextStep DEF Registered, Pci, Power
  <2>3. "dev" \in held' => refs' >= 1
    BY <1>1, <1>3 DEF Ladder
  <2>4. QED
    BY <1>2, <2>1, <2>2, <2>3 DEF Ladder, Places, Listed, Removal, Registered, Pci, Power
<1>4. CASE pc \in Failing \ {"node", "list"} /\ Release(RegisterUndo(pc)) /\ pc' = "failed" /\ refs' = 0
  <2>1. held' = {}
    BY <1>1, <1>4, RegisterUndone DEF Release
  <2>2. QED
    BY <1>2, <1>4, <2>1 DEF Ladder, Places, Listed, Removal
<1>5. QED
  BY <1>3, <1>4 DEF Register

\* mhi_init_pci_dev.
LEMMA LadderPci == Ladder /\ InitPci => Ladder'
<1> SUFFICES ASSUME Ladder, InitPci PROVE Ladder'
  OBVIOUS
<1>1. /\ pc \in Pci /\ held = HeldAt(pc) /\ lines = {} /\ refs \in Nat /\ one \in BOOLEAN
      /\ "dev" \in held => refs >= 1
  BY DEF Ladder, InitPci, Pci, Removal
<1>2. lines' = {} /\ one' \in BOOLEAN /\ refs' = refs
  BY <1>1 DEF InitPci
<1>3. "dev" \in held
  BY <1>1 DEF HeldAt, Pci, Registered
<1>4. CASE held' = held \cup {pc} /\ pc' = Following(pc)
  <2>1. held' = HeldAt(pc') /\ pc' \in Registered \cup Pci \cup Power \cup {"lines"}
    BY <1>1, <1>4, StepHolds
  <2>2. pc' \in Pci \cup Power
    BY <1>1, <1>4, NextStep DEF Pci, Power
  <2>3. QED
    BY <1>1, <1>2, <1>3, <1>4, <2>1, <2>2 DEF Ladder, Places, Listed, Removal, Pci, Power
<1>5. CASE pc \in Failing \ {"master"} /\ Release(PciUndo(pc)) /\ pc' \in {"failed", "dead"}
  <2>1. held' = Registered
    BY <1>1, <1>5, PciUndone DEF Release
  <2>2. QED
    BY <1>1, <1>2, <1>3, <1>5, <2>1 DEF Ladder, Places, Listed, Removal
<1>6. CASE PartialGrant
  <2>1. pc' = "partial" /\ held' = (HeldAt("vectors") \cup {"vectors"}) \ PciUndo("vectors")
    BY <1>1, <1>6 DEF PartialGrant
  <2>2. held' = HeldAt("partial")
    BY <2>1 DEF HeldAt, PciUndo, Registered
  <2>3. QED
    BY <1>1, <1>2, <1>3, <2>1, <2>2 DEF Ladder, Places, Listed, Removal
<1>7. QED
  BY <1>4, <1>5, <1>6 DEF InitPci

\* mhi_init_dev_ctxt.
LEMMA LadderCtxt == Ladder /\ DevCtxt => Ladder'
<1> SUFFICES ASSUME Ladder, DevCtxt PROVE Ladder'
  OBVIOUS
<1>1. /\ pc \in Power /\ held = HeldAt(pc) /\ lines = {} /\ refs \in Nat /\ one \in BOOLEAN
      /\ "dev" \in held => refs >= 1
  BY DEF Ladder, DevCtxt, Power, Removal
<1>2. lines' = {} /\ one' = one /\ one' \in BOOLEAN /\ refs' = refs
  BY <1>1 DEF DevCtxt
<1>3. "dev" \in held
  BY <1>1 DEF HeldAt, Power, Registered
<1>4. CASE held' = held \cup {pc} /\ pc' = Following(pc)
  <2>1. held' = HeldAt(pc') /\ pc' \in Power \cup {"lines"}
    BY <1>1, <1>4, StepHolds, NextStep DEF Power
  <2>2. lines' = LinesBelow(0)' /\ 0 \in Nat
    BY <1>2, CtrlAssumption DEF LinesBelow, Wanted
  <2>3. QED
    BY <1>1, <1>2, <1>3, <1>4, <2>1, <2>2 DEF Ladder, Places, Listed, Removal, Power
<1>5. CASE /\ pc \in Failing /\ pc' = "failed"
           /\ Release(DeinitPci \cup IF pc = "seg" THEN {"ctxt"} ELSE {})
  <2>1. held' = Registered
    BY <1>1, <1>5, PowerUndone DEF Release, Power
  <2>2. QED
    BY <1>1, <1>2, <1>3, <1>5, <2>1 DEF Ladder, Places, Listed, Removal
<1>6. QED
  BY <1>4, <1>5 DEF DevCtxt

\* mhi_init_irq_setup: the first line that is missing is the next one.
LEMMA LadderIrq == Ladder /\ IrqSetup => Ladder'
<1> SUFFICES ASSUME Ladder, IrqSetup PROVE Ladder'
  OBVIOUS
<1>1. /\ pc = "lines" /\ held = HeldAt("lines") /\ refs \in Nat /\ one \in BOOLEAN
      /\ "dev" \in held => refs >= 1
      /\ lines # Wanted
  BY DEF Ladder, IrqSetup, Removal
<1>2. one' = one /\ refs' = refs /\ Wanted' = Wanted
  BY DEF IrqSetup, Wanted
<1>3. PICK n \in Nat : lines = LinesBelow(n)
  BY <1>1 DEF Ladder
<1>4. "dev" \in held /\ HeldAt("lines") = Registered \cup Pci \cup Power
  BY <1>1 DEF HeldAt, Registered, Power, Pci
<1> DEFINE line == CHOOSE l \in Wanted \ lines : \A k \in Wanted \ lines : l <= k
<1>5. line \in Wanted \ lines /\ \A k \in Wanted \ lines : line <= k
  <2>1. Wanted \subseteq Nat
    BY CtrlAssumption DEF Wanted
  <2>2. n \in Wanted \ lines /\ \A k \in Wanted \ lines : n <= k
    <3>1. PICK m \in Wanted : m \notin lines
      BY <1>1, <1>3 DEF LinesBelow
    <3>2. n <= m
      BY <1>3, <2>1, <3>1 DEF LinesBelow
    <3>3. n \in Wanted
      BY <2>1, <3>1, <3>2, CtrlAssumption DEF Wanted
    <3>4. QED
      BY <1>3, <2>1, <3>3 DEF LinesBelow
  <2>3. QED
    BY <2>2
<1> HIDE DEF line
<1>6. PICK m \in Nat : m = line /\ \A l \in Wanted : l \in Nat /\ (l \in lines <=> l < m)
  <2>1. line \in Nat /\ Wanted \subseteq Nat
    BY <1>5, CtrlAssumption DEF Wanted
  <2>2. \A l \in Wanted : l \in lines <=> l < line
    BY <1>3, <1>5, <2>1 DEF LinesBelow
  <2>3. QED
    BY <2>1, <2>2
<1>7. CASE lines' = lines \cup {line} /\ UNCHANGED <<held, wrong, pc>>
  <2>1. \A l \in Wanted : l \in lines' <=> l < m + 1
    BY <1>6, <1>7
  <2>2. lines' \subseteq Wanted
    BY <1>3, <1>5, <1>7 DEF LinesBelow
  <2>3. lines' = LinesBelow(m + 1)' /\ m + 1 \in Nat
    BY <1>2, <2>1, <2>2 DEF LinesBelow
  <2>4. QED
    BY <1>1, <1>2, <1>7, <2>3 DEF Ladder, Places, Removal
<1>8. CASE /\ lines' = lines \ (0 .. line) /\ Release(DeinitPci \cup Power) /\ pc' = "failed"
  <2>1. held' = Registered
    BY <1>1, <1>8, PowerUndone DEF Release
  <2>2. lines' = {}
    <3>1. \A l \in lines : l \in 0 .. m
      BY <1>3, <1>6 DEF LinesBelow
    <3>2. QED
      BY <1>6, <1>8, <3>1
  <2>3. QED
    BY <1>1, <1>2, <1>4, <1>8, <2>1, <2>2 DEF Ladder, Places, Listed, Removal
<1>9. QED
  BY <1>7, <1>8 DEF IrqSetup, line

\* mhi_async_power_up, and another probe.
LEMMA LadderUp == Ladder /\ (PowerUp \/ Probe) => Ladder'
<1> SUFFICES ASSUME Ladder, PowerUp \/ Probe PROVE Ladder'
  OBVIOUS
<1>1. refs \in Nat /\ one \in BOOLEAN /\ ("dev" \in held => refs >= 1)
  BY DEF Ladder
<1>2. one' = one /\ Wanted' = Wanted
  BY DEF PowerUp, Probe, Wanted
<1>3. HeldAt("lines") = Registered \cup Pci \cup Power /\ HeldAt("bound") = HeldAt("lines")
  BY DEF HeldAt
<1>4. "dev" \in Registered
  BY DEF Registered
<1>5. CASE PowerUp /\ pc' = "bound" /\ UNCHANGED <<held, lines, wrong>>
  <2>1. pc = "lines" /\ held = HeldAt("lines") /\ lines = Wanted /\ refs' = refs
    BY <1>5 DEF PowerUp, Ladder
  <2>2. QED
    BY <1>1, <1>2, <1>3, <1>5, <2>1 DEF Ladder, Places, Listed, Removal
<1>6. CASE PowerUp /\ lines' = {} /\ Release(DeinitPci \cup Power) /\ pc' = "failed"
  <2>1. pc = "lines" /\ held = HeldAt("lines") /\ refs' = refs
    BY <1>6 DEF PowerUp, Ladder
  <2>2. held' = Registered
    BY <1>6, <2>1, PowerUndone DEF Release
  <2>3. QED
    BY <1>1, <1>2, <1>3, <1>4, <1>6, <2>1, <2>2 DEF Ladder, Places, Listed, Removal
<1>7. CASE Probe
  <2>1. pc = "failed" /\ held \in {{}, Registered} /\ lines = {} /\ held' = held /\ lines' = lines
    BY <1>7 DEF Probe, Ladder
  <2>2. HeldAt("enable") = Registered /\ HeldAt("cntrl") = {} /\ "bus" \in Registered
    BY DEF HeldAt, Registered
  <2>3. CASE "bus" \in held
    <3>1. held = Registered /\ pc' = "enable" /\ refs' = refs + 1
      BY <1>7, <2>1, <2>3 DEF Probe
    <3>2. QED
      BY <1>1, <1>2, <2>1, <2>2, <3>1 DEF Ladder, Places, Listed, Removal, Pci
  <2>4. CASE "bus" \notin held
    <3>1. held = {} /\ pc' = "cntrl" /\ refs' = refs
      BY <1>7, <2>1, <2>2, <2>4 DEF Probe
    <3>2. QED
      BY <1>1, <1>2, <2>1, <2>2, <3>1 DEF Ladder, Places, Listed, Removal, Registered
  <2>5. QED
    BY <2>3, <2>4
<1>8. QED
  BY <1>5, <1>6, <1>7 DEF PowerUp

\* mhi_pci_device_removed: of the two references the second is that of the removal itself.
LEMMA LadderRemove ==
  Ladder /\ (RemoveStart \/ RemovePartial \/ Shutdown \/ PowerDown \/ Deinit \/ Unregister) => Ladder'
<1> SUFFICES ASSUME Ladder, RemoveStart \/ RemovePartial \/ Shutdown \/ PowerDown \/ Deinit \/ Unregister
             PROVE  Ladder'
  OBVIOUS
<1>1. /\ refs \in Nat /\ one \in BOOLEAN /\ ("dev" \in held => refs >= 1)
      /\ pc \in Removal => refs >= 2
  BY DEF Ladder
<1>2. one' = one /\ Wanted' = Wanted
  BY DEF RemoveStart, RemovePartial, Shutdown, PowerDown, Deinit, Unregister, Wanted
<1>3. /\ HeldAt("bound") = HeldAt("lines") /\ HeldAt("shutdown") = HeldAt("lines")
      /\ HeldAt("power_down") = HeldAt("lines") /\ "dev" \in HeldAt("lines")
  BY DEF HeldAt, Registered
<1>4. CASE RemoveStart
  <2>1. /\ pc = "bound" /\ pc' = "shutdown" /\ refs' = refs + 1 /\ held = HeldAt("bound")
        /\ held' = held /\ lines' = lines /\ lines = Wanted
    BY <1>4 DEF RemoveStart, Ladder
  <2>2. QED
    BY <1>1, <1>2, <1>3, <2>1 DEF Ladder, Places, Listed, Removal
<1>5. CASE Shutdown
  <2>1. /\ pc = "shutdown" /\ pc' = "power_down" /\ refs' = refs /\ held = HeldAt("shutdown")
        /\ held' = held /\ lines' = lines /\ lines = Wanted
    BY <1>5 DEF Shutdown, Ladder, resources
  <2>2. QED
    BY <1>1, <1>2, <1>3, <2>1 DEF Ladder, Places, Listed, Removal
<1>6. CASE PowerDown
  <2>1. pc = "power_down" /\ pc' = "deinit" /\ refs' = refs /\ held = HeldAt("power_down") /\ lines' = {}
    BY <1>6 DEF PowerDown, Ladder
  <2>2. held' = HeldAt("deinit")
    BY <1>6, <2>1, PowerUndone DEF PowerDown, Release
  <2>3. QED
    BY <1>1, <1>2, <2>1, <2>2 DEF Ladder, Places, Listed, Removal
<1>7. CASE Deinit
  <2>1. pc = "deinit" /\ pc' = "unregister" /\ refs' = refs /\ held = HeldAt("deinit") /\ lines' = lines /\ lines = {}
    BY <1>7 DEF Deinit, Ladder
  <2>2. held' = HeldAt("unregister")
    BY <1>7, <2>1, PowerUndone DEF Deinit, Release
  <2>3. QED
    BY <1>1, <1>2, <2>1, <2>2 DEF Ladder, Places, Listed, Removal
<1>8. CASE Unregister
  <2>1. pc = "unregister" /\ pc' = "gone" /\ refs' = refs - 1 /\ held = HeldAt("unregister") /\ lines' = lines /\ lines = {}
    BY <1>8 DEF Unregister, Ladder
  <2>2. refs >= 2
    BY <1>1, <2>1 DEF Removal
  <2>3. held' = HeldAt("gone")
    BY <1>1, <1>8, <2>1, <2>2, PowerUndone DEF Unregister, Release
  <2>4. QED
    BY <1>1, <1>2, <2>1, <2>2, <2>3 DEF Ladder, Places, Listed, Removal
<1>9. CASE RemovePartial
  <2>1. /\ pc = "partial" /\ pc' = "dead" /\ refs' = refs + 1 /\ held = HeldAt("partial")
        /\ held' = held /\ lines' = lines /\ lines = {}
    BY <1>9 DEF RemovePartial, Ladder
  <2>2. held' = Registered \cup {"vectors"}
    BY <2>1 DEF HeldAt
  <2>3. QED
    BY <1>1, <1>2, <2>1, <2>2 DEF Ladder, Places, Listed, Removal
<1>10. QED
  BY <1>4, <1>5, <1>6, <1>7, <1>8, <1>9

\* Whatever happens, probe and remove stay on the ladder.
LEMMA LadderStays == Ladder /\ [Next]_vars => Ladder'
<1> SUFFICES ASSUME Ladder, [Next]_vars PROVE Ladder'
  OBVIOUS
<1>1. CASE Life
  BY <1>1, LadderRegister, LadderPci, LadderCtxt, LadderIrq, LadderUp, LadderRemove DEF Life
<1>2. CASE UNCHANGED <<held, lines, refs, one, pc>>
  BY <1>2 DEF Ladder, LinesBelow, Wanted
<1>3. ASSUME NEW u \in Users, User(u) PROVE UNCHANGED <<held, lines, refs, one, pc>>
  BY <1>3 DEF User, Call, Enter, Program, Wait, Ready, Flash, resources
<1>4. ASSUME NEW u \in Users, ModemRead(u) PROVE UNCHANGED <<held, lines, refs, one, pc>>
  BY <1>4 DEF ModemRead, resources
<1>5. ModemRun \/ UNCHANGED vars => UNCHANGED <<held, lines, refs, one, pc>>
  BY DEF ModemRun, resources, vars
<1>6. QED
  BY <1>1, <1>2, <1>3, <1>4, <1>5 DEF Next

\* Nothing is released that is not held, if pci_enable_device and pci_request_region succeed: the
\* label of the one releases what only the other takes, and the other way round.
LEMMA ReleasesHeld ==
  ASSUME Failing \cap {"enable", "region"} = {}, Ladder, wrong = {}, [Next]_vars
  PROVE  wrong' = {}
<1>1. ASSUME NEW rs, rs \subseteq held, Release(rs) PROVE wrong' = {}
  BY <1>1 DEF Release
<1>2. CASE UNCHANGED wrong
  BY <1>2
<1>3. CASE Register
  <2>1. pc \in Registered /\ held = HeldAt(pc)
    BY <1>3 DEF Ladder, Register, Registered
  <2>2. CASE pc \in Failing \ {"node", "list"} /\ Release(RegisterUndo(pc))
    BY <1>1, <2>1, <2>2, RegisterUndone
  <2>3. QED
    BY <1>2, <1>3, <2>2 DEF Register
<1>4. CASE InitPci
  <2>1. pc \in Pci /\ held = HeldAt(pc)
    BY <1>4 DEF Ladder, InitPci, Pci
  <2>2. CASE pc \in Failing \ {"master"} /\ Release(PciUndo(pc))
    <3>1. PciUndo(pc) \subseteq held
      BY <2>1, <2>2, PciUndone
    <3>2. QED
      BY <1>1, <2>2, <3>1
  <2>3. CASE PartialGrant
    <3>1. PciUndo("vectors") \subseteq held /\ wrong' = wrong \cup (PciUndo("vectors") \ held)
      BY <2>1, <2>3, PciUndone DEF PartialGrant, Pci
    <3>2. QED
      BY <3>1
  <2>4. QED
    BY <1>2, <1>4, <2>2, <2>3 DEF InitPci
<1>5. CASE DevCtxt
  <2>1. pc \in Power /\ held = HeldAt(pc)
    BY <1>5 DEF Ladder, DevCtxt, Power
  <2>2. CASE Release(DeinitPci \cup IF pc = "seg" THEN {"ctxt"} ELSE {})
    <3>1. DeinitPci \cup (IF pc = "seg" THEN {"ctxt"} ELSE {}) \subseteq held
      BY <2>1, PowerUndone DEF Power
    <3>2. QED
      BY <1>1, <2>2, <3>1
  <2>3. QED
    BY <1>2, <1>5, <2>2 DEF DevCtxt
<1>6. CASE IrqSetup \/ PowerUp
  <2>1. DeinitPci \cup Power \subseteq held
    BY <1>6, PowerUndone DEF Ladder, IrqSetup, PowerUp
  <2>2. UNCHANGED wrong \/ Release(DeinitPci \cup Power)
    BY <1>6 DEF IrqSetup, PowerUp
  <2>3. QED
    BY <1>1, <1>2, <2>1, <2>2
<1>7. CASE PowerDown
  <2>1. Power \subseteq held /\ Release(Power)
    BY <1>7, PowerUndone DEF Ladder, PowerDown
  <2>2. QED
    BY <1>1, <2>1
<1>8. CASE Deinit
  <2>1. DeinitPci \subseteq held /\ Release(DeinitPci)
    BY <1>8, PowerUndone DEF Ladder, Deinit
  <2>2. QED
    BY <1>1, <2>1
<1>9. CASE Unregister
  <2>1. held = HeldAt("unregister") /\ refs >= 2 /\ refs \in Nat
    BY <1>9 DEF Ladder, Unregister, Removal
  <2>2. Release(Registered \ {"cntrl", "dev"})
    BY <1>9, <2>1 DEF Unregister
  <2>3. QED
    BY <1>1, <2>1, <2>2, PowerUndone
<1>10. CASE Probe \/ RemoveStart \/ RemovePartial \/ Shutdown \/ ModemRun \/ UNCHANGED vars
  BY <1>2, <1>10 DEF Probe, RemoveStart, RemovePartial, Shutdown, ModemRun, resources, vars
<1>11. CASE \E u \in Users : User(u) \/ ModemRead(u)
  BY <1>2, <1>11 DEF User, Call, Enter, Program, Wait, Ready, Flash, ModemRead, resources
<1>12. QED
  BY <1>3, <1>4, <1>5, <1>6, <1>7, <1>8, <1>9, <1>10, <1>11 DEF Next, Life

\* Whichever steps of probe fail, and however often it is called again, its labels give back
\* exactly what was taken, and so does a removal (mhi_pci_probe, mhi_pci_device_removed), but for
\* the vectors of a partial grant, and as long as the two steps whose labels are mixed up do not
\* fail (mhi_init_pci_dev).
THEOREM LaddersUndo ==
  ASSUME Failing \cap {"enable", "region"} = {}
  PROVE  Spec => []Undone
<1>1. Init => Ladder /\ wrong = {}
  BY LadderStarts DEF Init
<1>2. Ladder /\ wrong = {} /\ [Next]_vars => (Ladder /\ wrong = {})'
  BY LadderStays, ReleasesHeld
<1>3. Ladder /\ wrong = {} => Undone
  BY DEF Ladder, Undone, HeldAt
<1>4. QED
  BY <1>1, <1>2, <1>3, PTL DEF Spec

-----------------------------------------------------------------------------
(* Downloads: types, and where they can be under way.                      *)

\* Before the first call.
LEMMA DownloadStarts == Init => UserTypes /\ UpInv /\ DownloadInv
<1> SUFFICES ASSUME Init PROVE UserTypes /\ UpInv /\ DownloadInv
  OBVIOUS
<1>1. \A u \in Users : upc[u] = "idle" /\ result[u] = "none"
  BY DEF Init
<1>2. UserTypes
  BY DEF Init, UserTypes, UserPlaces, Answers
<1>3. UpInv
  BY <1>1 DEF Init, UpInv, InError, Listed, Removal, Busy
<1>4. DownloadInv
  BY <1>1 DEF Init, DownloadInv
<1>5. QED
  BY <1>2, <1>3, <1>4

\* What a step of a user does to its own label and answer.
LEMMA GotoType ==
  ASSUME UserTypes, NEW u \in Users, NEW l \in UserPlaces
  PROVE  /\ Goto(u, l) => upc' \in [Users -> UserPlaces] /\ upc'[u] = l
         /\ Goto(u, l) => \A v \in Users \ {u} : upc'[v] = upc[v]
BY DEF UserTypes, Goto

LEMMA BackType ==
  ASSUME UserTypes, NEW u \in Users, NEW r \in Answers
  PROVE  /\ Back(u, r) => result' \in [Users -> Answers] /\ result'[u] = r /\ Goto(u, "back")
         /\ Back(u, r) => \A v \in Users \ {u} : result'[v] = result[v]
BY DEF UserTypes, Back

\* Users keep to their places (bhi_write_image, BhiWrite).
LEMMA TypesStay == UserTypes /\ [Next]_vars => UserTypes'
<1> SUFFICES ASSUME UserTypes, [Next]_vars PROVE UserTypes'
  OBVIOUS
<1>1. CASE UNCHANGED <<upc, result, reading, taken>>
  BY <1>1 DEF UserTypes
<1>2. Life \/ ModemRun \/ UNCHANGED vars => UNCHANGED <<upc, result, reading, taken>>
  BY DEF Life, Register, InitPci, DevCtxt, IrqSetup, PowerUp, Probe, RemoveStart, RemovePartial, Shutdown,
         PowerDown, Deinit, Unregister, ModemRun, users, modem, vars
<1>3. ASSUME NEW u \in Users, ModemRead(u) PROVE UserTypes'
  BY <1>3 DEF ModemRead, users, UserTypes
<1>4. ASSUME NEW u \in Users, User(u) PROVE UserTypes'
  <2>1. taken' = taken /\ reading' \in {reading, reading \cup {u}}
    BY <1>4 DEF User, Call, Enter, Program, Wait, Ready, Flash, modem
  <2>2. PICK l \in UserPlaces : Goto(u, l)
    BY <1>4 DEF User, Call, Enter, Program, Wait, Ready, Flash, Back, Fault, UserPlaces
  <2>3. result' = result \/ \E r \in Answers : Back(u, r)
    BY <1>4 DEF User, Call, Enter, Program, Wait, Ready, Flash, Answers
  <2>4. upc' \in [Users -> UserPlaces] /\ result' \in [Users -> Answers]
    BY <2>2, <2>3, GotoType, BackType DEF UserTypes
  <2>5. QED
    BY <2>1, <2>4 DEF UserTypes
<1>5. QED
  BY <1>1, <1>2, <1>3, <1>4 DEF Next

\* What went amiss is not forgotten.
LEMMA OverlapStays ==
  ASSUME NEW u \in Users, User(u)
  PROVE  (overlap => overlap') /\ (late => late')
<1>1. CASE Call(u)
  BY <1>1 DEF Call
<1>2. CASE Enter(u)
  BY <1>2 DEF Enter
<1>3. CASE Program(u)
  <2>1. overlap' = (overlap \/ \E v \in Users : upc[v] = "wait") \/ UNCHANGED overlap
    BY <1>3 DEF Program
  <2>2. overlap => overlap'
    BY <2>1, Zenon
  <2>3. QED
    BY <1>3, <2>2 DEF Program
<1>4. CASE Wait(u)
  BY <1>4 DEF Wait
<1>5. CASE Ready(u) \/ Flash(u)
  BY <1>5 DEF Ready, Flash
<1>6. QED
  BY <1>1, <1>2, <1>3, <1>4, <1>5 DEF User

\* A user is in the wait for an image, or after it, only while the controller is there or is being
\* removed; and a removal that meets a user is an overlap.
LEMMA UpStays == Ladder /\ UserTypes /\ UpInv /\ [Next]_vars => UpInv'
<1> SUFFICES ASSUME Ladder, UserTypes, UpInv, [Next]_vars PROVE UpInv'
  OBVIOUS
<1> USE DEF Listed, Removal
<1>1. CASE UNCHANGED <<upc, pm, pc>> /\ (overlap => overlap')
  BY <1>1 DEF UpInv, InError, Busy
<1>2. CASE Life
  <2>1. upc' = upc /\ Busy' = Busy
    BY <1>2 DEF Life, Register, InitPci, DevCtxt, IrqSetup, PowerUp, Probe, RemoveStart, RemovePartial, Shutdown,
                PowerDown, Deinit, Unregister, users, Busy
  <2>2. CASE Register \/ InitPci \/ DevCtxt \/ IrqSetup \/ Probe
    <3>1. pc \notin {"bound", "gone"} \cup Removal /\ pm' = pm
      BY <2>2 DEF Register, Registered, InitPci, Pci, DevCtxt, Power, IrqSetup, Probe
    <3>2. pc' \notin {"bound", "gone"} \cup Removal
      BY <2>2, StepHolds, NextStep
      DEF Register, InitPci, PartialGrant, DevCtxt, IrqSetup, Probe, Registered, Pci, Power
    <3>3. QED
      BY <2>1, <3>1, <3>2 DEF UpInv, InError
  <2>3. CASE PowerUp
    <3>1. pc = "lines" /\ ((pm' = "por" /\ pc' = "bound") \/ (pm' = pm /\ pc' = "failed"))
      BY <2>3 DEF PowerUp
    <3>2. QED
      BY <2>1, <3>1 DEF UpInv, InError
  <2>4. CASE RemoveStart \/ RemovePartial
    BY <2>1, <2>4 DEF RemoveStart, RemovePartial, UpInv, InError
  <2>5. CASE Shutdown
    BY <2>1, <2>5 DEF Shutdown, UpInv, InError, marks
  <2>6. CASE PowerDown
    BY <2>1, <2>6 DEF PowerDown, UpInv, InError, marks
  <2>7. CASE Deinit \/ Unregister
    BY <2>1, <2>7 DEF Deinit, Unregister, UpInv, InError, marks
  <2>8. QED
    BY <1>2, <2>2, <2>3, <2>4, <2>5, <2>6, <2>7 DEF Life
<1>3. ASSUME NEW u \in Users, User(u) PROVE UpInv'
  <2>1. PICK l \in UserPlaces : Goto(u, l)
    BY <1>3 DEF User, Call, Enter, Program, Wait, Ready, Flash, Back, Fault, UserPlaces
  <2>2. upc'[u] = l /\ \A v \in Users \ {u} : upc'[v] = upc[v]
    BY <2>1, GotoType
  <2>3. pc' = pc /\ (overlap => overlap')
    BY <1>3, OverlapStays DEF User, Call, Enter, Program, Wait, Ready, Flash
  <2>4. CASE Call(u)
    <3>1. pm' = pm /\ (pc \in Removal => overlap')
      BY <2>4 DEF Call
    <3>2. IF "list" \in held THEN l = "called" ELSE l = "back"
      BY <2>1, <2>2, <2>4 DEF Call, Goto, Back, UserTypes
    <3>5. pc = "gone" => "list" \notin held
      BY DEF Ladder, HeldAt
    <3>3. Busy' \subseteq Busy \cup {u} /\ (l = "back" => Busy' \subseteq Busy)
      BY <2>2 DEF Busy
    <3>6. QED
      BY <2>2, <2>3, <3>1, <3>2, <3>3, <3>5 DEF UpInv, InError
  <2>5. CASE ~Call(u)
    <3>1. u \in Busy
      BY <1>3, <2>5 DEF User, Enter, Program, Wait, Ready, Flash, Busy
    <3>2. pc \in Removal \cup {"gone"} => overlap'
      BY <2>3, <3>1 DEF UpInv
    <3>3. l \in {"wait", "ready", "flash"} => pc \in Listed \cup {"gone"}
      <4>1. l = upc'[u] /\ (Goto(u, "back") => l = "back") /\ (Goto(u, "dead") => l = "dead")
        BY <2>1, <2>2 DEF Goto, UserTypes
      <4>2. Goto(u, "program") => l = "program"
        BY <2>1, <2>2 DEF Goto, UserTypes
      <4>3. CASE Enter(u)
        BY <4>1, <4>2, <4>3 DEF Enter, Back, Fault
      <4>4. CASE Program(u)
        BY <4>1, <4>4 DEF Program, Back, Fault, Writable, UpInv
      <4>5. CASE Wait(u) \/ Ready(u) \/ Flash(u)
        BY <4>5 DEF Wait, Ready, Flash, UpInv
      <4>6. QED
        BY <1>3, <2>5, <4>3, <4>4, <4>5 DEF User
    <3>4. pm' = pm \/ (upc[u] = "ready" /\ pm' = "por" /\ ~InError)
      BY <1>3, <2>5 DEF User, Enter, Program, Wait, Ready, Flash
    <3>5. QED
      BY <2>2, <2>3, <3>2, <3>3, <3>4 DEF UpInv, InError
  <2>6. QED
    BY <2>4, <2>5
<1>4. ASSUME NEW u \in Users, ModemRead(u) PROVE UNCHANGED <<upc, pm, pc, overlap>>
  BY <1>4 DEF ModemRead, users, marks
<1>5. ModemRun \/ UNCHANGED vars => UNCHANGED <<upc, pm, pc, overlap>>
  BY DEF ModemRun, users, marks, vars
<1>6. QED
  BY <1>1, <1>2, <1>3, <1>4, <1>5 DEF Next

-----------------------------------------------------------------------------
(* Downloads: the image that was asked for.                                *)

\* A user whose wait nothing has disturbed finds the controller up.
LEMMA WaitsUp ==
  ASSUME Ladder, UpInv, ~overlap, NEW u \in Users, upc[u] = "wait"
  PROVE  "regs" \in held /\ ~InError
<1>1. u \in Busy
  BY DEF Busy
<1>2. pc = "bound"
  BY <1>1 DEF UpInv, Listed
<1>3. QED
  BY <1>2 DEF Ladder, HeldAt, Pci, UpInv

\* The call up to mhi_fw_load_sbl (mhi_cntrl_ioctl, BhiWrite).
LEMMA DownloadEnter ==
  ASSUME UserTypes, DownloadInv, NEW u \in Users, Call(u) \/ Enter(u)
  PROVE  DownloadInv'
<1>1. UNCHANGED <<reading, taken, status, torn>> /\ (Amiss => Amiss')
  <2>1. UNCHANGED <<reading, taken, status, torn>>
    BY DEF Call, Enter, modem
  <2>2. QED
    BY <2>1, OverlapStays DEF User, Amiss
<1>2. upc[u] \in {"idle", "called"}
  BY DEF Call, Enter
<1>3. /\ upc'[u] \in {"called", "back", "program", "dead"}
      /\ \A v \in Users \ {u} : upc'[v] = upc[v]
  BY DEF Call, Enter, Goto, Back, Fault, UserTypes
<1>4. /\ result'[u] \in {result[u], "ENODEV", "EINVAL", "ENOMEM"}
      /\ \A v \in Users \ {u} : result'[v] = result[v]
  BY DEF Call, Enter, Back, Fault, UserTypes
<1>5. QED
  BY <1>1, <1>2, <1>3, <1>4 DEF DownloadInv, UserTypes

\* mhi_fw_load_sbl up to its wait: an image that is alone in the wait starts with no status.
LEMMA DownloadProgram ==
  ASSUME UserTypes, DownloadInv, NEW u \in Users, Program(u)
  PROVE  DownloadInv'
<1>1. Amiss => Amiss'
  BY OverlapStays DEF User, Amiss
<1>2. upc[u] = "program" /\ taken' = taken
  BY DEF Program
<1>3. SUFFICES ASSUME ~Amiss' PROVE DownloadInv'
  BY DEF DownloadInv
<1>4. ~Amiss /\ u \notin reading /\ ~torn
  BY <1>1, <1>2, <1>3 DEF DownloadInv
<1>5. CASE /\ status' = "none" /\ reading' = reading \cup {u} /\ Goto(u, "wait")
           /\ overlap' = (overlap \/ \E v \in Users : upc[v] = "wait")
           /\ UNCHANGED <<torn, result>>
  <2>1. \A v \in Users : upc[v] # "wait"
    BY <1>3, <1>5 DEF Amiss
  <2>2. reading' = {u}
    BY <1>4, <1>5, <2>1 DEF DownloadInv, UserTypes
  <2>3. upc'[u] = "wait" /\ \A v \in Users \ {u} : upc'[v] = upc[v]
    BY <1>5, GotoType DEF UserPlaces
  <2>4. QED
    BY <1>2, <1>4, <1>5, <2>1, <2>2, <2>3 DEF DownloadInv
<1>6. CASE Fault(u) /\ UNCHANGED <<status, reading, overlap, torn, result>>
  <2>1. upc'[u] = "dead" /\ \A v \in Users \ {u} : upc'[v] = upc[v]
    BY <1>6, GotoType DEF Fault, UserPlaces
  <2>2. QED
    BY <1>2, <1>4, <1>6, <2>1 DEF DownloadInv, UserTypes
<1>7. CASE FreeBuf(u) /\ Back(u, "EIO") /\ UNCHANGED <<status, reading, overlap>>
  <2>1. /\ upc'[u] = "back" /\ \A v \in Users \ {u} : upc'[v] = upc[v]
        /\ result'[u] = "EIO" /\ \A v \in Users \ {u} : result'[v] = result[v]
    BY <1>7 DEF Back, Goto, UserTypes
  <2>2. ~torn'
    BY <1>4, <1>7 DEF FreeBuf
  <2>3. QED
    BY <1>2, <1>4, <1>7, <2>1, <2>2 DEF DownloadInv, UserTypes
<1>8. QED
  BY <1>5, <1>6, <1>7 DEF Program

\* The wait of mhi_fw_load_sbl ends with the status of its own image.
LEMMA DownloadWait ==
  ASSUME Ladder, UserTypes, UpInv, DownloadInv, NEW u \in Users, Wait(u)
  PROVE  DownloadInv'
<1>1. Amiss => Amiss'
  BY OverlapStays DEF User, Amiss
<1>2. upc[u] = "wait" /\ UNCHANGED <<status, reading, taken, overlap>>
  BY DEF Wait, modem
<1>3. SUFFICES ASSUME ~Amiss' PROVE DownloadInv'
  BY DEF DownloadInv
<1>4. ~Amiss /\ ~torn
  BY <1>1, <1>3 DEF DownloadInv
<1>5. "regs" \in held /\ ~InError
  BY <1>2, <1>4, WaitsUp DEF Amiss
<1>6. ~(late' = TRUE)
  BY <1>3 DEF Amiss
<1>7. /\ status # "none" /\ FreeBuf(u)
      /\ IF status = "success" THEN Goto(u, "ready") /\ result' = result ELSE Back(u, "EIO")
  BY <1>5, <1>6 DEF Wait, Fault
<1>8. u \notin reading
  BY <1>4, <1>7 DEF DownloadInv
<1>9. ~torn'
  BY <1>4, <1>7, <1>8 DEF FreeBuf
<1>10. CASE status = "success"
  <2>1. upc'[u] = "ready" /\ result' = result /\ \A v \in Users \ {u} : upc'[v] = upc[v]
    BY <1>7, <1>10, GotoType DEF UserPlaces
  <2>2. u \in taken
    BY <1>2, <1>4, <1>10 DEF DownloadInv
  <2>3. QED
    BY <1>2, <1>4, <1>8, <1>9, <2>1, <2>2 DEF DownloadInv, UserTypes
<1>11. CASE status # "success"
  <2>1. /\ upc'[u] = "back" /\ \A v \in Users \ {u} : upc'[v] = upc[v]
        /\ result'[u] = "EIO" /\ \A v \in Users \ {u} : result'[v] = result[v]
    BY <1>7, <1>11 DEF Back, Goto, UserTypes
  <2>2. QED
    BY <1>2, <1>4, <1>8, <1>9, <2>1 DEF DownloadInv, UserTypes
<1>12. QED
  BY <1>10, <1>11

\* The waits for the modem to reset and for the flash programmer (BhiWrite).
LEMMA DownloadFlash ==
  ASSUME UserTypes, DownloadInv, NEW u \in Users, Ready(u) \/ Flash(u)
  PROVE  DownloadInv'
<1>1. UNCHANGED <<reading, taken, status, torn, late, overlap>>
  BY DEF Ready, Flash, modem
<1>2. upc[u] \in {"ready", "flash"}
  BY DEF Ready, Flash
<1>3. upc'[u] \in {"flash", "back", "dead"} /\ \A v \in Users \ {u} : upc'[v] = upc[v]
  BY DEF Ready, Flash, Goto, Back, Fault, UserTypes
<1>4. \A v \in Users \ {u} : result'[v] = result[v]
  BY DEF Ready, Flash, Back, UserTypes
<1>5. QED
  BY <1>1, <1>2, <1>3, <1>4 DEF DownloadInv, Amiss, UserTypes

\* The modem has read the only image there is to read.
LEMMA DownloadRead ==
  ASSUME UserTypes, DownloadInv, NEW u \in Users, ModemRead(u)
  PROVE  DownloadInv'
<1>1. u \in reading /\ reading' = reading \ {u} /\ UNCHANGED <<upc, result, torn, late, overlap>>
  BY DEF ModemRead, users, marks
<1>2. \/ status' = "success" /\ taken' = taken \cup {u}
      \/ status' = "error" /\ taken' = taken
  BY DEF ModemRead
<1>3. SUFFICES ASSUME ~Amiss PROVE DownloadInv'
  BY <1>1 DEF DownloadInv, Amiss
<1>4. upc[u] = "wait" /\ reading' = {}
  BY <1>1, <1>3 DEF DownloadInv, UserTypes
<1>5. QED
  BY <1>1, <1>2, <1>3, <1>4 DEF DownloadInv

LEMMA DownloadStays ==
  ASSUME Ladder, UserTypes, UpInv, DownloadInv, [Next]_vars
  PROVE  DownloadInv'
<1>1. CASE UNCHANGED <<upc, result, reading, taken, status, torn>> /\ (Amiss => Amiss')
  BY <1>1 DEF DownloadInv
<1>2. CASE Life
  <2>1. UNCHANGED <<upc, result, reading, taken, status, torn, late>>
    BY <1>2 DEF Life, Register, InitPci, DevCtxt, IrqSetup, PowerUp, Probe, RemoveStart, RemovePartial, Shutdown,
                PowerDown, Deinit, Unregister, users, modem, marks
  <2>2. CASE RemoveStart \/ RemovePartial
    <3>1. overlap' = (overlap \/ Busy # {})
      BY <2>2 DEF RemoveStart, RemovePartial
    <3>2. overlap => overlap'
      BY <3>1, Zenon
    <3>3. QED
      BY <1>1, <2>1, <3>2 DEF Amiss
  <2>3. CASE UNCHANGED overlap
    BY <1>1, <2>1, <2>3 DEF Amiss
  <2>4. QED
    BY <1>2, <2>2, <2>3 DEF Life, Register, InitPci, DevCtxt, IrqSetup, PowerUp, Probe, Shutdown,
                            PowerDown, Deinit, Unregister, marks
<1>3. CASE ModemRun \/ UNCHANGED vars
  <2>1. UNCHANGED <<upc, result, reading, taken, status, torn, late, overlap>>
    BY <1>3 DEF ModemRun, users, modem, marks, vars
  <2>2. QED
    BY <1>1, <2>1 DEF Amiss
<1>4. ASSUME NEW u \in Users, User(u) PROVE DownloadInv'
  BY <1>4, DownloadEnter, DownloadProgram, DownloadWait, DownloadFlash DEF User
<1>5. ASSUME NEW u \in Users, ModemRead(u) PROVE DownloadInv'
  BY <1>5, DownloadRead
<1>6. QED
  BY <1>2, <1>3, <1>4, <1>5 DEF Next

\* For any number of users, probes and removals, and whichever steps fail: a buffer is freed under
\* the modem, or a user told that an image was written that the modem never read, only if a wait
\* ran out, two images were written at once, or the device was removed during a call (BhiWrite,
\* mhi_fw_load_sbl).
THEOREM ImageDelivered == Spec => []Loaded
<1>1. Init => IInv
  BY LadderStarts, DownloadStarts DEF IInv
<1>2. IInv /\ [Next]_vars => IInv'
  BY LadderStays, TypesStay, UpStays, DownloadStays DEF IInv
<1>3. IInv => Loaded
  BY DEF IInv, DownloadInv, Loaded, ImageWhole, TrueAnswer, Amiss
<1>4. QED
  BY <1>1, <1>2, <1>3, PTL DEF Spec
=============================================================================

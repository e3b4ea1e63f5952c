# Specifications of the MHI modem driver of the RK3588 board build

The repository builds images for RK3588 boards with a set of shell scripts, and
carries one C program of its own weight: the PCIe MHI driver of the cellular
modem (`boards/rk3588-muse/pcie-mhi-driver`).  The driver is where concurrency,
failure and ordering are hard; it is what is modelled, checked and proved about
here.  Section 12 says what is not modelled, and why.

Paths below are relative to `src/`; driver paths to
`src/boards/rk3588-muse/pcie-mhi-driver/`.

## 1. Inventory

### The driver

The driver's `Makefile` compiles `core/{mhi_init,mhi_main,mhi_pm,mhi_boot,mhi_dtr}.c`,
`controllers/mhi_qti.c`, `devices/mhi_uci.c` and `devices/mhi_netdev_quectel.c`.
The other C files (`mhi_qcom.c`, `mhi_arch_qti.c`, `mhi_netdev.c`,
`mhi_satellite.c`) are not built.

| component | state | operations | talks to | module |
|---|---|---|---|---|
| power management (`mhi_pm.c`) | `pm_state`, `dev_state`, `ee` under `pm_lock`; `pm_mutex`; `transition_list`; four work items | `mhi_tryset_pm_state`, the M0/M1/M3/READY/mission-mode transitions, `mhi_pm_disable_transition`, power up and down, suspend, resume | modem by MHICTRL, MHISTATUS and the wake doorbell; everybody who reads `pm_state` | `MhiPm` |
| control events and interrupts (`mhi_main.c`) | event ring pointers, tasklets | `mhi_process_ctrl_ev_ring`, `mhi_intvec_threaded_handlr` | turns modem events into transitions and work | `MhiPm` |
| transfer rings (`mhi_main.c`) | `tre_ring`, `buf_ring`, `ch_state`, `pending_pkts`, doorbell mode | `mhi_queue_skb`, `mhi_queue_buf`, `parse_xfer_event`, `mhi_reset_chan` | clients above, modem below, `pm_state` for doorbells | `MhiXfer` |
| channel commands (`mhi_main.c`) | `ccs`, `completion`, `ch_state` | `mhi_prepare_channel`, `__mhi_unprepare_channel`, `mhi_process_cmd_completion` | clients, the control event ring | `MhiUci` |
| registration (`mhi_init.c`) | bus, channel tables, contexts, interrupt lines | `of_register_mhi_controller`, `mhi_init_dev_ctxt`, `mhi_init_irq_setup`, `mhi_driver_probe`, `mhi_driver_remove` | kernel driver core | `MhiCtrl`, and the clients' modules |
| firmware loading (`mhi_boot.c`) | BHI registers, the image in DMA memory | `BhiWrite`, `mhi_fw_load_sbl` | user space by ioctl, the modem's boot ROM | `MhiCtrl` |
| controller (`mhi_qti.c`) | PCI resources, `powered_on`, runtime-PM status | probe, removal, suspend, resume | power management, registration | `MhiCtrl`, `MhiPm` |
| terminal signals (`mhi_dtr.c`) | `tiocm` of each channel, one request at a time on IP_CTRL | `mhi_dtr_tiocmset`, both callbacks, probe, remove | callers of the ioctl, modem | `MhiDtr` |
| event monitor (`mhi_init.c`, `mhi_main.c`) | readers of `mhimon`, their lists of events and left-over text; `nreaders` | open, read, release; `mon_bus_submit` and its kin; `mhi_deinit_debugfs` | every path that submits or takes a ring element; user space | `MhiMon` |
| character devices (`mhi_uci.c`) | open count, `enabled`, pending buffers | open, read, write, release, remove | transfer rings | `MhiUci` |
| network device (`mhi_netdev_quectel.c`) | receive ring, pool and chain; NAPI; queues of the real and the virtual devices; frames | probe, poll, transmit, receive handlers, remove | transfer rings, network stack | `MhiNetRx`, `MhiNetTx`, `RmnetFrame` |

### The scripts

| component | state | operations |
|---|---|---|
| board profile and geometry (`scripts/lib/*.sh`) | none; arithmetic over `board.conf` values | `validate_board_profile`, `compute_partition_layout`, `validate_artifacts` |
| build pipeline (`scripts/build_*.sh`, `make_image.sh`, `verify_image.sh`) | artifacts under `output/`, rkbin wrappers | one script per stage |
| source fetching (`scripts/fetch_sources.sh`, `import_local_sdk.sh`) | `.repo`, manifests, checkouts | init, sync with retries, update |
| first boot (`sbc-firstboot`, `overlayroot`, `S02rootfs-resize`) | partition table, filesystem, marker | grow, remount, mark |
| modem scripts (`rm500q*.sh`) | none | AT commands in sequence |

### How the parts meet

Clients call down into the transfer rings, event rings call back into clients,
and `pm_state` decides for both whether the modem may be touched.  A removal
comes from above (`mhi_pci_device_removed`) or from the error worker and passes
through power management, the clients' remove callbacks and the rings.  Each
module has this part of its neighbours as actions of its own: `MhiXfer` has the
link going down and up as `MhiPm` makes it, `MhiUci` and `MhiDtr` have the error
and the removal, and the promise a client makes in one module (`Leave` of
`MhiXfer`) is a property of another (`QueuedIntoRings` of `MhiUci`).

### What is hard

* Seven kernel contexts move `pm_state`; `pm_lock` orders the writes, but several
  readers use a value after the lock is gone, or read it without one.
* `mhi_pm_disable_transition` gives `pm_mutex` up half way through, and flushes
  workers that may themselves be waiting for the modem it has just reset.
* Every dialogue with the modem may be answered late, never, or by a crash.
* Wake-ups are not counted (`#if 1` in `mhi_assert_dev_wake`).
* Rings are shared by producers, tasklets and the reset path.
* Polls, a worker and a removal share the receive buffers of the network device;
  interrupts are not raised for each event.
* Three kinds of queues stop and wake around one transmit ring.
* Headers, padding and lengths of three frame formats are combined differently.
* The event monitor counts its readers without a lock where events are made,
  empties a list without one where a reader leaves, and sleeps without a timeout.
* Each of seventeen steps of a probe may fail and must undo the others.

`PROJECT.json` lists each hazard at its line, with the properties about it.

## 2. Modules

| module | models | abstract specification | theorems |
|---|---|---|---|
| `PmStates` | state sets and the transition table | - | - |
| `PmLadder` | what `pm_state` promises | it is one | - |
| `MhiPm` | power management and all its actors | `PmLadder` | `MhiPmProofs`: types, mutual exclusion, the reset of a failed modem, sleep, removal, the refinement |
| `MhiRing` | ring arithmetic | - | in `MhiXferProofs` |
| `XferQueue` | what a channel promises its client | it is one | - |
| `MhiXfer` | queueing, doorbells, completions, reset of one channel | `XferQueue` | `MhiXferProofs`: every safety property, the refinement |
| `PacketPipe` | what a character device promises its readers | it is one | - |
| `MhiUci` | character devices, channel commands, driver removal | `PacketPipe` | `MhiUciProofs`: every safety property, the refinement |
| `MhiNetRx` | receive buffers of the network device, NAPI, probe and removal | - | `MhiNetRxProofs`: buffers accounted for, nothing left behind |
| `MhiNetTx` | transmit ring and queues of the network device | - | `RmnetProofs`: the ring is never full |
| `RmnetFrame` | QMAP and MBIM frames, flow-control commands | - | `RmnetProofs`: every property |
| `MhiCtrl` | life of a controller, PCI set-up, writing of an image | - | `MhiCtrlProofs`: every property |
| `MhiDtr` | terminal signals | - | `MhiDtrProofs`: agreement on signals, inbound buffers |
| `MonLog` | what the event monitor promises its readers | it is one | - |
| `MhiMon` | the event monitor in debugfs | `MonLog` | `MhiMonProofs`: readers, lists and event objects agree, the refinement |

Each module has one run with every kind of disturbance switched on at small
counts, with liveness where the module states fairness; `MhiPm`, the largest,
has three passing runs because its properties need different settings, and one
that a comment of the code fails.  Bounds are constants of the modules, most of
them counted down in a `budget`.  A definition `X_Something` after a comment
"Mutant" is a wrong version of `X` that a property of the run rules out; no
specification uses it.

## 3. Power management: `PmStates`, `PmLadder`, `MhiPm`

### State

`PmStates` holds `mhi_state_transitions` as a function from a state to the set
of states it may be left for; a mask of the code is a set.  `Tryset` is
`mhi_tryset_pm_state`.

| variable | code |
|---|---|
| `pm_state`, `dev_state`, `ee` | the fields of `struct mhi_controller` |
| `pm_mutex` | its holder |
| `pc` | where each of the seven kernel contexts is |
| `er`, `msi`, `tasklet` | control event ring, its interrupt and its tasklet |
| `intvec`, `iv_ee` | BHI interrupt, and the `ee` its thread has read |
| `transition_list`, `st_items` | queued transitions; the list `mhi_pm_st_worker` has spliced off |
| `work`, `barrier` | queued work items; the run of `st_worker` a `flush_work` waits for |
| `devices` | the client device on the AMSS channels: absent, present, bound |
| `ctxt`, `powered_on`, `rpm`, `fatal` | contexts and interrupts allocated; the three states of `mhi_qti` |
| `dev`, `dev_ee`, `dev_ready` | MHISTATUS and BHI_EXECENV of the modem |
| `mhictrl`, `wake` | unserved request in MHICTRL; wake doorbell |
| `budget` | what the environment may still do |

### Actors and steps

A section under the write side of `pm_lock` is one step; `pm_mutex` is held
across steps.  The code two contexts share is one set of actions with the
context as parameter: `Disable(p)` is `mhi_pm_disable_transition` for the error
worker and for removal, `ReadyTransition(p, next)` is
`mhi_ready_state_transition` for `st_worker` and the error worker.

| process | code | actions |
|---|---|---|
| `ctrl` | `mhi_ctrl_ev_task`, `mhi_process_ctrl_ev_ring`, the M0/M1/M3 transitions | `Ctrl` |
| `intvec` | `mhi_intvec_threaded_handlr` | `IntvecThread` |
| `st` | `mhi_pm_st_worker`, `mhi_pm_mission_mode_transition`, `mhi_create_devices`, `mhi_driver_probe` | `StWorker` |
| `ready` | `mhi_pm_ready_worker` | `ReadyWorker` |
| `syserr` | `mhi_pm_sys_err_worker` | `SysErrWorker` |
| `power` | probe, `mhi_async_power_up`, `mhi_pci_device_removed`, `mhi_power_down` | `Power` |
| `rpm` | `mhi_runtime_suspend`, `mhi_runtime_resume`, `mhi_pm_suspend`, `mhi_pm_resume` | `Rpm` |
| operator | `mhi_debugfs_trigger_reset` | `DebugReset` |
| modem | external, from how the driver uses it | `Modem` |

Decisions worth knowing:

* `wait_event_timeout` either sees its condition or expires.  If an answer is
  still on its way, expiry costs one unit of `budget.late`; if none can come, it
  is free.
* `flush_work` waits for the run that is queued or under way when it is called
  and not for later ones: `barrier`.
* `flush_delayed_work` runs the work at once, and that run may queue it again.
* A device joins the children of its parent only after its probe, so
  `mhi_destroy_device` neither sees nor waits for one that is being probed.
* The resume that `__mhi_device_get_sync` requests need not come, which allows
  more than the kernel does.
* Probe has four steps.  The modem may be found at any of its boot stages, and may
  crash at any time: `PowerUpSysErr` and `PowerUpPoll` are `mhi_power_up`, which
  resets a modem in SYS_ERR and gives it up if it stays there (mhi_qti.c:568-581);
  `PowerUpReset` is the reset of a modem past READY and the sleep that checks
  nothing (mhi_pm.c:826-832); `PowerUp` is the rest of `mhi_async_power_up`, one
  step since nothing else of the driver runs yet.  The modem's interrupts reach
  the driver only after it (`ctxt`), when `request_irq` and BHI_INTVEC are set up.

### Runs

| run | disturbances | shows |
|---|---|---|
| `pm_safety` | a crash, an M2, a suspend, a late answer, every boot stage | `WellFormed`, `M3Agreed`, `RingsResetWhileQuiet`, `ResetKept`, and that the model implements `PmLadder` (`LadderSpec`) |
| `pm_removal` | removal, an M2, a suspend, a late answer, every stage the modem may be found in but EDL | `CtxtInUse`, `StaysDown`, `ComesUp` |
| `pm_liveness` | a crash at any time, also before and during power-up, a suspend, removal at any time | `CrashHandled`, `NobodyStuck` |
| `pm_earlycrash` | a crash before M0 | `RingsResetWhileQuiet` fails for a crash after power-up, while the READY transition queued there has not run: rings are rewound under a running modem |

* `WellFormed`: types, and `MutexInv`: `pm_mutex` is held by exactly the context
  that is in its critical section.
* `M3Agreed`: the assertion of the driver about M3 holds, host and modem are
  asleep together, and a sleeping state has an owner that will end it.  The last
  part is stated for answers in time: after a late M3 (`Lates = 1`) runtime PM
  believes the device to be active while `pm_state` stays in M3_ENTER, although
  `mhi_pm_suspend` says that the device resumes through runtime PM from there on.
* `RingsResetWhileQuiet`: rings are rewound only while the modem does not run.
* `ResetKept`: a reset request in MHICTRL is not overwritten before it is served.
* `LadderSpec`: `pm_state` climbs and descends as `PmLadder` says, and by whom.
* `CtxtInUse`, `StaysDown`: contexts are not used after they are freed, and
  nothing revives a controller that was shut down.
* `CrashHandled`, `NobodyStuck`, `ComesUp`: a crash is taken up; removals and
  holders of `pm_mutex` come to an end; a modem that nothing disturbs comes up.

`pm_earlycrash` is expected to fail and corresponds to the entry of `findings`.
Statements that do not hold for the whole of the model, and the settings under
which they hold:

* With a crash and a removal together (`SysErrs = 1`, `Removable` not empty)
  `CtxtInUse` and `StaysDown` fail: the error worker takes `pm_mutex` again
  (mhi_pm.c:602) after `mhi_power_down` has freed `mhi_ctxt`, and nobody flushes
  that worker.  `LadderSpec` fails with them only if the modem may also be in
  emergency download: the worker then leaves DISABLE and drops the mutex in one
  step.  `LadderKept` covers the rest.
* `mhi_pm_disable_transition` removes the devices (mhi_pm.c:591) before it
  flushes the worker that creates them: a device added in between survives the
  reset.  The model has the steps; no property is stated.
* With `"PTHRU"` in `Removable`, `pm_removal` fails on `StaysDown`:
  `mhi_pm_ready_worker` schedules itself from inside the `flush_delayed_work` of
  the shutdown, and later takes the controller from DISABLE to POR.
* `ComesUp` is stated up to the first M1 event (`Undisturbed`): wake-ups are not
  counted, so an M1 event that follows a request for M0 puts the host into M2, and the probe
  that waits for M0 gives up.
* `mhi_ctrl_ev_task` says that `pm_state` cannot lose register access while it
  runs; the M3 event it handles itself does that.
* `pm_safety` excludes a crash before the modem first reaches M0
  (`EarlyCrash = FALSE`); `pm_earlycrash` is that case.  In its trace the modem is
  well when it is powered up, and crashes between the end of `mhi_async_power_up`
  and the run of the state worker.

Bounds: one crash, one M2, one suspend, one late answer and one removal.  Every
pair of actors meets in every order within them; a second crash of the same kind
starts from the states the first one ends in.  `pm_liveness` starts from AMSS
only: the earlier stages add a poll that `pm_removal` has.

### Fairness

Queued work runs, raised interrupts are served, threads that have entered the
driver go on, and waits end: the kernel guarantees each.  The modem boots and
serves MHICTRL, which is what the driver's time-outs take for granted; a crash
is a step that disables those.  Nothing forces a crash, an M1 event, a suspend,
a removal or a debugfs reset.

### Proofs: `MhiPmProofs`

From `ConstantsAssumption`, for any number of crashes, suspends, M2 requests and
late answers:

| theorem | states | under |
|---|---|---|
| `StateWellFormed` | `[]WellFormed` | - |
| `MutualExclusion` | never two contexts in critical sections | - |
| `ResetUndisturbed` | `ResetKept` | no early crash |
| `RingsRewoundQuietly` | `[]RingsResetWhileQuiet` | no early crash |
| `LadderKept` | `LadderSpec`, the refinement of `PmLadder` | no early crash, `NoEdlRace` |
| `SleepIsAgreed` | `[]M3Agreed` | no early crash |
| `CtxtOutlivesUse` | `[]CtxtInUse` | `SafeRemoval` |
| `ShutDownForGood` | `StaysDown` | `SafeRemoval` |

The hypotheses are the settings outside of which the statement is false, as listed
above: `~EarlyCrash` (`pm_earlycrash`); `NoEdlRace`, nothing is removed or nothing
is ever in emergency download; `SafeRemoval`, no crash and no removal during the
boot poll.  Where the runs bound a count by one, the theorems do not bound it.

`WellFormed` is inductive as it stands: a step that takes `pm_mutex` (lemma on
`Lock`) needs it free, a step that returns it (`Unlock`) belongs to its holder, and
every other step moves its process between labels on the same side.  No other
property is, and the invariants below were all checked with TLC first.

* `PowerInv`: nobody moves `pm_state` under a removal, and only it leads to DISABLE.
* `BootInv`: there is one READY transition per boot, either still polled for,
  queued, spliced off or under way, and until it is carried out nobody speaks.
  Without it nothing rules out that the state worker sends a modem to M0 that is
  being reset.
* `ResetInv`: where the modem, `pm_state` and the event ring are at each step of the
  error worker.  Together these are `HostInv`, from which `ResetUndisturbed` and
  `RingsRewoundQuietly` follow.  For `LadderKept`, each step is shown to be one of
  the ladder or none; `NoEdlInv` carries the hypothesis.
* `CrashFree` and `RemovalInv`: without crashes no error handling starts, and a
  removal has at each step made sure of what the next relies on, in particular that
  the run of the state worker for which `flush_work` waits is the one that carries
  out the READY transition.
* `EventInv`: for each `pm_state`, where the modem can be, what it can have been asked
  and what may still be unread in the control ring, in which order (`Order`).
  `LoudInv`: what is unread has an interrupt or a tasklet.  `SleepInv` and
  `OwnedInv`: runtime PM and its thread agree with `pm_state`.  `M3Agreed` is the
  part of them that can be seen from outside.

`EntersM0` in the model carries the condition that a reset request is pending
(`mhictrl # "RESET"`): a modem told to reset does not answer the wake doorbell.

`CrashHandled`, `NobodyStuck` and `ComesUp` are liveness and stay with TLC.

### Left out

`mhi_pm_fast_suspend`, `mhi_pm_fast_resume` and `mhi_force_rddm_mode` (nobody
calls them in this build), `FW_DL_ERR` (set by the firmware worker, which is
never scheduled), the
`power_up` attribute (it assigns `pm_state` by hand), `mhi_link_off` and
`mhi_link_on`, statistics and logs.  The doorbells that `mhi_pm_m0_transition`
rings for transfer rings are in `MhiXfer`.

## 4. Transfer rings: `MhiRing`, `XferQueue`, `MhiXfer`

### State

`MhiRing` is the arithmetic of `struct mhi_ring` with pointers as indices.
`MhiXfer` is one channel.

| variable | code |
|---|---|
| `tre`, `buf`, `tre_rp`, `tre_wp`, `buf_rp`, `buf_wp` | `tre_ring` and `buf_ring`; a buffer is its number in the order of queueing |
| `base` | the rings are allocated (`mhi_init_chan_ctxt`, `mhi_deinit_chan_ctxt`) |
| `ctxt_wp` | `wp` of the channel context in host memory, which a modem in burst mode reads |
| `db`, `kick` | the doorbell register, and whether the modem has yet to see it |
| `db_mode` | `db_cfg.db_mode` |
| `ch_state` | `mhi_chan->ch_state` |
| `m_on`, `m_burst`, `m_rp`, `m_wp` | the modem: channel started, in burst mode, next element, last `wp` it knows |
| `events` | the channel's part of its event ring |
| `pm_state`, `m0_ring` | M0, LOW (M2 and M3 and the states between) or ERR; `mhi_pm_m0_transition` has set M0 and still has to ring |
| `pending_pkts` | the counter of the controller |
| `pc`, `hand`, `target` | where the client, the event task and the channel's teardown are; the event task's locals |
| `sent`, `got`, `returned` | history: buffers queued, moved and not yet returned, returned with their fate |

### Actors and steps

| actor | code | actions |
|---|---|---|
| client | `mhi_queue_skb`, `mhi_queue_buf`, `mhi_gen_tre` | `Call`, `LockPm`, `GenTre`, `AdvanceTre`, `AdvanceBuf`, `Doorbell` |
| event task | `mhi_process_data_event_ring`, `parse_xfer_event` | `TaskDrop`, `TaskEot`, `TaskLoop`, `TaskDel`, `TaskCallback`, `TaskOob` |
| channel | `__mhi_prepare_channel`, `__mhi_unprepare_channel`, `mhi_driver_remove`, `mhi_reset_chan` | `Prepare`, `Unprepare`, `ResetDone`, `Remove`, `Drain`, `Drained`, `Leave`, `Deinit` |
| link | `mhi_pm_m0_transition` and the rest of power management, as `MhiPm` has it | `GoLow`, `WakeM0`, `RingM0`, `Crash`, `Recover` |
| modem | external | `ModemKick`, `ModemPoll`, `ModemMove`, `ModemLeave` |

`mhi_queue_skb` (`Inline`) fills the ring under the read side of `pm_lock` and
advances it under the read side of the channel's lock.  `mhi_queue_buf` fills
and advances it without a lock and takes both for the doorbell.  A section under
the write side of a lock is one step; `PmReaders` and `ChanReaders` name who
keeps it waiting.  The locks of both sides of `TaskOob` and of
`mhi_pm_m0_transition` are those of the code: the channel's for writing.

The client queues whenever there is room, one call at a time, as `mhi_uci_write`
(under `w_mutex`) and `mhi_netdev` (under `rx_lock` or the transmit lock of the
network stack) do.  On a receive channel of `mhi_uci` or `mhi_dtr` there are two
callers, `mhi_queue_inbound` and the callback that queues a buffer again.
Nothing in `mhi_gen_tre` keeps these two apart; `MhiUci` has both callers, with
each call as one step, and a packet that makes the second caller run during the
first already costs `InOrder` (a part of `WellFormed`), which is stated for `Regular`.

`Leave` is the remove callback of the client driver.  It waits for the client's
call: `mhi_uci` and `mhi_netdev` clear a flag under the lock around each call;
`mhi_dtr` queues under the channel's mutex, which `mhi_driver_remove` takes.

### Properties

* `QueueSpec`: the channel implements `XferQueue`: first in first out, every
  buffer returned once, as done exactly if the modem moved it and the event was
  seen, as not connected when the channel is taken down.
* `WellFormed`: types; `SpaceForBuf`: the promise of `struct mhi_chan` that room in
  the transfer ring is room in the buffer ring, which is never tested; and `BurstToken`: the right to speak next in burst mode is
  in one place: with the host, in the register, with the modem, or in an OOB event.
* `Announced`: when nobody is about to ring, the modem knows or will learn of
  every queued element.
* `PendingExact`: `pending_pkts` counts the uplink elements in the ring whenever
  nothing is under way.
* `NoWriteAfterFree`: the rings are not written after they are freed.
* `AllReturned`: every queued buffer returns.

### Run

`xfer_channel` has an uplink channel in burst mode with a ring of 3 and 4
buffers, two suspends, two errors and two rounds of prepare and unprepare, and
chooses in `Init` between `mhi_queue_skb` and `mhi_queue_buf` (`Kinds`).  It
shows all of the above.  The ring wraps both pointers and fills; a second error
or unprepare meets whatever the first one left in the ring, the event ring and
the register.

`mhi_queue_buf` gets no errors in it (`BufCrashes = 0`).  With one, `PendingExact`
and `QueueSpec` fail: the function tests `pm_state` without `pm_lock`
(mhi_main.c:709) and fills the ring after `mhi_driver_remove` has drained it
(:720), so that the packet stays counted and is never returned, although the
comment at :705 says that the lock is not needed.

### Fairness

A call that has begun goes on, events are handled as long as there is no error
(tasklets run), an event being handled is handled to its end, an M0 transition
rings, a teardown ends, a modem in M0 sees doorbells and moves buffers, and
after low power comes M0 (runtime PM, which every queueing call asks for when
the link sleeps).  The client is never forced to queue, nor the modem to leave
burst mode.

### Proofs: `MhiXferProofs`

From `RingAssumption` and `XferAssumption`, for rings of any size, every kind of
channel, and any number of buffers, errors, suspends and teardowns:

* `NextSlotType`, `Accounting`, `OneMoreOneLess`: the ring arithmetic, including
  that `mhi_is_ring_full`, `get_nr_avail_ring_elements` and
  `get_used_ring_elements` agree across the wrap.
* `WritesAreSafe`: `Spec => NoWriteAfterFree`.  The action property alone is not
  inductive: one must know that a call that is under way means that the channel
  is not disabled, and that a channel that is not disabled has its rings.
  `LifeInv` ties the places of client, event task and teardown to `ch_state` and
  `base`; a completion under way means `ENABLED` because leaving `ENABLED` takes
  the channel's lock for writing, and a client's call under way means not
  `DISABLED` because `Unprepare` is called between calls and `Leave` waits for
  them.  One lemma per actor shows that each step keeps `LifeInv` and writes only
  into allocated rings.
* `BurstHandshake`: `Spec => []BurstToken`.  `TokenInv` counts the holders of the
  next word, `Word`, over host, register, modem and event ring: at most one.
* `ChannelWellFormed`: `Spec => []WellFormed`.  `IInv` adds to the two above
  `RingInv` (the two rings differ only while the client or the event task is between
  advancing the one and the other), `OrderInv` (going round the ring one meets the
  event ring's elements, what the modem has reached, what it knows of, and `wp`, in
  that order) and `CountInv` (buffers and `pending_pkts` against `sent`).  Going round is
  measured by `Dist`, the distance from `rp`, so that no proof splits on the wrap.
* `AllAnnounced`: `Spec => []Announced`, from `ToldInv`, which follows the last
  doorbell.
* `PacketsCounted`: `Spec => []PendingExact`, and `FirstInFirstOut`:
  `Spec => QueueSpec`, the refinement of `XferQueue`, both for `BufCrashes = 0` (see
  Run).  `LedgerInv` makes the inequality of `CountInv` an equation; `NumberInv` says
  which numbers the slots in use hold, `MovedInv` which the modem has moved.  From
  them every queue of the abstract channel is an interval of numbers
  (`QueueShape`), and one lemma per actor shows that its step is one of the
  abstract channel or none.

`AllReturned` is liveness and stays with TLC.

### Left out

`mhi_queue_dma` (the same steps on a premapped buffer), RSC_DMA channels
(`parse_rsc_event`), preallocated buffers (`pre_alloc` is always false), failing
DMA mappings, OVERFLOW and EOB completions (handled as EOT), wake votes (not
counted in this build), commands that time out (they are in `MhiUci`), and
driver unregistration while the modem is in M0.

## 5. Character devices: `PacketPipe`, `MhiUci`

### State

`MhiUci` is one device of `mhi_uci.c` with its two channels and the commands that
start and reset them.  It begins after `mhi_uci_probe`.

| variable | code |
|---|---|
| `copying` | the device is MBIM, QMI or DUN: its callback copies packets and queues the buffer again at once |
| `drv_lock`, `mutex`, `r_mutex`, `w_mutex` | `mhi_uci_drv.lock` and the mutexes of `struct uci_dev`, as their holders |
| `node` | the device is in the list, taken off it, freed |
| `enabled`, `ref_count`, `rx_error`, `nr_trb`, `pending`, `cur_buf` | the fields of `struct uci_dev` and its receive channel; a buffer is its position in `uci_buf` |
| `uci_buf` | whether the array is allocated; `"twice"` when it has been freed twice |
| `dl`, `ul` | the receive ring with what the modem has written into it, and the number of elements in the transmit ring |
| `ch_state`, `base`, `ch_mutex`, `done`, `ccs` | the fields of `struct mhi_chan` (`done` is its completion) |
| `cmds`, `started` | commands under way; what the modem has made of each channel |
| `pm`, `sent`, `life` | error or not; packets sent; how far `mhi_driver_remove` is |
| `odd`, `early` | packets of a length that `mhi_dl_xfer_cb` refuses (0, or more than `mtu`); whether one came while `mhi_queue_inbound` was still running |
| `arrived`, `taken` | history: the last packet that reached the callback, and that was read to its end |

### Actors and steps

| actor | code | actions |
|---|---|---|
| a thread opening | `mhi_uci_open`, `mhi_prepare_for_transfer`, `__mhi_prepare_channel`, `mhi_queue_inbound` | `OpenEnter`, `Prepare`, `Started`, `StartExpires`, `Fill` |
| a thread undoing or closing | `__mhi_unprepare_channel`, `mhi_uci_release` | `Unprepare`, `ResetEnds`, `ResetExpires`, `Close` |
| a thread reading | `mhi_uci_read` | `ReadEnter`, `ReadWake`, `ReadStops`, `ReadEnds` |
| a thread writing | `mhi_uci_write` | `WriteEnter`, `WriteWake`, `WriteStops`, `WriteQueue` |
| event task | `mhi_dl_xfer_cb`, `mhi_ul_xfer_cb`, `mhi_process_cmd_completion` | `Received`, `Transmit`, `Answer` |
| removal | `mhi_driver_remove`, `mhi_uci_remove` | `RemoveWake`, `RemoveReset`, `RemoveDevice`, `RemoveDeinit` |
| modem | external | `Receive` with `SomeLength`, `Crash`, and its part of `Answer` and `Transmit` |

`Received` is the whole of `mhi_dl_xfer_cb`: a completion that is not that of the
buffer at `nr_trb` sets `rx_error`; one of an unusable length advances `nr_trb` and
is forgotten, its buffer neither pending nor queued again (mhi_uci.c:842-855); any
other goes to the list, or is copied there and a buffer queued again.

A section under a spinlock is one step, so is `mhi_queue_transfer`; between the
steps of a read or a write the lock is not held, as in the code.  What runs
under `mutex` or the mutex of a channel takes several steps.  The error handling
of power management appears as `Crash` and `Removal`: from `Crash` on, `pm_state`
is an error state until the device is gone, as `mhi_pm_disable_transition`
removes the devices before it changes `pm_state` again.

Because of `QUEC_MHI_UCI_ALWAYS_OPEN` the first open leaves a reference of its
own, so a close never resets the channels: the `"close"` branch of `Unprepare`
is code that does not run, and `NoRestart` is the reason for that.

### Properties

* `DeviceInUse`: the device is freed after its last file, whether remove or close
  comes last, and whoever is half way through an open still finds it.
* `WellFormed`: types; `BufferOwned`: no buffer is in two places, although what
  goes back into the ring is not the buffer that was read but the one before it;
  and `InOrder`, as long as the modem is `Regular`: completions match the buffers,
  or else the device refuses every read and write from then on.  `Regular` says
  that every packet so far had a usable length, and none came before the first
  fill was over.
* `ChannelsAgree`: a channel the driver uses has been started by the modem; the
  answer to an earlier command does not count.
* `PipeSpec`: the device implements `PacketPipe`: packets are read in the order
  they arrived and once, whatever the modem does, and none is lost while a file is
  open, the modem lives and is `Regular`.
* `QueuedIntoRings`: nothing is queued into rings that are freed.  It is what
  `MhiXfer` assumes of its client at `Leave`.
* `NoRestart`: the modem is never asked to start a channel it has reset.
* `NobodyStuck`: removal waits for nobody's time-out, and no reader or writer
  sleeps on after it.

### Run

`uci_safety` shows all of them with two threads, rings of 2, 3 packets, 3 opens,
a late answer, a crash, a packet of unusable length and both kinds of device.  Two threads are enough for a
file that is open while another one opens, reads or closes; three opens let a
thread open again after a close; three packets take the three buffers round once
and begin again.

What the properties except or the settings leave out, because the code does not
keep it:

* `InOrder` ends with a modem that is not `Regular`; such a modem is in the run.  A
  packet during the first fill makes the callback of a copying device
  (mhi_uci.c:893-899) queue the spare buffer between the first ones; a packet of
  unusable length advances `nr_trb` while its buffer is not queued again
  (:842-855), so that every later one comes back at a position it does not expect.
  Either way `rx_error` is set in the end, packets are lost with the file open, and
  the device refuses reads and writes.  `BufferOwned` and the order of what is read
  survive it.
* `NoRestart` is stated for answers in time.  If the START of the second channel
  times out, the first is reset, and the next open starts it again, which is what
  the comment on `QUEC_MHI_UCI_ALWAYS_OPEN` says the modem cannot handle.
* With `Lates = 2`, `ChannelsAgree` fails: the late answer to a RESET completes
  the START that follows it, because `mhi_process_cmd_completion` knows the
  channel of a command and not whose it is.
* When the first buffers cannot be queued, `mhi_uci_open` leaves `ref_count` at 1
  and `uci_buf` dangling: `uci_buf` can reach `"twice"`.  The model shows it; no
  property is stated.

### Fairness

Calls under way go on, commands are answered while the modem lives, callbacks
run, the removal goes on.  No wait has to expire, no packet has to be sent, and no
signal or user has to come.

### Proofs: `MhiUciProofs`

From `UciAssumption`, for any finite set of threads, rings of any size, both kinds
of device, any number of packets, opens, crashes and late answers:

| theorem | states | under |
|---|---|---|
| `DeviceOutlivesUse` | `[]DeviceInUse` | - |
| `QueuedIntoAllocated` | `QueuedIntoRings` | - |
| `NeverRestarted` | `NoRestart` | - |
| `EnabledIsStarted` | `[]ChannelsAgree` | `Lates <= 1` |
| `BuffersInPlace` | `[](TypeOK /\ (Regular => WellFormed))` | - |
| `PacketsInOrder` | `PipeSpec`, the refinement of `PacketPipe` | - |

The hypothesis is the setting outside of which TLC finds the statement false, as
listed above.  `BuffersInPlace` says less than `WellFormed`, which the run checks:
that no buffer is in two places also after an irregular packet is model-checked only.  None of the properties is inductive; all the invariants below were
checked with TLC before they were proved.

* `Core` = `TypeOK`, `LockInv`, `RefInv` and `ErrInv`.  The thread that opens first
  holds `drv_lock` and is alone in the device until it is done; `ref_count` is the
  number of threads inside (a cardinality, for which `Users` is finite) and one more
  while the device is listed and its channels are kept; the modem is in error as long
  as the removal lasts, and the removal takes the device off the list half way
  through; the ring never holds more than the open has queued.
* `QuietInv` and `StageInv`: a crash empties the command ring; while the modem lives,
  the label of the thread that opens says which channels are ENABLED and allocated,
  and after the first open both are.  `BoundSteps` sorts the steps by what they do to
  channels, so that the sixteen actions of a user count as eight.
* `RestartInv`, `AgreeInv`: as long as no answer was late at most one command is under
  way, and it is the START of the thread that waits for it.  With one late answer
  there may be more, but each is a START, whose completion is as good as that of the
  next, or the RESET that somebody still waits for, behind all others.  A RESET can
  only be left over by a second late answer.
* `DataInv` says where every buffer is while the modem is `Regular`; `EmptyInv` (the
  ring is empty before the first open queues), `CopyInv` and `PktInv` hold with any
  modem.  `After(b, k)` and `Back(b, k)` count round
  the `N + 1` buffers (lemmas `Circle` and `Apart`).  The ring holds the buffers from
  `nr_trb` on, `k` places on the buffer `After(nr_trb, k)` (`OrderInv`); what waits and
  what is being read are the buffers just before it, the latest nearest (`PlaceInv`);
  and while the modem lives none is missing (`FullInv`), so that the one before the
  buffer given back is the one after the last in the ring.  `FillInv` has the first
  open, `FreshInv` that nothing is received before it is done, `CopyInv` that who
  copies has a packet.  `DataSteps` sorts the steps by what they do to buffers, and
  `TameSteps` those of a modem that is still `Regular` after them.
* `PktInv`: the packets in the ring are the `sent - arrived` that come next, in its
  first elements.  With it each step is one of `PacketPipe`: a packet is dropped only
  when `ref_count = 1`, which `RefInv` makes the number of a device nobody has open, or
  when requeueing fails, which `FullInv` leaves to an error, or when the modem is no
  longer `Regular`, which ends the promise of `PacketPipe` to lose nothing.

`InTurn` and `Counted` say in closed form, with `After`, what the loop over returned
elements does to `nr_trb` and `rx_error`.  `NobodyStuck` is liveness and stays with TLC.

### Left out

Probe and the table of minors, `poll` (it changes nothing), `ioctl` (terminal
settings and DTR), non-blocking files (they leave where others wait), failing
allocations (a copying device then drops a packet), a full command ring (it holds
128 commands, and a channel has one under way).

## 6. Network device, receiving: `MhiNetRx`

### State

A socket buffer is counted, not named: `live` is what was allocated and not
freed, and every place that can hold a buffer has a count.

| variable | code |
|---|---|
| `ring`, `events`, `msi` | descriptors queued; those the modem has filled and put an event for; the interrupt of the event ring |
| `chain`, `pool`, `hand` | `qmap_chain`, `rx_allocated`, the buffer `mhi_netdev_alloc_skb` has in hand, per caller |
| `left` | `no_tre` of that function: free descriptors, counted before the loop |
| `napi`, `missed`, `did` | state of NAPI, a poll that is due once more, events the poll has handled |
| `pending`, `barrier` | `alloc_work`, and the run that `flush_delayed_work` waits for |
| `enabled`, `handler` | the flag under `pm_lock`; whether `rmnet_rx_handler` is registered |
| `pc` | where the poll, the worker, and the thread of probe and removal are |
| `sent`, `seen` | frames the modem has sent, and that reached the demultiplexer |

### Actors

| actor | code | actions |
|---|---|---|
| interrupt | `mhi_msi_handlr` of a ring its client manages, `mhi_netdev_status_cb` | `Msi` |
| poll | `mhi_netdev_poll`, `mhi_poll`, `mhi_process_data_event_ring`, `mhi_netdev_xfer_dl_cb`, the recycling of `rmnet_rx_handler` | `Poll` |
| worker | `mhi_netdev_alloc_work` | `Work` |
| probe | `mhi_netdev_enable_iface` and the end of `mhi_netdev_probe` | `Probe` |
| removal | `mhi_driver_remove`, `mhi_netdev_remove`, `mhi_netdev_dealloc` | `Remove` |
| modem | external | `ModemSend`, `ModemFail` |

`mhi_netdev_alloc_skb` is one set of actions (`AllocSkb`) with its caller as
parameter; `Result` is what each caller makes of its answer.

### Properties and run

`netrx` has a ring of 3, a pool of 1, polls of weight 2, three frames, two failing
allocations and an error with the removal that follows it.

* `WellFormed`: types, and `SkbsCounted`: every buffer is in exactly one place,
  whoever gets first at the ring, the chain or the pool.
* `NothingLeft`: when `mhi_netdev_remove` is done, no buffer, poll or worker of
  the device is left.
* `Delivered`: a frame with an event is handed on, although interrupts are not
  raised for each event, a poll may stop before the ring is empty, and one may be
  due while another runs.
* `Replenished`: a ring without free descriptors is filled again, however often
  memory ran short.

The weight is smaller than the ring and the pool smaller than the weight, so that
a poll ends early and a pool overflows; an empty ring and a worker that runs
beside a poll both occur with two failures.

Two settings describe what does not hold.  With `Short = TRUE` allocations may
fail during the removal; then the worker schedules itself again from inside the
flush of `mhi_netdev_remove`, which waits for one run, and `NothingLeft` fails:
it runs after `mhi_netdev` is freed.  With `Early = TRUE` the modem sends before
probe is done: `napi_enable` comes after the buffers are queued, an interrupt
between the two finds NAPI disabled, and `Delivered` fails until the next one.

Fairness: interrupts, softirqs, queued work, and threads inside the driver run.
The modem need not send.

### Proofs: `MhiNetRxProofs`

For rings, pools and polls of any size, and any number of frames, failing
allocations and errors, from `NetRxAssumption`:

* `BuffersCounted`: `Spec => []WellFormed`.
* `NothingLeftBehind`: `Spec => []NothingLeft`, for `Short = FALSE`.

Neither formula is inductive.  `IInv` adds four parts.  `Account`: a caller of
`mhi_netdev_alloc_skb` has a buffer in hand exactly when it is about to queue it,
a poll has no more on its chain than it has handled, and none outside its middle.
`Polling`: a poll that is somewhere was scheduled, and NAPI is on from
`napi_enable` to `napi_disable`; so the poll is idle when `napi_disable` has
returned.  `Closing`: what each step of `mhi_netdev_remove` has emptied stays
empty, since nothing enters the ring after the error and nothing the pool after
the last poll.  `Flushed`: the run that `flush_delayed_work` waits for is the last
one, because a worker that is not short of memory does not schedule itself; this
is the part that needs `Short = FALSE`.

`Delivered` and `Replenished` are liveness and stay with TLC.

## 7. Network device, transmitting: `MhiNetTx`

Packets of the virtual devices (`rmnet_vnd_start_xmit`) pass through the queue of
the real device (`mhi_netdev_xmit`) into one transfer ring; a ring that runs low
stops all queues, the completion (`mhi_netdev_xfer_ul_cb`) wakes them.  A packet
is counted.  The kernel calls `start_xmit` under the lock of its queue and not
while the queue is stopped, keeps a packet it could not hand over, and tries
again when the queue is woken.  Acknowledgements of flow-control commands are
put into the queue of the real device from the receive path (`SendAck`).

* `NeverFull`: no packet finds the ring full, where it would be dropped.
* `EverySent`: a packet of a virtual device gets through, although the completions
  that could wake its queue may all come while queues are being stopped, or the
  device is in `missed`: its last wake came between the look of
  `rmnet_vnd_start_xmit` at the real queue and the stop of its own.

`nettx` has two virtual devices with five packets each, an acknowledgement and a
restart, over a ring of 5 with thresholds of 3: it fills and drains several
times.  `rmnet_vnd_start_xmit` looks at the real queue and then stops its own
(mhi_netdev_quectel.c:1093-1096), two steps (`VndXmit`, `VndStop`) between which
everything may happen.  If the completion wakes this very queue there (`DoneWake`),
the stop comes after, and the queue stays stopped until another completion, which
need not come: the code loses a wake, and without the exception for `missed`
`EverySent` fails.  `missed` is a history variable that nothing else reads; a later
wake that falls outside the window takes the device out again.
The loop in `mhi_netdev_xmit` has no such window, as it stops the real
queue last.  After a restart of the real device `mhi_netdev_open` wakes its own
queue only, and `EverySent` says nothing from then on.

Fairness: queues that run are served, calls end, and the modem takes what is in
the ring.

### Proofs: `RmnetProofs`, the transmit ring

For every ring size, number of devices, packets and acknowledgements, and for
thresholds with `Restarts + 2 <= Low`:

* `TypeCorrect`: `Spec => []TypeOK`.
* `RingNeverFull`: `Spec => []NeverFull`.  A packet is taken only by a queue that
  runs, and that queue was last started by the completion, which had seen room, or
  by `mhi_netdev_open`, which does not look.  The inductive invariant `IInv`
  therefore says how much `Room` is left at each place of `mhi_netdev_xmit` and of
  the completion, less one descriptor for each restart that was used.

`EverySent` is liveness and stays with TLC.

## 8. Frames: `RmnetFrame`

A frame is a length and the sequence of its headers, each with its offset; of a
packet only what its header says is kept.  The modem lays out packet after packet
(`Lay`, from the formats the driver reads: a QMAP header in front of each packet,
or the datagrams of MBIM behind one header and its tables), and `Receive` brings
the frame, whole or without its last byte.  The receive handlers take it apart one
packet a step (`QmiRx` for `rmnet_qmi_rx_handler`, which pulls what a header says
and finds a header only where one was laid, `MbimRx` for `rmnet_mbim_rx_handler`,
which refuses a frame that claims more than `rx_max` and goes from datagram to datagram), `MapCommand` is `rmnet_data_map_command`,
and `AddHeader` with `AddQhdr` or `AddMbimHdr` puts one packet into a frame of its
own (`rmnet_vnd_start_xmit`).

* `FrameExact`: the kernel is given the packets of the frame, each for its device,
  with its length and in order, up to the first that is in error; short memory
  cuts this list and never changes it.  Of an MBIM frame longer than `rx_max`
  (:1253-1257) it is given nothing.  The handler leaves its table of devices
  (`"wild"`) only in a frame that has, behind good datagrams, one of session
  `mbim_mux_id`.
* `OrdersObeyed`: each flow-control command before that is obeyed and acknowledged
  once, and the last one for a device counts.
* `UplinkReadable`: what is sent can be read as what is received is.

What is right is said of the packets the frame was made of, by their places in it
(`Good`, `Data`, `Orders`); where a packet lies matters only for whether it was cut
off.  `Lists` says that a sequence has the items of certain places, once each and in
order.  `frame` has frames of up to three packets of sizes
around the padding and the MTU, all three formats, minimum padding of 0 and 2 for
version 5, unknown and unregistered devices, mux 0, unknown protocols, a cut-off last
byte and a failing allocation.  `RxMax`, which is `rx_max`, admits every
MBIM frame of one or two datagrams and some of three, so that whole frames are refused and
others taken.  Three packets are enough for an error before,
between and after good ones.

Mux 0 is session `mbim_mux_id` itself.  Its number passes the test of :1311, which
looks for numbers that are too large only, and :1316 then indexes `mpQmapNetDev[-1]`.
What the kernel does with what it finds there is undefined: the model stops in
`"wild"`, which is why the run does not check for deadlock.  (The test of QMAP at
:1446 compares without sign and rejects the same number.)

Seen while modelling: a datagram of no known protocol that MBIM carries loses the
buffer allocated at :1334 (:1366); MBIM looks a session up without testing that
its device was registered; `flow_control`, which the commands set, is never read,
so a device whose flow is disabled goes on sending; and a failing registration of
a virtual device returns one that was freed (:1709-1711).

### Proofs: `RmnetProofs`, frames

From `FrameAssumption`, for any number of virtual devices, any sizes, limits and
minimum padding, frames of any number of packets and any number of failing
allocations:

* `PacketsExact`: `FrameSpec => []FrameExact`.
* `CommandsObeyed`: `FrameSpec => []OrdersObeyed`.
* `HeadersReadable`: `FrameSpec => []UplinkReadable`.

The first two speak of a frame that is done with, the first also of one that led off
the table, and are far from inductive.
`FrameInv` has three parts.  `LayInv`: the header of packet k is that of the packet,
and lies where packet k - 1 ends (so offsets increase and no two headers are at one
place); the frame ends with its last packet, or one byte earlier.  `OutputTypes`:
types.  `ParseInv`: while the handler reads, there is a k such that it reads on at
`Place(k)`, behind packet k, and `Progress(k)` holds: none of the first k packets is
in error, `given` and `chain` together list the data among them (`DataTo(k)`), the
acknowledgements their orders (`OrdersTo(k)`), and `flow` is what the last order for
each device asks (`OrderedTo(k)`); when it goes over to hand on, k is the number of
packets, packet k + 1 is in error, or memory ran short.

That the code and the definition of an error agree is `QmiFinds` and `MbimFinds`:
the header found behind packet k is that of packet k + 1, its length without padding
is that of the packet, at least seven bytes are there (so the test of :1418 never
hides a packet), and the handler stops exactly where `Ends(k + 1)`, or is `"wild"`
where packet k + 1 is of mux 0 in an MBIM frame that is not refused.  Behind the last
packet nothing is left (`QmiFinished`).  `ListsOneMore` and `OneOrderMore` say what one
packet more does to a list and to the devices that are enabled.  `UplinkReadable`
follows from the form of the last packet sent, whether it was padded or not.

## 9. Controller and image download: `MhiCtrl`

### State

`held` is the set of resources taken: those of the registration, of the PCI
device and of the contexts, in the order of `Order`; `lines` the interrupt lines;
`wrong` what was released without being held.  `pc` is the thread of probe and
removal, `upc` that of each user of the device node, `bufs` the users whose DMA
buffer exists, `reading` the images the modem is reading.

### Actors

| actor | code | actions |
|---|---|---|
| probe | `mhi_pci_probe`, `mhi_register_controller`, `of_register_mhi_controller`, `mhi_init_pci_dev`, `mhi_power_up` with `mhi_init_dev_ctxt` and `mhi_init_irq_setup` | `Register`, `InitPci`, `PartialGrant`, `DevCtxt`, `IrqSetup`, `PowerUp`, `Probe` |
| removal | `mhi_pci_device_removed`, `mhi_power_down`, `mhi_deinit_pci_dev`, `mhi_unregister_mhi_controller` | `RemoveStart`, `RemovePartial`, `Shutdown`, `PowerDown`, `Deinit`, `Unregister` |
| a user | `mhi_cntrl_ioctl`, `bhi_write_image`, `BhiWrite`, `mhi_fw_load_sbl`, `mhi_ready_state_transition` | `User` |
| modem | external | `ModemRead`, `ModemRun` |

### Properties and run

* `Undone`: whatever step fails, and after whichever earlier attempts, the ladders
  of labels give back exactly what was taken, in the right order of holding, but
  for the vectors of a partial grant.
* `Loaded`: the modem reads a freed buffer only if a wait had run out, two images
  were written at once or the device was removed during a call; and a user is told
  that an image was written only if the modem has read that image.

`ctrl` has two users, two event rings, both kinds of interrupt set-up, one retry
and failures of every step but two.  With `"enable"` or `"region"` in `Failing`
`Undone` fails: the labels at mhi_qti.c:327-331 are in the wrong order, so that a
failing `pci_enable_device` releases regions it does not have.  A failing
`ioremap` makes probe go on without registers (`stray`), since `ret` is still that
of the DMA mask.  The reference `mhi_bdf_to_controller` takes is never put, and
the controller is never freed: `Undone` says `{"cntrl", "dev"}` after a removal.
A failed probe leaves its registration, which the next one uses.

`pci_alloc_irq_vectors` may grant fewer vectors than asked for, and more than the one
that the driver can do with (`"grant"`; mhi_qti.c:243-270).  The jump to
`error_req_msi` lies below `pci_free_irq_vectors`, so that the vectors stay, and
probe returns their number, which the kernel takes for success: the device counts as
bound (`"partial"`), and its removal dies in `mhi_deinit_free_irq`, which goes through
an array of lines that was never allocated (`RemovePartial`).  `Undone` says that the
vectors, and the registration, are all that is left.

Further, a wait for the flash programmer that runs out makes `BhiWrite` return 0
(mhi_boot.c:801-818), and a call during a removal may use registers that are
unmapped (`Fault`) or move `pm_state` from DISABLE to POR; the model has these
steps.

### Proofs: `MhiCtrlProofs`

For any number of event rings, retries and users:

* `LaddersUndo`: `Spec => []Undone` if `Failing` has neither `"enable"` nor
  `"region"`, the two steps whose labels undo what was not done.  A partial grant is
  among the failures it covers.
* `ImageDelivered`: `Spec => []Loaded`, whatever fails.

`Undone` looks at three places of probe and removal.  `Ladder` says of every place,
from the first allocation to the last step of a removal, which resources and
interrupt lines are held there, and how many references to the device there are at
least; each label then releases what its place holds.  `Loaded` needs `UpInv` (a user
waits only where the probe is over, and a removal that meets a call is counted as an
overlap) and `DownloadInv`: as long as no wait ran out, no two images were written at once and
nothing was removed during a call, a user in the wait of `mhi_fw_load_sbl` is there
alone, the modem reads only the image of that wait, BHI_STATUS says success only when
it has read it, and whoever goes on from the wait had its image read.

## 10. Terminal signals: `MhiDtr`

### State

`tiocm` is the word of each channel, whose host bits (DTR, RTS) change in the
ioctl and whose modem bits (CD, DSR, RI) in the downlink callback, each in two
steps under `devres_lock`.  `mutex` and `done` are the mutex and completion of
the control channel, which all callers share; `out` its uplink ring, `acks` the
completions on their way; `in` and `inbound` the reports on their way and the
buffers in the inbound ring; `dtr` the life of the control device.  `view` and
`sent` are what the modem believes and what it last reported.

### Actors

| actor | code | actions |
|---|---|---|
| a caller per channel | `mhi_ioctl`, `mhi_dtr_tiocmset` | `Ioctl`, `Tiocmset` |
| event task | `mhi_dtr_ul_xfer_cb`, `mhi_dtr_dl_xfer_cb` | `UlCb`, `DlCb` |
| driver core | `mhi_dtr_probe` with `mhi_dtr_queue_inbound`; `mhi_driver_remove`, `mhi_dtr_remove` | `Probe`, `RemoveWake`, `RemoveReset`, `Remove` |
| modem | external | `ModemTake`, `ModemReport` |

The ioctl of a character device holds the mutex of that device, so each channel
has one caller; two channels meet at the control channel.  A probe whose buffers
cannot be had fails with `dtr_dev` set and the channels started (`"unbound"`);
callers use it from then on, and no remove will come.

### Properties and run

* `WordAgrees`: between calls the word says of DTR and RTS what the modem was last
  told, whatever failed, and of CD, DSR and RI what the modem last reported unless
  a report is on its way.
* `WellFormed`: types, and `InboundKept`: an inbound buffer stays in use except
  for a report of the wrong length and a failed queueing, whose result is ignored.
* `Returns`: a call returns, whatever fails and also when the device is removed.

`dtr` has two channels with two calls each, a report, a report of the wrong
length, a failure, a late answer and a removal.  Two channels are what it takes
for one caller's completion to be there for another.

`WordAgrees` about DTR and RTS ends with a late answer: the message is freed
although its element is in the ring, the modem reads freed memory, and its
completion is taken by the next caller.  `Returns` ends with a caller that waited
for the mutex until `dtr_dev` was cleared: it reads through it (`"fault"`) and
never gives the mutex back.

Fairness: callers and callbacks run, the modem takes what is in the ring, a
removal goes on.

### Proofs: `MhiDtrProofs`

For any finite set of channels, any number of calls, reports, failures and late
answers, and rings and buffers of any size, from `DtrAssumption`:

* `SignalsAgree`: `Spec => []WordAgrees`.
* `InboundBuffersKept`: `Spec => []WellFormed`.

The inductive invariant `IInv` has six parts.  `Holders`: the mutex is held by
exactly the caller inside, so one caller at a time uses the ring and the
completion.  `Locks`: a word read under `devres_lock` is still the channel's when
it is written back, so neither a call nor a report brings old signals back.
`Talk`: as long as no answer came late, one thing is under way for a caller that
waits - its message, the completion of it, or the wake-up - and nothing for
anybody else; this carries what the modem was told from the ring back to the
word.  `Latest`: the last report about a channel is in a buffer, in the callback,
or in the word.  `Buffers` counts where the inbound buffers are, the reports of
the wrong length in the ring among those already lost.  `TypeOK` bounds the
uplink ring by the number of calls, which takes the finiteness of the set of
channels.

`Returns` is liveness and stays with TLC.

## 11. Event monitor: `MonLog`, `MhiMon`

### State

`mhimon` shows every ring element that the host submits or takes to each process
that has it open.  `rp` is the `struct mon_reader_text` of each file: the list of
its events and their count, the buffer with the text of the last one and what is
left over of it, and the event objects in its slab (`objs`).  `rd` is the thread
in a read of the file: its place in `mon_text_read_wait`, the event in its hand,
whether its state is TASK_RUNNING.  `looked` are the sources that have found
`nreaders` set and are about to take the lock; `file` is `"drain"` between
`mon_reader_del` and the end of a release; `copied` is what the last read gave.
The text of an event is two halves, and a caller has room for one or both.

### Actors

| actor | code | actions |
|---|---|---|
| a source | the test of `nreaders`, then `mon_bus_submit`, `mon_bus_receive` or `mon_bus_complete` with `mon_text_event` | `Look`, `Submit` |
| a process | `mon_text_open`, `mon_text_release` | `Open`, `OpenFails`, `Unregister`, `Drain` |
| its thread | `mon_text_read_u`, `mon_text_read_wait`, `mon_text_fetch` | `ReadLeft`, `ReadWait`, `Fetch`, `Nothing`, `Wake`, `Show` |
| removal | `mhi_deinit_debugfs` | `RemoveStart`, `RemoveEnd` |
| kernel | external | `Signal`, `Enters`, `Copy`, `CopyFaults` |

A section under `mbus->lock` is one step.  The kernel admits one `read` of an open
file at a time (`f_pos_lock`), which is what the left-over text, read and written
outside `printf_lock`, relies on; `pread` does not take that lock and is left out.
A removal turns new calls away and waits for the reads inside.  It comes when
`mhi_pm_disable_transition` is over, so that no source is left.

### Properties and run

* `WellFormed`: types, and the bookkeeping: `nreaders` is the number of linked
  readers, which are the open files; `nevents` counts the list and stays within
  `EVENT_MAX`; each event object is listed or in the hand of the reading thread,
  and a slab is destroyed empty; what is left over lies in the buffer.
* `LogSpec`: the monitor implements `MonLog`: from its open to its release a reader
  gets the text of every event once, whole and in order, however its reads cut it,
  but for the events counted in `cnt_text_lost` and the text of a copy that failed.
* `NobodyStuck`: a read that has an event or a signal waiting ends, and so does the
  removal, unless a read sleeps without an event.  That exception is what the code
  does: no source is left to wake such a read, its wait has no timeout, and
  `mhi_power_down` waits with it until the process is sent a signal.

`mon_readers` has a file that waits and one opened with O_NONBLOCK, two sources,
two events for a list that holds one, three opens, a failed allocation and a
failed copy.  Two sources and two readers are what it takes for an event to be
lost to one and not to the other, and for one to leave while a source that counted
it walks the list; a third open reads after a release.

Fairness: a thread that can run does, and so does the removal.  Nobody has to open,
read, close or send a signal, and no source has to have an event.

### Proofs: `MhiMonProofs`

`BookkeepingKept`, `Spec => []WellFormed`, for any finite sets of files and sources
and any bounds.  `WellFormed` is inductive: `AddedType`, `TakenType`, `ShownType`
and `ConsumedType` say what the four operations on a reader do to its counts, and
`OneReader` that a step of one reader keeps the rest.  A release finds every object
of its reader in the list because a file whose reader is inside is not released.

`EachEventOnce`, `Spec => LogSpec`, needs no more than `WellFormed`: what a file is
still to be given (`Held`) is its left-over, the text of the event in the hand of its
thread and the texts of its list, one behind the other.  The list is written out in
halves (`ListText`), and three equations between sequences carry the steps:

| operation | what it does to `Held` | lemma |
|---|---|---|
| `mon_text_event` appends an event | its text is put behind | `AppendText`, `HeldAdded` |
| `mon_text_fetch` takes the first event in hand | nothing | `TailText`, `HeldTaken` |
| a read copies n halves, or faults at them | n halves are cut from the front | `CutFront`, `HeldConsumed`, `HeldShown` |

A source's step is `Event`, for the readers that are neither full nor without an
object (`SubmitIsEvent`); an open finds nothing held (`OpenIsJoin`), a release from
`r_list` drops what is (`UnregisterIsLeave`), and the rest of the release is no step
of the log, since the file is listed no more (`FileStutters`).  A copy of the
left-over that faults is the `Fault` that cuts nothing: the left-over is still there.

`NobodyStuck`, a liveness property, stays with TLC.

### Left out

A second `mhi_init_debugfs` while a reader is open, which only the `power_up`
attribute of `mhi_qti.c` can cause: it sets `nreaders` to 0 and empties `r_list`
under that reader.  `mon_bus_drop`, since the controller keeps a reference of its
own; a failing `debugfs_create_dir`; the wording of an event.

## 12. What is proved, and what is not modelled

The theorems are in `MhiPmProofs`, `MhiXferProofs`, `MhiUciProofs`, `MhiNetRxProofs`,
`RmnetProofs`, `MhiCtrlProofs`, `MhiDtrProofs` and `MhiMonProofs`, for every value of
the constants that their `ASSUME`s allow; they are described with their modules.
The four refinements of abstract specifications are among them.  Every safety
property a run checks is stated by a theorem, `WellFormed` of `MhiUci` for a modem that
is `Regular`, and some under a hypothesis on the
constants that is given with the theorem: the modem that does not fail or is not
removed during the boot poll, no error while a client of `mhi_queue_buf` is served,
at most one late answer to a channel command, no allocation that
fails during a removal, no failure of the two steps of PCI set-up with mixed-up labels.

What stays with TLC is liveness under fairness, which is out of the prover's reach:
`ComesUp`, `CrashHandled`, `AllReturned`, `Delivered`, `Replenished`, `EverySent`,
`Returns`, and `NobodyStuck` of `MhiPm`, `MhiUci` and `MhiMon`.

Not modelled:

* Firmware loading other than `BhiWrite`: `mhi_fw_load_worker` is never scheduled
  (the call at mhi_pm.c:923 is commented out), so neither it nor the BHIE tables
  run in this build; the RDDM download has no caller.
* `power_up` of sysfs, which assigns `pm_state` by hand, `mhi_system_suspend`,
  statistics, the debugfs files that only print, and logs; time-sync (no device announces it).
* Event rings as rings: recycling of their elements and their doorbells.  Each
  module has the events it consumes as a queue or a count.
* Of the network device: bridge mode and ARP replies, link state and carrier, the
  ioctls, MTU changes, transmit aggregation, the Ethernet type, and branches of
  options that are off.
* `mhi_qcom.c`, `mhi_arch_qti.c`, `mhi_netdev.c`, `mhi_satellite.c`: not compiled.
* The build scripts: sequential, stopped by the first error, with the output
  directory as their state; what an interruption leaves behind is decided in the
  external tools they call (`repo`, `git`, `make`, `sgdisk`, `resize2fs`).  The
  geometry script is range-checked arithmetic without state, and the first-boot
  and modem scripts are short sequences around such tools.

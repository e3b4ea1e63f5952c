------------------------------- MODULE MhiUci -------------------------------
(***************************************************************************)
(* One character device (devices/mhi_uci.c) over its two channels: files   *)
(* that are opened, read, written and closed, the commands that start and  *)
(* reset the channels (core/mhi_main.c), the packets of the modem, and     *)
(* mhi_driver_remove after an error.  It begins when mhi_uci_probe is done *)
(* and no file is open yet.                                                *)
(*                                                                         *)
(* A buffer is its position in uci_buf, a packet its number.  A section    *)
(* under a spinlock is one step, a mutex has a holder.  mhi_queue_transfer *)
(* is one step: its inner steps are those of MhiXfer.                      *)
(***************************************************************************)
EXTENDS Integers, FiniteSets, Sequences

CONSTANTS
  Users,    \* threads that use the device file
  NoOne,    \* a mutex without holder
  N,        \* descriptors of a channel
  Kinds,    \* callbacks that copy packets (MBIM, QMI, DUN): some of TRUE and FALSE
  Packets,  \* packets the modem sends
  Opens,    \* calls of mhi_uci_open
  Lates,    \* commands answered too late
  Crashes,  \* errors of the modem
  Odds      \* transfers of an unusable length

ASSUME UciAssumption ==
  /\ N \in Nat \ {0} /\ Kinds \subseteq BOOLEAN
  /\ {Packets, Opens, Lates, Crashes, Odds} \subseteq Nat
  /\ NoOne \notin Users /\ IsFiniteSet(Users)

VARIABLES
  copying,                             \* kind of the channel
  drv_lock, mutex, r_mutex, w_mutex,   \* their holders
  node,                                \* uci_dev: in the list, taken off it, freed
  enabled, ref_count, rx_error, nr_trb,
  uci_buf,                             \* the array of receive buffers: none, there, freed, freed twice
  pending, cur_buf,                    \* packets that wait, the one being read
  dl, ul,                              \* descriptors in the rings: receive, number of transmit
  ch_state, base, ch_mutex, done, ccs, \* the channels
  cmds, started,                       \* commands under way; what the modem has made of a channel
  pm, sent,                            \* the modem: error or not, packets sent
  odd, early,                          \* those of an unusable length; whether one came before its time
  arrived, taken,                      \* packets that reached the callback; the last one read
  pc, life, budget

locks    == <<drv_lock, mutex>>
files    == <<r_mutex, w_mutex>>
device   == <<node, enabled, ref_count, uci_buf>>
inbox    == <<pending, cur_buf>>
order    == <<rx_error, nr_trb>>
channels == <<ch_state, base, ch_mutex, done, ccs>>
modem    == <<started, pm, sent, odd, early>>
vars     == <<copying, locks, files, device, inbox, order, dl, ul, channels, cmds, modem, arrived, taken,
              pc, life, budget>>

Chans   == {"ul", "dl"}
Buffers == 0 .. N
NoBuf   == -1  \* a packet in memory of its own, or none
Nothing == [buf |-> NoBuf, pkt |-> 0]
Items   == [buf : Buffers \cup {NoBuf}, pkt : 0 .. Packets]

At(u, l) == pc[u] = l
Goto(u, l) == pc' = [pc EXCEPT ![u] = l]
Out == <<"out">>
Opened == <<"open">>
Spend(what) == budget[what] > 0 /\ budget' = [budget EXCEPT ![what] = @ - 1]

Init ==
  /\ copying \in Kinds
  /\ drv_lock = NoOne /\ mutex = NoOne /\ r_mutex = NoOne /\ w_mutex = NoOne
  /\ node = "listed" /\ enabled = TRUE /\ ref_count = 0 /\ rx_error = FALSE /\ nr_trb = 0
  /\ uci_buf = "none"
  /\ pending = <<>> /\ cur_buf = Nothing
  /\ dl = <<>> /\ ul = 0
  /\ ch_state = [c \in Chans |-> "DISABLED"] /\ base = [c \in Chans |-> FALSE]
  /\ ch_mutex = [c \in Chans |-> NoOne]
  /\ done = [c \in Chans |-> FALSE] /\ ccs = [c \in Chans |-> "invalid"]
  /\ cmds = <<>> /\ started = [c \in Chans |-> "never"]
  /\ pm = "ok" /\ sent = 0 /\ odd = {} /\ early = FALSE /\ arrived = 0 /\ taken = 0
  /\ pc = [u \in Users |-> Out] /\ life = "bound"
  /\ budget = [open |-> Opens, late |-> Lates, crash |-> Crashes, odd |-> Odds]

Places == {Out, Opened, <<"read">>, <<"copy">>, <<"write">>, <<"queue">>}
          \cup ({"prepare", "starting"} \X Chans) \cup ({"fill"} \X (0 .. N - 1))
          \cup ({"unprepare", "resetting"} \X Chans \X {"prepare", "fill", "close"})
TypeOK ==
  /\ {drv_lock, mutex, r_mutex, w_mutex} \subseteq Users \cup {NoOne}
  /\ node \in {"listed", "unlisted", "freed"} /\ ref_count \in Nat /\ nr_trb \in Buffers
  /\ {copying, enabled, rx_error, early} \subseteq BOOLEAN /\ odd \subseteq 1 .. Packets
  /\ uci_buf \in {"none", "there", "freed", "twice"}
  /\ pending \in Seq(Items) /\ cur_buf \in Items
  /\ dl \in Seq([buf : Buffers, pkt : 0 .. Packets]) /\ Len(dl) <= N /\ ul \in 0 .. N
  /\ ch_state \in [Chans -> {"DISABLED", "ENABLED", "SUSPENDED"}]
  /\ base \in [Chans -> BOOLEAN] /\ done \in [Chans -> BOOLEAN]
  /\ ch_mutex \in [Chans -> Users \cup {NoOne}] /\ ccs \in [Chans -> {"ok", "invalid"}]
  /\ cmds \in Seq({"START", "RESET"} \X Chans) /\ started \in [Chans -> {"never", "yes", "reset"}]
  /\ pm \in {"ok", "err"} /\ {sent, arrived, taken} \subseteq 0 .. Packets
  /\ pc \in [Users -> Places]
  /\ life \in {"bound", "wake_dl", "reset_dl", "wake_ul", "reset_ul", "remove", "deinit", "gone"}
  /\ budget \in [{"open", "late", "crash", "odd"} -> Nat]

-----------------------------------------------------------------------------
(* The receive buffers.                                                    *)

\* Mutant: the buffer after it.
Before_After(b) == IF b = N THEN 0 ELSE b + 1

\* What is queued when b has been used: there is one buffer more than descriptors, so that the
\* order of addresses in the ring stays what it was.
Before(b) == IF b = 0 THEN N ELSE b - 1

\* mhi_queue_transfer into a receive ring holding ring.
Queued(ring) == pm = "ok" /\ Len(ring) < N

\* The k-th buffer after b.
After(b, k) == IF b + k > N THEN b + k - N - 1 ELSE b + k

\* The test at the start of mhi_dl_xfer_cb: completions come in the order of the buffers.  Those
\* that do count nr_trb up; of those behind one that does not, any number may.
InTurn(ring) == \A k \in DOMAIN ring : ring[k].buf = After(nr_trb, k - 1)
Counted(ring) ==
  IF InTurn(ring) THEN nr_trb' = After(nr_trb, Len(ring)) /\ rx_error' = rx_error
  ELSE rx_error' = TRUE /\ \E k \in 0 .. Len(ring) - 1 : nr_trb' = After(nr_trb, k)

\* mhi_reset_chan: every descriptor is returned with -ENOTCONN.
ResetChan(c) == IF c = "dl" THEN dl' = <<>> /\ ul' = ul /\ Counted(dl)
                            ELSE ul' = 0 /\ UNCHANGED <<dl, order>>

-----------------------------------------------------------------------------
(* mhi_uci_open.                                                           *)

\* The first open starts the channels, with drv_lock and mutex held.
OpenEnter(u) ==
  /\ At(u, Out) /\ drv_lock = NoOne /\ mutex = NoOne /\ node = "listed" /\ Spend("open")
  /\ ref_count' = ref_count + 1
  /\ IF ref_count = 0
     THEN drv_lock' = u /\ mutex' = u /\ Goto(u, <<"prepare", "ul">>)
     ELSE Goto(u, Opened) /\ UNCHANGED locks
  /\ UNCHANGED <<copying, files, node, enabled, uci_buf, inbox, order, dl, ul, channels, cmds, modem,
                 arrived, taken, life>>

OpenLeave(u, l) == drv_lock' = NoOne /\ mutex' = NoOne /\ Goto(u, l)

\* mhi_prepare_for_transfer could not start c.
PrepareFailed(u, c) ==
  IF c = "ul" THEN OpenLeave(u, Out) /\ ref_count' = ref_count - 1
              ELSE Goto(u, <<"unprepare", "ul", "prepare">>) /\ UNCHANGED <<locks, ref_count>>

\* Mutant: the completion of an earlier command counts.
Reinit_Skipped(c) == UNCHANGED done

\* reinit_completion(&mhi_chan->completion)
Reinit(c) == done' = [done EXCEPT ![c] = FALSE]

\* __mhi_prepare_channel up to the wait for the answer.
Prepare(u, c) ==
  /\ At(u, <<"prepare", c>>) /\ ch_mutex[c] = NoOne
  /\ IF ch_state[c] = "DISABLED" THEN Reinit(c) ELSE done' = done
  /\ IF ch_state[c] = "DISABLED" /\ pm = "ok"
     THEN /\ base' = [base EXCEPT ![c] = TRUE]
          /\ cmds' = Append(cmds, <<"START", c>>)
          /\ ch_mutex' = [ch_mutex EXCEPT ![c] = u]
          /\ Goto(u, <<"starting", c>>) /\ UNCHANGED <<locks, ref_count>>
     ELSE PrepareFailed(u, c) /\ UNCHANGED <<base, cmds, ch_mutex>>
  /\ UNCHANGED <<copying, files, node, enabled, uci_buf, inbox, order, dl, ul, ch_state, ccs, modem,
                 arrived, taken, life, budget>>

\* The answer is there, or the waiter has been woken by mhi_driver_remove.
Started(u, c) ==
  /\ At(u, <<"starting", c>>) /\ done[c]
  /\ ch_mutex' = [ch_mutex EXCEPT ![c] = NoOne]
  /\ IF ccs[c] = "ok"
     THEN /\ ch_state' = [ch_state EXCEPT ![c] = "ENABLED"] /\ base' = base
          /\ Goto(u, IF c = "ul" THEN <<"prepare", "dl">> ELSE <<"fill", 0>>)
          /\ UNCHANGED <<locks, ref_count>>
     ELSE base' = [base EXCEPT ![c] = FALSE] /\ PrepareFailed(u, c) /\ ch_state' = ch_state
  /\ UNCHANGED <<copying, files, node, enabled, uci_buf, inbox, order, dl, ul, done, ccs, cmds, modem,
                 arrived, taken, life, budget>>

\* A wait ends without an answer that is late, or that will not come.
Expires == IF pm = "ok" THEN Spend("late") ELSE budget' = budget

StartExpires(u, c) ==
  /\ At(u, <<"starting", c>>) /\ ~done[c] /\ Expires
  /\ ch_mutex' = [ch_mutex EXCEPT ![c] = NoOne]
  /\ base' = [base EXCEPT ![c] = FALSE] /\ PrepareFailed(u, c)
  /\ UNCHANGED <<copying, files, node, enabled, uci_buf, inbox, order, dl, ul, ch_state, done, ccs,
                 cmds, modem, arrived, taken, life>>

\* Mutant: nothing keeps the channels started.
Filled_NotKept(u) == ref_count' = ref_count /\ OpenLeave(u, Opened)

\* QUEC_MHI_UCI_ALWAYS_OPEN: a reference that no file holds.
Filled(u) == ref_count' = ref_count + 1 /\ OpenLeave(u, Opened)

\* mhi_queue_inbound: the buffers are allocated once and queued one by one.
Fill(u) ==
  \E i \in 0 .. N - 1 :
    /\ At(u, <<"fill", i>>)
    /\ IF uci_buf = "none" THEN uci_buf' = "there" /\ nr_trb' = 0 ELSE UNCHANGED <<uci_buf, nr_trb>>
    /\ IF ~Queued(dl)
       THEN Goto(u, <<"unprepare", "dl", "fill">>) /\ UNCHANGED <<dl, locks, ref_count>>
       ELSE /\ dl' = Append(dl, [buf |-> i, pkt |-> 0])
            /\ IF i = N - 1 THEN Filled(u)
                            ELSE Goto(u, <<"fill", i + 1>>) /\ UNCHANGED <<locks, ref_count>>
    /\ UNCHANGED <<copying, files, node, enabled, rx_error, inbox, ul, channels, cmds, modem, arrived,
                   taken, life, budget>>

-----------------------------------------------------------------------------
(* __mhi_unprepare_channel, and what its callers do when it is done.       *)

FreeBuffers ==
  uci_buf' = CASE uci_buf = "none" -> "none" [] uci_buf = "there" -> "freed" [] OTHER -> "twice"

\* dl before ul in mhi_unprepare_from_transfer; a failed mhi_prepare_for_transfer has only ul.
Unprepared(u, c, why) ==
  CASE why # "prepare" /\ c = "dl" ->
         Goto(u, <<"unprepare", "ul", why>>) /\ UNCHANGED <<locks, ref_count, uci_buf, cur_buf>>
    [] why = "prepare" -> OpenLeave(u, Out) /\ ref_count' = ref_count - 1 /\ UNCHANGED <<uci_buf, cur_buf>>
    [] why = "fill" /\ c = "ul" -> OpenLeave(u, Out) /\ FreeBuffers /\ UNCHANGED <<ref_count, cur_buf>>
    [] why = "close" /\ c = "ul" ->
         /\ mutex' = NoOne /\ Goto(u, Out) /\ FreeBuffers /\ cur_buf' = Nothing
         /\ UNCHANGED <<drv_lock, ref_count>>

Unprepare(u, c, why) ==
  /\ At(u, <<"unprepare", c, why>>) /\ ch_mutex[c] = NoOne
  /\ IF ch_state[c] # "ENABLED"
     THEN Unprepared(u, c, why) /\ UNCHANGED <<dl, ul, order, ch_state, base, ch_mutex, done, cmds>>
     ELSE /\ ch_state' = [ch_state EXCEPT ![c] = "DISABLED"]
          /\ Reinit(c)
          /\ IF pm = "err"
             THEN /\ ResetChan(c) /\ base' = [base EXCEPT ![c] = FALSE]
                  /\ Unprepared(u, c, why) /\ UNCHANGED <<ch_mutex, cmds>>
             ELSE /\ cmds' = Append(cmds, <<"RESET", c>>)
                  /\ ch_mutex' = [ch_mutex EXCEPT ![c] = u]
                  /\ Goto(u, <<"resetting", c, why>>)
                  /\ UNCHANGED <<dl, ul, order, base, locks, ref_count, uci_buf, cur_buf>>
  /\ UNCHANGED <<copying, files, node, enabled, pending, ccs, modem, arrived, taken, life, budget>>

\* "even if it fails we will still reset"
ResetOver(u, c, why) ==
  /\ ResetChan(c) /\ base' = [base EXCEPT ![c] = FALSE]
  /\ ch_mutex' = [ch_mutex EXCEPT ![c] = NoOne]
  /\ Unprepared(u, c, why)
  /\ UNCHANGED <<copying, files, node, enabled, pending, ch_state, done, ccs, cmds, modem, arrived,
                 taken, life>>
ResetEnds(u, c, why) ==
  At(u, <<"resetting", c, why>>) /\ done[c] /\ ResetOver(u, c, why) /\ budget' = budget
ResetExpires(u, c, why) ==
  At(u, <<"resetting", c, why>>) /\ ~done[c] /\ Expires /\ ResetOver(u, c, why)

-----------------------------------------------------------------------------
(* mhi_uci_release.                                                        *)

\* The last one frees the device if it is gone, and else would reset the channels.
Close(u) ==
  /\ At(u, Opened) /\ mutex = NoOne
  /\ ref_count' = ref_count - 1
  /\ CASE ref_count # 1 -> Goto(u, Out) /\ UNCHANGED <<mutex, node, uci_buf, cur_buf>>
       [] ref_count = 1 /\ enabled ->
            mutex' = u /\ Goto(u, <<"unprepare", "dl", "close">>) /\ UNCHANGED <<node, uci_buf, cur_buf>>
       [] OTHER -> FreeBuffers /\ cur_buf' = Nothing /\ node' = "freed" /\ Goto(u, Out) /\ mutex' = mutex
  /\ UNCHANGED <<copying, drv_lock, files, enabled, pending, order, dl, ul, channels, cmds, modem,
                 arrived, taken, life, budget>>

-----------------------------------------------------------------------------
(* mhi_uci_read, under r_mutex.                                            *)

\* The next packet, unless one is half read.
TakePacket == IF cur_buf # Nothing THEN UNCHANGED inbox
                                   ELSE cur_buf' = Head(pending) /\ pending' = Tail(pending)

ReadEnter(u) ==
  /\ At(u, Opened) /\ r_mutex = NoOne /\ ~rx_error /\ enabled
  /\ r_mutex' = u
  /\ IF cur_buf # Nothing \/ pending # <<>> THEN Goto(u, <<"copy">>) /\ TakePacket
                                            ELSE Goto(u, <<"read">>) /\ UNCHANGED inbox
  /\ UNCHANGED <<copying, locks, w_mutex, device, order, dl, ul, channels, cmds, modem, arrived,
                 taken, life, budget>>

ReadLeave(u) == r_mutex' = NoOne /\ Goto(u, Opened)

\* Data, or the device is gone.
ReadWake(u) ==
  /\ At(u, <<"read">>) /\ (pending # <<>> \/ ~enabled)
  /\ IF enabled THEN Goto(u, <<"copy">>) /\ TakePacket /\ r_mutex' = r_mutex
                ELSE ReadLeave(u) /\ UNCHANGED inbox
  /\ UNCHANGED <<copying, locks, w_mutex, device, order, dl, ul, channels, cmds, modem, arrived,
                 taken, life, budget>>

\* A signal ends the wait, or the reader's buffer the copy.
ReadStops(u) ==
  /\ At(u, <<"read">>) \/ At(u, <<"copy">>)
  /\ ReadLeave(u)
  /\ UNCHANGED <<copying, locks, w_mutex, device, inbox, order, dl, ul, channels, cmds, modem, arrived,
                 taken, life, budget>>

\* A packet has been read to its end, and a buffer goes back into the ring; if that fails the
\* reader gets the error for it.
ReadEnds(u) ==
  /\ At(u, <<"copy">>) /\ ReadLeave(u)
  /\ cur_buf' = Nothing
  /\ LET b == cur_buf.buf
         recycled == b = NoBuf \/ Queued(dl)
     IN  /\ dl' = IF enabled /\ b # NoBuf /\ recycled
                  THEN Append(dl, [buf |-> Before(b), pkt |-> 0]) ELSE dl
         /\ taken' = IF enabled /\ recycled THEN cur_buf.pkt ELSE taken
  /\ UNCHANGED <<copying, locks, w_mutex, device, pending, order, ul, channels, cmds, modem, arrived,
                 life, budget>>

-----------------------------------------------------------------------------
(* mhi_uci_write, under w_mutex.                                           *)

WriteEnter(u) ==
  /\ At(u, Opened) /\ w_mutex = NoOne /\ ~rx_error /\ enabled
  /\ w_mutex' = u /\ Goto(u, <<"write">>)
  /\ UNCHANGED <<copying, locks, r_mutex, device, inbox, order, dl, ul, channels, cmds, modem, arrived,
                 taken, life, budget>>

WriteLeave(u) == w_mutex' = NoOne /\ Goto(u, Opened)

\* There is a descriptor, or the device is gone.
WriteWake(u) ==
  /\ At(u, <<"write">>) /\ (ul < N \/ ~enabled)
  /\ IF enabled THEN Goto(u, <<"queue">>) /\ w_mutex' = w_mutex ELSE WriteLeave(u)
  /\ UNCHANGED <<copying, locks, r_mutex, device, inbox, order, dl, ul, channels, cmds, modem, arrived,
                 taken, life, budget>>

WriteStops(u) ==
  /\ At(u, <<"write">>) /\ WriteLeave(u)
  /\ UNCHANGED <<copying, locks, r_mutex, device, inbox, order, dl, ul, channels, cmds, modem, arrived,
                 taken, life, budget>>

\* Mutant: the device is not looked at again.
MayQueue_Unchecked == TRUE

\* Meanwhile the data have been copied without a lock.
MayQueue == enabled
WriteQueue(u) ==
  /\ At(u, <<"queue">>)
  /\ IF MayQueue /\ pm = "ok" /\ ul < N
     THEN ul' = ul + 1 /\ (WriteLeave(u) \/ (Goto(u, <<"write">>) /\ w_mutex' = w_mutex))
     ELSE ul' = ul /\ WriteLeave(u)
  /\ UNCHANGED <<copying, locks, r_mutex, device, inbox, order, dl, channels, cmds, modem, arrived,
                 taken, life, budget>>

-----------------------------------------------------------------------------
(* The modem, and the event task.                                          *)

\* A command is executed and its completion processed (mhi_process_cmd_completion).
Answer ==
  /\ cmds # <<>> /\ pm = "ok"
  /\ LET c == Head(cmds)[2]
     IN  /\ started' = [started EXCEPT ![c] = IF Head(cmds)[1] = "START" THEN "yes" ELSE "reset"]
         /\ done' = [done EXCEPT ![c] = TRUE] /\ ccs' = [ccs EXCEPT ![c] = "ok"]
  /\ cmds' = Tail(cmds)
  /\ UNCHANGED <<copying, locks, files, device, inbox, order, dl, ul, ch_state, base, ch_mutex, pm, sent,
                 odd, early, arrived, taken, pc, life, budget>>

\* The length of a packet is usable if it is neither 0 nor beyond the buffer's (mtu).
SomeLength == \/ odd' = odd /\ budget' = budget
              \/ odd' = odd \cup {sent + 1} /\ Spend("odd")

\* The modem fills the first descriptor that is empty, also while mhi_queue_inbound still runs.
Receive ==
  /\ pm = "ok" /\ started["dl"] = "yes"
  /\ sent < Packets /\ sent' = sent + 1
  /\ SomeLength /\ early' = (early \/ \E u \in Users : pc[u][1] = "fill")
  /\ \E k \in DOMAIN dl :
       /\ dl[k].pkt = 0 /\ \A j \in 1 .. k - 1 : dl[j].pkt # 0
       /\ dl' = [dl EXCEPT ![k].pkt = sent + 1]
  /\ UNCHANGED <<copying, locks, files, device, inbox, order, ul, channels, cmds, started, pm, arrived,
                 taken, pc, life>>

\* Mutant: the reference that no file holds is forgotten.
Unheard_OffByOne == ref_count <= 2

\* "if (uci_dev->ref_count == 1) skip_buf++"
Unheard == ref_count = 1

\* mhi_dl_xfer_cb.  A buffer with an unusable length is counted, and then forgotten.
Received ==
  /\ ch_state["dl"] = "ENABLED" /\ dl # <<>> /\ Head(dl).pkt # 0
  /\ LET b == Head(dl).buf
         p == Head(dl).pkt
         usable == b = nr_trb /\ p \notin odd
         requeue == copying /\ usable /\ Queued(Tail(dl))
     IN  /\ Counted(<<Head(dl)>>)
         /\ arrived' = p
         /\ pending' = IF ~usable \/ (copying /\ Unheard) THEN pending
                       ELSE Append(pending, [buf |-> IF copying THEN NoBuf ELSE b, pkt |-> p])
         /\ dl' = IF requeue THEN Append(Tail(dl), [buf |-> Before(b), pkt |-> 0]) ELSE Tail(dl)
  /\ UNCHANGED <<copying, locks, files, device, cur_buf, ul, channels, cmds, modem, taken, pc, life,
                 budget>>

\* The modem takes a packet, and mhi_ul_xfer_cb frees it.
Transmit ==
  /\ ch_state["ul"] = "ENABLED" /\ started["ul"] = "yes" /\ ul > 0
  /\ ul' = ul - 1
  /\ UNCHANGED <<copying, locks, files, device, inbox, order, dl, channels, cmds, modem, arrived, taken,
                 pc, life, budget>>

Crash ==
  /\ pm = "ok" /\ life = "bound" /\ Spend("crash")
  /\ pm' = "err" /\ started' = [c \in Chans |-> "never"] /\ cmds' = <<>> /\ life' = "wake_dl"
  /\ UNCHANGED <<copying, locks, files, device, inbox, order, dl, ul, channels, sent, odd, early,
                 arrived, taken, pc>>

-----------------------------------------------------------------------------
(* mhi_driver_remove.                                                      *)

Removing(from, to) == life = from /\ life' = to

\* Mutant: nobody is woken.
Wake_Silent(c) == UNCHANGED <<done, ccs>>

\* "wake all threads waiting for completion"
Wake(c) == done' = [done EXCEPT ![c] = TRUE] /\ ccs' = [ccs EXCEPT ![c] = "invalid"]
RemoveWake(c) ==
  /\ Removing(IF c = "dl" THEN "wake_dl" ELSE "wake_ul", IF c = "dl" THEN "reset_dl" ELSE "reset_ul")
  /\ Wake(c)
  /\ UNCHANGED <<copying, locks, files, device, inbox, order, dl, ul, ch_state, base, ch_mutex, cmds,
                 modem, arrived, taken, pc, budget>>

\* "move channel state to disable, no more processing"
RemoveReset(c) ==
  /\ Removing(IF c = "dl" THEN "reset_dl" ELSE "reset_ul", IF c = "dl" THEN "wake_ul" ELSE "remove")
  /\ ch_mutex[c] = NoOne
  /\ ch_state' = [ch_state EXCEPT ![c] = "SUSPENDED"]
  /\ ResetChan(c)
  /\ UNCHANGED <<copying, locks, files, device, inbox, base, ch_mutex, done, ccs, cmds, modem, arrived,
                 taken, pc, budget>>

\* mhi_uci_remove
Released == ref_count' = IF ref_count > 0 THEN ref_count - 1 ELSE 0
RemoveDevice ==
  /\ Removing("remove", "deinit") /\ drv_lock = NoOne /\ mutex = NoOne
  /\ enabled' = FALSE /\ Released
  /\ node' = IF ref_count' = 0 THEN "freed" ELSE "unlisted"
  /\ UNCHANGED <<copying, locks, files, uci_buf, inbox, order, dl, ul, channels, cmds, modem, arrived,
                 taken, pc, budget>>

\* The rings are freed; then the error is over.
RemoveDeinit ==
  /\ Removing("deinit", "gone") /\ \A c \in Chans : ch_mutex[c] = NoOne
  /\ ch_state' = [c \in Chans |-> "DISABLED"] /\ base' = [c \in Chans |-> FALSE]
  /\ pm' = "ok"
  /\ UNCHANGED <<copying, locks, files, device, inbox, order, dl, ul, ch_mutex, done, ccs, cmds, started,
                 sent, odd, early, arrived, taken, pc, budget>>

Removal == \/ \E c \in Chans : RemoveWake(c) \/ RemoveReset(c)
           \/ RemoveDevice \/ RemoveDeinit

-----------------------------------------------------------------------------
Whys == {"prepare", "fill", "close"}
OpenGoesOn(u) == \/ \E c \in Chans : Prepare(u, c) \/ Started(u, c)
                 \/ Fill(u)
                 \/ \E c \in Chans, why \in Whys : Unprepare(u, c, why) \/ ResetEnds(u, c, why)
WaitExpires(u) == \/ \E c \in Chans : StartExpires(u, c)
                  \/ \E c \in Chans, why \in Whys : ResetExpires(u, c, why)
FileGoesOn(u) == ReadWake(u) \/ ReadEnds(u) \/ WriteWake(u) \/ WriteQueue(u)
User(u) == \/ OpenEnter(u) \/ OpenGoesOn(u) \/ WaitExpires(u)
           \/ Close(u) \/ ReadEnter(u) \/ WriteEnter(u) \/ FileGoesOn(u) \/ ReadStops(u) \/ WriteStops(u)

Next == (\E u \in Users : User(u)) \/ Answer \/ Receive \/ Received \/ Transmit \/ Crash \/ Removal

\* Calls go on, except that nobody relies on a wait to expire; commands are answered while the
\* modem lives; the removal goes on.
Fairness == /\ \A u \in Users : WF_vars(OpenGoesOn(u)) /\ WF_vars(FileGoesOn(u))
            /\ WF_vars(Answer) /\ WF_vars(Received) /\ WF_vars(Transmit) /\ WF_vars(Removal)

Spec == Init /\ [][Next]_vars
FairSpec == Spec /\ Fairness

-----------------------------------------------------------------------------
(* Properties.                                                             *)

\* "safe to free memory only if all file nodes are closed" (mhi_uci_remove): whoever has a file or
\* is about to get one finds the device there.
DeviceInUse == node = "freed" => \A u \in Users : At(u, Out)

\* A receive buffer is in one place: in the ring, where the modem writes, waiting, or being read.
Held(b) == Cardinality({k \in DOMAIN dl : dl[k].buf = b})
           + Cardinality({k \in DOMAIN pending : pending[k].buf = b})
           + IF cur_buf.buf = b THEN 1 ELSE 0
BufferOwned == \A b \in Buffers : Held(b) <= 1

\* Completions come in the order mhi_dl_xfer_cb expects ("this can make the address in ring do not
\* change"); otherwise the device refuses every read and write from then on.
InOrder == ~rx_error

\* What mhi_dl_xfer_cb counts on: every packet has a usable length, and none comes before
\* mhi_queue_inbound is done.
Regular == odd = {} /\ ~early

\* The state is well formed: everything has its type, a buffer its place, and as long as the modem
\* does what mhi_dl_xfer_cb counts on a completion has the buffer that is its.
WellFormed == TypeOK /\ BufferOwned /\ (Regular => InOrder)

\* Packets are read in the order they came and once, and none is lost while somebody has the file
\* open and the modem does what mhi_dl_xfer_cb counts on.
Pipe == INSTANCE PacketPipe WITH
          alive <- pm = "ok" /\ life = "bound" /\ Regular,
          listening <- \E u \in Users : pc[u][1] \in {"open", "read", "copy", "write", "queue"},
          waiting <- [k \in 1 .. Len(pending) + (IF cur_buf = Nothing THEN 0 ELSE 1) |->
                        IF cur_buf = Nothing THEN pending[k].pkt
                        ELSE IF k = 1 THEN cur_buf.pkt ELSE pending[k - 1].pkt]
PipeSpec == Pipe!Spec

\* Nothing is queued into rings that are not allocated (what MhiXfer assumes of a client at Leave).
QueuedIntoRings == [][/\ Len(dl') > Len(dl) => base["dl"]
                      /\ ul' > ul => base["ul"]]_vars

\* "sdx20 can not handle start-reset-start operation": once the modem has reset a channel it is not
\* asked to start it again, however files are opened and closed.
NoRestart == [][budget["late"] = Lates => \A c \in Chans : started[c] = "reset" => started'[c] # "yes"]_vars

\* A channel the driver enables has been started by the modem: the driver does not take the answer
\* to an earlier command for it.
ChannelsAgree == pm = "ok" /\ life = "bound" =>
                   \A c \in Chans : ch_state[c] = "ENABLED" => started[c] = "yes"

\* mhi_driver_remove ends without waiting for anybody's timeout.
RemovalEnds == life = "wake_dl" ~> life = "gone"

\* Nobody sleeps on in read or write once the device is gone.
SleepersWoken == \A u \in Users : (pc[u] \in {<<"read">>, <<"write">>} /\ ~enabled) ~> At(u, Opened)

\* A removal waits for nobody, and nobody waits for what was removed.
NobodyStuck == RemovalEnds /\ SleepersWoken
=============================================================================

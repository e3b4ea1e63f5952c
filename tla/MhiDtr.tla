------------------------------- MODULE MhiDtr -------------------------------
(***************************************************************************)
(* Terminal signals (core/mhi_dtr.c).  One control channel carries the     *)
(* signals of all the terminal channels: the host tells the modem DTR and  *)
(* RTS of a channel and waits until the message is taken; the modem tells  *)
(* the host CD, DSR and RI.  Both kinds are bits of one word, tiocm.       *)
(*                                                                         *)
(* The ioctl of a character device holds the mutex of that device, so each *)
(* channel has one caller at a time; callers of different channels meet at *)
(* the mutex of the control channel.                                       *)
(***************************************************************************)
EXTENDS Integers, Sequences, FiniteSets

CONSTANTS
  Chans,     \* the terminal channels
  Settings,  \* what callers ask for, subsets of Host
  Signals,   \* what the modem reports, subsets of Modem
  Stray,     \* a destination that is no channel with a device
  Ring,      \* messages the uplink ring holds
  Bufs,      \* descriptors of the inbound ring
  Calls, Reports, Short, \* calls of each channel; reports of the modem, of the wrong length
  Fails,     \* failures of kzalloc and mhi_queue_transfer
  Late,      \* answers that come after the timeout
  Removals   \* removals of the control device (0 or 1)

Host  == {"DTR", "RTS"}
Modem == {"CD", "DSR", "RI"}

ASSUME DtrAssumption ==
  /\ IsFiniteSet(Chans) /\ Settings \subseteq SUBSET Host
  /\ Signals \subseteq SUBSET Modem /\ Stray \notin Chans
  /\ {Ring, Bufs} \subseteq Nat \ {0} /\ {Calls, Reports, Short, Fails, Late} \subseteq Nat
  /\ Removals \in {0, 1}

VARIABLES
  tiocm,   \* of each channel
  lock,    \* of each channel: who holds devres_lock
  word,    \* of each holder: the word it read under the lock
  pc, arg, \* of each channel: where its caller is, and what it asks for
  mutex,   \* who holds dtr_chan->mutex
  done,    \* completions not waited for; Many of them are those of complete_all
  out,     \* uplink ring: what each message says, and whether it is still allocated
  acks,    \* completions of uplink messages on their way to the host
  in,      \* filled inbound buffers on their way to the host
  inbound, \* buffers in the inbound ring
  cb,      \* the message whose downlink callback runs, or none
  view,    \* modem: the setting of each channel as it was last told
  sent,    \* modem: the signals of each channel it last reported
  dtr,     \* control device: "down", "up", or "unbound" when its probe failed; in a removal its
           \* callers are "woken", its channels "reset", and it is "gone" (dtr_dev is NULL)
  budget

call == <<pc, arg, mutex, done>>
dev  == <<in, inbound, sent>>
vars == <<tiocm, lock, word, call, out, acks, dev, cb, view, dtr, budget>>

None == [dest |-> Stray, msg |-> {}]
Dests == Chans \cup {Stray}
Many == Cardinality(Chans) * Calls + 2 \* complete_all: more than anybody will wait for

\* The channels are started and dtr_dev is set.
Serving == dtr \in {"up", "unbound"}

\* A removal took the channels, or a message outlived its call.
Disturbed == ~Serving \/ budget.late < Late

Init ==
  /\ tiocm = [c \in Chans |-> {}] /\ lock = [c \in Chans |-> "free"]
  /\ word = [w \in {"call", "cb"} |-> {}]
  /\ pc = [c \in Chans |-> "idle"] /\ arg = [c \in Chans |-> {}]
  /\ mutex = Stray /\ done = 0 /\ out = <<>> /\ acks = 0
  /\ in = <<>> /\ inbound = 0 /\ cb = None
  /\ view = [c \in Chans |-> {}] /\ sent = [c \in Chans |-> {}]
  /\ dtr = "down"
  /\ budget = [call |-> [c \in Chans |-> Calls], report |-> Reports, short |-> Short,
               fail |-> Fails, late |-> Late]

TypeOK ==
  /\ tiocm \in [Chans -> SUBSET (Host \cup Modem)]
  /\ lock \in [Chans -> {"free", "call", "cb"}]
  /\ word \in [{"call", "cb"} -> SUBSET (Host \cup Modem)]
  /\ pc \in [Chans -> {"idle", "mutex", "queue", "wait", "update", "store", "exit", "fault"}]
  /\ arg \in [Chans -> SUBSET Host] /\ mutex \in Dests /\ done \in 0 .. Many
  /\ out \in Seq([chan : Chans, msg : SUBSET Host, live : BOOLEAN]) /\ Len(out) <= Ring
  /\ acks \in Nat
  /\ in \in Seq([dest : Dests, msg : SUBSET Modem, whole : BOOLEAN])
  /\ inbound \in 0 .. Bufs /\ cb \in [dest : Dests, msg : SUBSET Modem]
  /\ view \in [Chans -> SUBSET Host] /\ sent \in [Chans -> SUBSET Modem]
  /\ dtr \in {"down", "up", "unbound", "woken", "reset", "gone"}
  /\ budget \in [call : [Chans -> 0 .. Calls], report : 0 .. Reports, short : 0 .. Short,
                  fail : 0 .. Fails, late : 0 .. Late]

-----------------------------------------------------------------------------
\* mhi_dtr_probe with mhi_dtr_queue_inbound.  When a buffer cannot be had the probe fails, with
\* dtr_dev set and the channels started; nobody will remove what was never bound.
Probe ==
  /\ dtr = "down"
  /\ \/ dtr' = "up" /\ inbound' = Bufs /\ UNCHANGED budget
     \/ /\ budget.fail > 0 /\ budget' = [budget EXCEPT !.fail = @ - 1]
        /\ dtr' = "unbound" /\ inbound' \in 0 .. Bufs - 1
  /\ UNCHANGED <<tiocm, lock, word, call, out, acks, in, sent, cb, view>>

-----------------------------------------------------------------------------
(* mhi_ioctl and mhi_dtr_tiocmset.                                         *)

Goto(c, l) == pc' = [pc EXCEPT ![c] = l]

\* TIOCMSET; a setting the word already holds is not sent.
Ioctl(c, s) ==
  /\ pc[c] = "idle" /\ budget.call[c] > 0 /\ dtr \notin {"down", "gone"}
  /\ budget' = [budget EXCEPT !.call[c] = @ - 1]
  /\ tiocm[c] \cap Host # s
  /\ arg' = [arg EXCEPT ![c] = s] /\ Goto(c, "mutex")
  /\ UNCHANGED <<tiocm, lock, word, mutex, done, out, acks, dev, cb, view, dtr>>

\* Mutant: callers of different channels do not exclude each other.
Lock_Shared(c) ==
  /\ pc[c] = "mutex" /\ mutex' = c /\ done' = 0 /\ Goto(c, "queue")
  /\ UNCHANGED <<tiocm, lock, word, arg, out, acks, dev, cb, view, dtr, budget>>

\* The mutex, kzalloc, and the completion made ready.
Lock(c) ==
  /\ pc[c] = "mutex" /\ mutex = Stray /\ mutex' = c
  /\ \/ done' = 0 /\ Goto(c, "queue") /\ UNCHANGED budget
     \/ /\ budget.fail > 0 /\ budget' = [budget EXCEPT !.fail = @ - 1]
        /\ Goto(c, "exit") /\ UNCHANGED done
  /\ UNCHANGED <<tiocm, lock, word, arg, out, acks, dev, cb, view, dtr>>

\* mhi_queue_transfer.  It fails when the ring is full or the controller in error (which a removal
\* may have made it), and reads through dtr_dev, which a removal may have cleared.
Queue(c) ==
  /\ pc[c] = "queue"
  /\ \/ dtr = "gone" /\ Goto(c, "fault") /\ UNCHANGED <<out, budget>>
     \/ /\ dtr # "gone" /\ Len(out) < Ring
        /\ out' = Append(out, [chan |-> c, msg |-> arg[c], live |-> TRUE])
        /\ Goto(c, "wait") /\ UNCHANGED budget
     \/ /\ dtr # "gone" /\ (Len(out) = Ring \/ ~Serving) /\ Goto(c, "exit")
        /\ UNCHANGED <<out, budget>>
     \/ /\ dtr # "gone" /\ budget.fail > 0 /\ budget' = [budget EXCEPT !.fail = @ - 1]
        /\ Goto(c, "exit") /\ UNCHANGED out
  /\ UNCHANGED <<tiocm, lock, word, arg, mutex, done, acks, dev, cb, view, dtr>>

\* Waiting does not use up what complete_all left.
Answered(c) ==
  /\ pc[c] = "wait" /\ done > 0
  /\ done' = (IF done = Many THEN Many ELSE done - 1) /\ Goto(c, "update")
  /\ UNCHANGED <<tiocm, lock, word, arg, mutex, out, acks, dev, cb, view, dtr, budget>>

Timeout(c) ==
  /\ pc[c] = "wait" /\ done = 0
  /\ IF Serving THEN budget.late > 0 /\ budget' = [budget EXCEPT !.late = @ - 1]
                ELSE UNCHANGED budget
  /\ Goto(c, "exit")
  /\ UNCHANGED <<tiocm, lock, word, arg, mutex, done, out, acks, dev, cb, view, dtr>>

\* The word is read and written under the lock of the channel's device.
Update(c) ==
  /\ pc[c] = "update" /\ lock[c] = "free"
  /\ lock' = [lock EXCEPT ![c] = "call"] /\ word' = [word EXCEPT !.call = tiocm[c]]
  /\ Goto(c, "store")
  /\ UNCHANGED <<tiocm, arg, mutex, done, out, acks, dev, cb, view, dtr, budget>>

Store(c) ==
  /\ pc[c] = "store"
  /\ tiocm' = [tiocm EXCEPT ![c] = (word.call \ Host) \cup arg[c]]
  /\ lock' = [lock EXCEPT ![c] = "free"] /\ Goto(c, "exit")
  /\ UNCHANGED <<word, arg, mutex, done, out, acks, dev, cb, view, dtr, budget>>

\* Mutant: an error return leaves the mutex locked.
Exit_KeepsMutex(c) ==
  /\ pc[c] = "exit" /\ Goto(c, "idle")
  /\ mutex' = IF arg[c] = tiocm[c] \cap Host THEN Stray ELSE mutex
  /\ out' = [i \in DOMAIN out |-> IF out[i].chan = c THEN [out[i] EXCEPT !.live = FALSE] ELSE out[i]]
  /\ UNCHANGED <<tiocm, lock, word, arg, done, acks, dev, cb, view, dtr, budget>>

\* The message is freed, also when it still lies in the ring.
Exit(c) ==
  /\ pc[c] = "exit" /\ Goto(c, "idle") /\ mutex' = Stray
  /\ out' = [i \in DOMAIN out |-> IF out[i].chan = c THEN [out[i] EXCEPT !.live = FALSE] ELSE out[i]]
  /\ UNCHANGED <<tiocm, lock, word, arg, done, acks, dev, cb, view, dtr, budget>>

\* The rest of a call, once it is made.
Tiocmset(c) ==
  Lock(c) \/ Queue(c) \/ Answered(c) \/ Timeout(c) \/ Update(c) \/ Store(c) \/ Exit(c)

-----------------------------------------------------------------------------
(* The modem.                                                              *)

\* It takes a message; freed memory says anything.
ModemTake ==
  /\ out # <<>> /\ (Serving \/ dtr = "woken")
  /\ IF Head(out).live
     THEN view' = [view EXCEPT ![Head(out).chan] = Head(out).msg]
     ELSE \/ UNCHANGED view
          \/ \E c \in Chans, s \in Settings : view' = [view EXCEPT ![c] = s]
  /\ out' = Tail(out) /\ acks' = acks + 1
  /\ UNCHANGED <<tiocm, lock, word, call, dev, cb, dtr, budget>>

\* It fills a buffer with a report, now and then one of the wrong length.
ModemReport(d, s) ==
  /\ budget.report > 0 /\ inbound > 0 /\ Serving
  /\ inbound' = inbound - 1
  /\ \/ /\ in' = Append(in, [dest |-> d, msg |-> s, whole |-> TRUE])
        /\ sent' = IF d \in Chans THEN [sent EXCEPT ![d] = s] ELSE sent
        /\ budget' = [budget EXCEPT !.report = @ - 1]
     \/ /\ budget.short > 0 /\ in' = Append(in, [dest |-> d, msg |-> s, whole |-> FALSE])
        /\ budget' = [budget EXCEPT !.report = @ - 1, !.short = @ - 1]
        /\ UNCHANGED sent
  /\ UNCHANGED <<tiocm, lock, word, call, out, acks, cb, view, dtr>>

-----------------------------------------------------------------------------
(* mhi_dtr_ul_xfer_cb and mhi_dtr_dl_xfer_cb, from the event ring.         *)

UlCb ==
  /\ acks > 0 /\ acks' = acks - 1
  /\ done' = IF done = Many THEN Many ELSE done + 1
  /\ UNCHANGED <<tiocm, lock, word, pc, arg, mutex, out, dev, cb, view, dtr, budget>>

\* mhi_queue_transfer, whose result is not looked at.
Requeue ==
  \/ inbound' = inbound + 1 /\ UNCHANGED budget
  \/ budget.fail > 0 /\ budget' = [budget EXCEPT !.fail = @ - 1] /\ UNCHANGED inbound

\* A buffer of the wrong length is not given back to the ring.
DlShort ==
  /\ cb = None /\ in # <<>> /\ ~Head(in).whole /\ in' = Tail(in)
  /\ UNCHANGED <<tiocm, lock, word, call, out, acks, inbound, sent, cb, view, dtr, budget>>

\* Mutant: nor is one for a channel without a device.
DlStray_Kept ==
  /\ cb = None /\ in # <<>> /\ Head(in).whole /\ Head(in).dest \notin Chans /\ in' = Tail(in)
  /\ UNCHANGED <<tiocm, lock, word, call, out, acks, inbound, sent, cb, view, dtr, budget>>

\* auto_queue.
DlStray ==
  /\ cb = None /\ in # <<>> /\ Head(in).whole /\ Head(in).dest \notin Chans
  /\ in' = Tail(in) /\ Requeue
  /\ UNCHANGED <<tiocm, lock, word, call, out, acks, sent, cb, view, dtr>>

DlRead ==
  /\ cb = None /\ in # <<>> /\ Head(in).whole /\ Head(in).dest \in Chans
  /\ lock[Head(in).dest] = "free"
  /\ lock' = [lock EXCEPT ![Head(in).dest] = "cb"]
  /\ word' = [word EXCEPT !.cb = tiocm[Head(in).dest]]
  /\ cb' = [dest |-> Head(in).dest, msg |-> Head(in).msg] /\ in' = Tail(in)
  /\ UNCHANGED <<tiocm, call, out, acks, inbound, sent, view, dtr, budget>>

DlStore ==
  /\ cb # None
  /\ tiocm' = [tiocm EXCEPT ![cb.dest] = (word.cb \ Modem) \cup cb.msg]
  /\ lock' = [lock EXCEPT ![cb.dest] = "free"] /\ cb' = None /\ Requeue
  /\ UNCHANGED <<word, call, out, acks, in, sent, view, dtr>>

DlCb == DlShort \/ DlStray \/ DlRead \/ DlStore

-----------------------------------------------------------------------------
(* mhi_driver_remove of the control device.                                *)

\* Downlink first: its buffers are freed by the callback; then the callers are woken.
RemoveWake ==
  /\ dtr = "up" /\ Removals > 0 /\ cb = None
  /\ dtr' = "woken" /\ in' = <<>> /\ inbound' = 0 /\ done' = Many
  /\ UNCHANGED <<tiocm, lock, word, pc, arg, mutex, out, acks, sent, cb, view, budget>>

\* The uplink is reset under the mutex; nobody is told of its messages.
RemoveReset ==
  /\ dtr = "woken" /\ mutex = Stray
  /\ dtr' = "reset" /\ out' = <<>> /\ acks' = 0
  /\ UNCHANGED <<tiocm, lock, word, call, dev, cb, view, budget>>

\* mhi_dtr_remove.
Remove ==
  /\ dtr = "reset" /\ dtr' = "gone"
  /\ UNCHANGED <<tiocm, lock, word, call, out, acks, dev, cb, view, budget>>

Next ==
  \/ \E c \in Chans : Tiocmset(c) \/ \E s \in Settings : Ioctl(c, s)
  \/ ModemTake \/ \E d \in Dests, s \in Signals : ModemReport(d, s)
  \/ UlCb \/ DlCb
  \/ Probe \/ RemoveWake \/ RemoveReset \/ Remove

\* Callers and callbacks run, the modem takes what is in the ring, a removal goes on.
Fairness ==
  /\ \A c \in Chans : WF_vars(Tiocmset(c))
  /\ WF_vars(ModemTake) /\ WF_vars(UlCb) /\ WF_vars(DlCb) /\ WF_vars(RemoveReset \/ Remove)

Spec == Init /\ [][Next]_vars
FairSpec == Spec /\ Fairness

-----------------------------------------------------------------------------
(* Properties.                                                             *)

Reporting(c) == cb.dest = c \/ \E i \in DOMAIN in : in[i].dest = c /\ in[i].whole

\* Between calls the word of a channel says of DTR and RTS what the modem was told, whatever
\* failed, unless an answer came late or the control device went: mhi_dtr_tiocmset changes it only
\* after the completion, and another channel's completion is not taken for its own.
Agreement ==
  ~Disturbed => \A c \in Chans : pc[c] = "idle" => tiocm[c] \cap Host = view[c]

\* The word says of CD, DSR and RI what the modem last reported, unless a report is on its way: a
\* call that changes the same word never brings old signals back.
SignalsKnown ==
  Serving => \A c \in Chans : ~Reporting(c) => tiocm[c] \cap Modem = sent[c]

\* Host and modem agree on the signals of a channel.
WordAgrees == Agreement /\ SignalsKnown

\* An inbound buffer stays in use, except for a report of the wrong length and a failed queueing.
InboundKept ==
  dtr = "up" =>
    inbound + Len(in) + (IF cb # None THEN 1 ELSE 0)
      >= Bufs - (Short - budget.short) - (Fails - budget.fail)

\* The state is well formed: everything has its type, and a buffer of the control channel its place.
WellFormed == TypeOK /\ InboundKept

\* A call returns, whatever fails and also when the control device is removed under it, unless a
\* call has read through the cleared dtr_dev: that one never gives the mutex back.
Returns ==
  \A c \in Chans : pc[c] # "idle" ~> (pc[c] = "idle" \/ \E d \in Chans : pc[d] = "fault")
=============================================================================

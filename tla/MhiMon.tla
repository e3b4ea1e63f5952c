------------------------------- MODULE MhiMon -------------------------------
(***************************************************************************)
(* The event monitor in debugfs (core/mhi_init.c, core/mhi_main.c).  Every *)
(* ring element that the host submits or takes is copied to each reader of *)
(* the file mhimon: the source looks at nreaders without a lock and then   *)
(* walks r_list under mbus->lock.  A read formats one event into a buffer  *)
(* of its file, and keeps what the caller has no room for.                 *)
(*                                                                         *)
(* mhimon is a regular file: the kernel lets one read of an open file in   *)
(* at a time (f_pos_lock), and debugfs_remove_recursive turns new calls    *)
(* away and waits for the reads inside.  mon_lock lets in one open or      *)
(* release.  The text of an event is two halves; a read asks for one or    *)
(* for both.                                                               *)
(***************************************************************************)
EXTENDS Integers, Sequences, FiniteSets

CONSTANTS
  Files,      \* the open files
  Impatient,  \* those opened with O_NONBLOCK
  Sources,    \* contexts that submit or take ring elements
  EVENT_MAX,  \* events a reader may be behind
  Events,     \* ring elements
  Opens,      \* opens
  NoMems,     \* failed allocations
  Faults      \* failures of copy_to_user

ASSUME MonAssumption ==
  /\ IsFiniteSet(Files) /\ IsFiniteSet(Sources) /\ Impatient \subseteq Files
  /\ EVENT_MAX \in Nat \ {0} /\ {Events, Opens, NoMems, Faults} \subseteq Nat

VARIABLES
  dir,      \* debugfs directory: "up", "going" while it is removed, "gone"
  nreaders, r_list, ref, \* of the controller: readers counted, linked, and referenced
  cnt_events, cnt_text_lost,
  looked,   \* sources that found nreaders set and are about to take the lock
  file,     \* of each file: "closed", "open", or "drain" in the middle of its release
  rp,       \* struct mon_reader_text of each file
  rd,       \* of each file: the thread that reads it
  copied,   \* what the last read of any of them copied to the user
  budget

bus  == <<nreaders, r_list, ref, cnt_events, cnt_text_lost>>
vars == <<dir, bus, looked, file, rp, rd, copied, budget>>

\* objs: event objects that exist in e_slab.
Fresh == [e_list |-> <<>>, nevents |-> 0, objs |-> 0,
          printf_buf |-> <<>>, left_pos |-> 0, left_size |-> 0]

\* n: room of the caller; ep: the event in hand; awake: TASK_RUNNING.
Idle == [pc |-> "idle", n |-> 0, ep |-> 0, awake |-> TRUE, signal |-> FALSE]

\* mhi_init_debugfs: the file exists and nobody reads it.
Init ==
  /\ dir = "up" /\ nreaders = 0 /\ r_list = {} /\ ref = 1
  /\ cnt_events = 0 /\ cnt_text_lost = 0 /\ looked = {}
  /\ file = [f \in Files |-> "closed"]
  /\ rp = [f \in Files |-> Fresh] /\ rd = [f \in Files |-> Idle]
  /\ copied = <<>>
  /\ budget = [open |-> Opens, nomem |-> NoMems, fault |-> Faults]

Text(e) == <<2 * e - 1, 2 * e>>

Numbers == 1 .. Events

Texts == {<<>>} \cup {Text(e) : e \in Numbers}

Reader == [e_list : Seq(Numbers), nevents : Nat, objs : Nat, printf_buf : Texts,
           left_pos : 0 .. 2, left_size : 0 .. 1]
Thread == [pc : {"idle", "fetch", "empty", "sleep", "print"}, n : 0 .. 2, ep : 0 .. Events,
           awake : BOOLEAN, signal : BOOLEAN]
Budget == [open : Nat, nomem : Nat, fault : Nat]

TypeOK ==
  /\ dir \in {"up", "going", "gone"} /\ looked \subseteq Sources
  /\ nreaders \in Nat /\ r_list \subseteq Files /\ ref \in Nat
  /\ cnt_events \in 0 .. Events /\ cnt_text_lost \in Nat
  /\ file \in [Files -> {"closed", "open", "drain"}]
  /\ rp \in [Files -> Reader] /\ rd \in [Files -> Thread] /\ budget \in Budget
  /\ copied \in Seq(1 .. 2 * Events)

-----------------------------------------------------------------------------
(* Sources.                                                                *)

\* The check of nreaders before each call of mon_bus_submit, receive and complete.
Look(s) ==
  /\ dir = "up" /\ s \notin looked /\ cnt_events + Cardinality(looked) < Events /\ nreaders > 0
  /\ looked' = looked \cup {s}
  /\ UNCHANGED <<dir, bus, file, rp, rd, copied, budget>>

\* mon_text_event for a reader that has room.
Added(r, e) == [r EXCEPT !.e_list = Append(r.e_list, e), !.nevents = r.nevents + 1,
                         !.objs = r.objs + 1]

\* mon_bus_submit, mon_bus_receive and mon_bus_complete: a reader whose list is full, or for which
\* no object can be had, misses the event.
Submit(s) ==
  \E oom \in SUBSET r_list :
    LET missed == oom \cup {f \in r_list : rp[f].nevents >= EVENT_MAX}
        served == r_list \ missed
    IN
    /\ s \in looked /\ looked' = looked \ {s}
    /\ Cardinality(oom) <= budget.nomem
    /\ budget' = [budget EXCEPT !.nomem = @ - Cardinality(oom)]
    /\ cnt_events' = cnt_events + 1 /\ cnt_text_lost' = cnt_text_lost + Cardinality(missed)
    /\ rp' = [f \in Files |-> IF f \in served THEN Added(rp[f], cnt_events') ELSE rp[f]]
    /\ rd' = [f \in Files |-> IF f \in served /\ rd[f].pc # "idle"
                              THEN [rd[f] EXCEPT !.awake = TRUE] ELSE rd[f]]
    /\ UNCHANGED <<dir, nreaders, r_list, ref, file, copied>>

-----------------------------------------------------------------------------
(* mon_text_open and mon_text_release, under mon_lock.                     *)

MonLockFree == \A f \in Files : file[f] # "drain"

Open(f) ==
  /\ dir = "up" /\ file[f] = "closed" /\ MonLockFree /\ budget.open > 0
  /\ file' = [file EXCEPT ![f] = "open"] /\ rp' = [rp EXCEPT ![f] = Fresh]
  /\ r_list' = r_list \cup {f} /\ nreaders' = nreaders + 1 /\ ref' = ref + 1
  /\ budget' = [budget EXCEPT !.open = @ - 1]
  /\ UNCHANGED <<dir, cnt_events, cnt_text_lost, looked, rd, copied>>

\* The reader, its buffer or its slab cannot be had; what was is freed again.
OpenFails(f) ==
  /\ dir = "up" /\ file[f] = "closed" /\ MonLockFree /\ budget.open > 0 /\ budget.nomem > 0
  /\ budget' = [budget EXCEPT !.open = budget.open - 1, !.nomem = budget.nomem - 1]
  /\ UNCHANGED <<dir, bus, looked, file, rp, rd, copied>>

\* mon_reader_del; nothing happens on a controller that counts no readers.
Unregister(f) ==
  /\ file[f] = "open" /\ rd[f].pc = "idle" /\ MonLockFree /\ nreaders > 0
  /\ file' = [file EXCEPT ![f] = "drain"]
  /\ r_list' = r_list \ {f} /\ nreaders' = nreaders - 1 /\ ref' = ref - 1
  /\ UNCHANGED <<dir, cnt_events, cnt_text_lost, looked, rp, rd, copied, budget>>

\* What is listed is freed without the lock of the bus, and then slab, buffer and reader.
Drain(f) ==
  /\ file[f] = "drain"
  /\ file' = [file EXCEPT ![f] = "closed"]
  /\ rp' = [rp EXCEPT ![f] = [Fresh EXCEPT !.objs = rp[f].objs - Len(rp[f].e_list)]]
  /\ UNCHANGED <<dir, bus, looked, rd, copied, budget>>

-----------------------------------------------------------------------------
(* mon_text_read_u.                                                        *)

\* debugfs_file_get: a call enters the driver until the removal begins.
Enters(f) == dir = "up" /\ file[f] = "open" /\ rd[f].pc = "idle"

\* copy_to_user, of the cnt halves that begin at pos.
Copy(f, pos, cnt) ==
  /\ copied' = SubSeq(rp'[f].printf_buf, pos + 1, pos + cnt)
  /\ UNCHANGED budget

CopyFaults ==
  /\ budget.fault > 0 /\ budget' = [budget EXCEPT !.fault = @ - 1]
  /\ copied' = <<>>

\* cnt halves of the left-over are gone.
Consumed(r, cnt) == [r EXCEPT !.left_pos = r.left_pos + cnt, !.left_size = r.left_size - cnt]

\* What the last read left is copied; after a fault it is still there.
ReadLeft(f, n) ==
  LET cnt == IF rp[f].left_size > n THEN n ELSE rp[f].left_size IN
  /\ Enters(f) /\ rp[f].left_size > 0
  /\ \/ /\ rp' = [rp EXCEPT ![f] = Consumed(rp[f], cnt)]
        /\ Copy(f, rp[f].left_pos, cnt)
     \/ CopyFaults /\ UNCHANGED rp
  /\ UNCHANGED <<dir, bus, looked, file, rd>>

\* Thread of file f at its place in mon_text_read_wait.
Step(f, from, thread) ==
  /\ rd[f].pc = from /\ rd' = [rd EXCEPT ![f] = thread]
  /\ UNCHANGED <<dir, bus, looked, file, copied, budget>>

\* The thread joins the wait queue and sets its state before it looks at the list.
ReadWait(f, n) ==
  /\ Enters(f) /\ rp[f].left_size = 0
  /\ Step(f, "idle", [Idle EXCEPT !.pc = "fetch", !.n = n, !.awake = FALSE])
  /\ UNCHANGED rp

\* The first event of the list is taken off it.
Taken(r) == [r EXCEPT !.e_list = Tail(r.e_list), !.nevents = r.nevents - 1]

\* mon_text_fetch.
Fetch(f) ==
  IF rp[f].e_list = <<>>
    THEN Step(f, "fetch", [rd[f] EXCEPT !.pc = "empty"]) /\ UNCHANGED rp
    ELSE /\ Step(f, "fetch",
                 [rd[f] EXCEPT !.pc = "print", !.ep = Head(rp[f].e_list), !.awake = TRUE])
         /\ rp' = [rp EXCEPT ![f] = Taken(rp[f])]

\* Mutant: the thread sets its state only when it has found the list empty.
Nothing_LateState(f) ==
  /\ Step(f, "empty", IF f \in Impatient THEN Idle
                       ELSE [rd[f] EXCEPT !.pc = "sleep", !.awake = FALSE])
  /\ UNCHANGED rp

\* Nothing there: -EWOULDBLOCK, or schedule.
Nothing(f) ==
  /\ Step(f, "empty", IF f \in Impatient THEN Idle ELSE [rd[f] EXCEPT !.pc = "sleep"])
  /\ UNCHANGED rp

\* schedule returns, with -EINTR when a signal is pending.
Wake(f) ==
  /\ rd[f].awake \/ rd[f].signal
  /\ Step(f, "sleep", IF rd[f].signal THEN Idle ELSE [rd[f] EXCEPT !.pc = "fetch", !.awake = FALSE])
  /\ UNCHANGED rp

\* Mutant: left_pos stays where the last event left it.
Formatted_OldPos(r, e, n) ==
  [r EXCEPT !.printf_buf = Text(e), !.left_size = IF n < 2 THEN 2 - n ELSE r.left_size]

\* mon_text_read_u formats an event for a caller with room for n of its halves.
Formatted(r, e, n) ==
  [r EXCEPT !.printf_buf = Text(e), !.left_pos = IF n < 2 THEN n ELSE r.left_pos,
            !.left_size = IF n < 2 THEN 2 - n ELSE r.left_size]

\* The object of the event in hand is freed.
Freed(r) == [r EXCEPT !.objs = r.objs - 1]

Shown(f) == Formatted(rp[f], rd[f].ep, rd[f].n)

\* Mutant: a failed copy returns without freeing the event.
Show_Leaks(f) ==
  /\ rd[f].pc = "print" /\ rd' = [rd EXCEPT ![f] = Idle]
  /\ \/ /\ rp' = [rp EXCEPT ![f] = Freed(Shown(f))]
        /\ Copy(f, 0, rd[f].n)
     \/ rp' = [rp EXCEPT ![f] = Shown(f)] /\ CopyFaults
  /\ UNCHANGED <<dir, bus, looked, file>>

\* As much as the caller has room for is copied, under printf_lock, and the event is freed.
Show(f) ==
  /\ rd[f].pc = "print" /\ rd' = [rd EXCEPT ![f] = Idle]
  /\ rp' = [rp EXCEPT ![f] = Freed(Shown(f))]
  /\ Copy(f, 0, rd[f].n) \/ CopyFaults
  /\ UNCHANGED <<dir, bus, looked, file>>

Signal(f) ==
  /\ rd[f].pc = "sleep" /\ ~rd[f].signal
  /\ rd' = [rd EXCEPT ![f].signal = TRUE]
  /\ UNCHANGED <<dir, bus, looked, file, rp, copied, budget>>

-----------------------------------------------------------------------------
(* mhi_deinit_debugfs, which mhi_power_down calls when the state machine   *)
(* has been shut down: no source is left.                                  *)

RemoveStart == /\ dir = "up" /\ looked = {} /\ dir' = "going"
               /\ UNCHANGED <<bus, looked, file, rp, rd, copied, budget>>

RemoveEnd == /\ dir = "going" /\ \A f \in Files : rd[f].pc = "idle"
             /\ dir' = "gone"
             /\ UNCHANGED <<bus, looked, file, rp, rd, copied, budget>>

-----------------------------------------------------------------------------
Inside(f) == Fetch(f) \/ Nothing(f) \/ Wake(f) \/ Show(f)

Next ==
  \/ \E s \in Sources : Look(s) \/ Submit(s)
  \/ \E f \in Files : \/ Open(f) \/ OpenFails(f) \/ Unregister(f) \/ Drain(f)
                      \/ \E n \in 1 .. 2 : ReadLeft(f, n) \/ ReadWait(f, n)
                      \/ Inside(f) \/ Signal(f)
  \/ RemoveStart \/ RemoveEnd

Spec == Init /\ [][Next]_vars

\* Threads that can run do, and so does the removal; nobody has to open, read, close or signal.
FairSpec ==
  /\ Spec /\ WF_vars(RemoveEnd)
  /\ \A f \in Files : WF_vars(Inside(f))

-----------------------------------------------------------------------------
BusOK ==
  /\ cnt_events + Cardinality(looked) <= Events
  /\ nreaders = Cardinality(r_list) /\ r_list = {f \in Files : file[f] = "open"} /\ ref > nreaders

ReaderOK(f) ==
  LET r == rp[f] t == rd[f] IN
  /\ r.nevents = Len(r.e_list) /\ r.nevents <= EVENT_MAX
  /\ r.objs = Len(r.e_list) + (IF t.ep = 0 THEN 0 ELSE 1)
  /\ r.left_pos + r.left_size <= Len(r.printf_buf) /\ (t.pc # "idle" => r.left_size = 0)
  /\ file[f] = "closed" => r.objs = 0
  /\ (t.pc = "idle" => t = Idle) /\ (t.n = 0 => t.pc = "idle") /\ (t.pc = "print" <=> t.ep # 0)
  /\ file[f] # "open" => t.pc = "idle"

\* The count that sources look at is that of the linked readers, all of them open, and the
\* controller has a reference besides theirs; nevents counts the list and stays within EVENT_MAX;
\* each event object is listed or in the hand of the reading thread, and none outlives its slab;
\* what is left over lies in the buffer (mhi_init.c:349, 392, 411, 601).
WellFormed == TypeOK /\ BusOK /\ \A f \in Files : ReaderOK(f)

\* What the reader of file f has still to be given.
Unread(f) ==
  IF f \notin r_list THEN <<>> ELSE
    SubSeq(rp[f].printf_buf, rp[f].left_pos + 1, rp[f].left_pos + rp[f].left_size)
      \o (IF rd[f].ep = 0 THEN <<>> ELSE Text(rd[f].ep))
      \o [i \in 1 .. 2 * Len(rp[f].e_list) |->
            Text(rp[f].e_list[(i + 1) \div 2])[IF i % 2 = 1 THEN 1 ELSE 2]]

Log == INSTANCE MonLog WITH listening <- r_list, unread <- [f \in Files |-> Unread(f)],
                            got <- copied, events <- cnt_events, lost <- cnt_text_lost

\* A reader gets each event from its open to its release once, whole and in order, whatever
\* the sources, other readers and releases do in between, except for events in cnt_text_lost and
\* what a failed copy_to_user was to carry (mhi_init.c:349, 489, 538; mhi_main.c:381).
LogSpec == Log!Spec

\* A read that has an event or a signal waiting ends, also when the event comes between its look
\* at the list and its sleep; and the removal ends unless a reader sleeps without an event,
\* which no timeout ends (mhi_init.c:515, 526, 699).
NobodyStuck ==
  /\ \A f \in Files :
       rd[f].pc # "idle" /\ (rp[f].e_list # <<>> \/ rd[f].signal) ~> rd[f].pc = "idle"
  /\ dir = "going" ~> (dir = "gone" \/ \E f \in Files : rd[f].pc = "sleep" /\ rp[f].e_list = <<>>)

=============================================================================

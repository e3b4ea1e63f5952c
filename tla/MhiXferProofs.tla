---------------------------- MODULE MhiXferProofs ----------------------------
(***************************************************************************)
(* What holds of MhiRing and MhiXfer for every size of the ring, every kind*)
(* of channel and every number of disturbances: first what the channel     *)
(* keeps to itself, then what its client may count on.                     *)
(***************************************************************************)
EXTENDS MhiXfer, SequenceTheorems, TLAPS

-----------------------------------------------------------------------------
(* The ring.                                                               *)

\* A pointer that moves on stays in the ring (mhi_add_ring_element, mhi_del_ring_element).
THEOREM NextSlotType == ASSUME NEW i \in Slots PROVE NextSlot(i) \in Slots
  BY RingAssumption DEF Slots, NextSlot

\* The three ways the code counts a ring agree: get_nr_avail_ring_elements and
\* get_used_ring_elements add up to all elements but one, and mhi_is_ring_full is the case of none
\* available.
THEOREM Accounting ==
  ASSUME NEW rp \in Slots, NEW wp \in Slots
  PROVE  /\ Avail(rp, wp) \in 0 .. N - 1 /\ Used(rp, wp) \in 0 .. N - 1
         /\ Avail(rp, wp) + Used(rp, wp) = N - 1
         /\ Full(rp, wp) <=> Avail(rp, wp) = 0
         /\ rp = wp <=> Used(rp, wp) = 0
  BY RingAssumption DEF Slots, NextSlot, Full, Avail, Used

\* Filling a ring that is not full adds one element, releasing one that is not empty takes one.
THEOREM OneMoreOneLess ==
  ASSUME NEW rp \in Slots, NEW wp \in Slots
  PROVE  /\ ~Full(rp, wp) => Used(rp, NextSlot(wp)) = Used(rp, wp) + 1
         /\ rp # wp => Used(NextSlot(rp), wp) = Used(rp, wp) - 1
  BY RingAssumption DEF Slots, NextSlot, Full, Used

-----------------------------------------------------------------------------
(* Nothing is written into a ring that has been freed.                     *)
(*                                                                         *)
(* The channel's lock keeps completions inside the time the channel is     *)
(* enabled, and a client that waits for its calls keeps these inside the   *)
(* time before the rings are freed.  LifeInv says who may be where while   *)
(* the channel is in which state; it is inductive.                         *)

ChStates == {"DISABLED", "ENABLED", "SUSPENDED"}
Procs == {"client", "task", "life"}
Places == {"closed", "idle", "lock", "fill", "adv_tre", "adv_buf", "db", "loop", "del", "cb",
           "reset", "drain", "wait", "deinit"}

LifeInv ==
  /\ pc \in [Procs -> Places]
  /\ ch_state \in ChStates
  /\ ch_state # "DISABLED" => base
  /\ ch_state = "ENABLED" => At("life", "idle")
  /\ ch_state = "SUSPENDED" => pc["life"] \in {"drain", "wait", "deinit"}
  /\ At("life", "wait") => ch_state = "SUSPENDED"
  /\ At("life", "deinit") => At("client", "closed")
  /\ Completing => ch_state = "ENABLED"
  /\ ~At("client", "closed") => ch_state # "DISABLED"

\* A channel that nobody has opened has no rings.
LEMMA LifeInit == Init => LifeInv
<1> SUFFICES ASSUME Init PROVE LifeInv
  OBVIOUS
<1>1. pc = [p \in Procs |-> IF p = "client" THEN "closed" ELSE "idle"]
  BY DEF Init, Procs
<1>2. QED
  BY <1>1 DEF Init, LifeInv, Procs, Places, ChStates, At, Completing

\* The calls of the client.
LEMMA ClientLife ==
  ASSUME LifeInv, Client
  PROVE  LifeInv' /\ (buf' # buf => base')
<1> USE DEF Client, CallGoesOn, Call, LockPm, GenTre, AdvanceTre, AdvanceBuf, Doorbell
<1>1. pc["client"] # "closed"
  BY DEF At
<1>2. base
  BY <1>1 DEF LifeInv, At, ChStates
<1>3. base' = base /\ ch_state' = ch_state
  BY DEF Fill, rings
<1>4. \E l \in {"idle", "lock", "fill", "adv_tre", "adv_buf", "db"} :
        pc' = [pc EXCEPT !["client"] = l]
  BY DEF Fill, Returns, Goto
<1>5. LifeInv'
  BY <1>1, <1>3, <1>4 DEF LifeInv, Completing, At, ChStates, Procs, Places
<1>6. QED
  BY <1>2, <1>3, <1>5

\* The event task never starts or frees a ring, and writes into the buffer ring of none.
LEMMA TaskLife ==
  ASSUME LifeInv, Task
  PROVE  LifeInv' /\ (buf' # buf => base')
<1>1. base' = base /\ ch_state' = ch_state /\ buf' = buf
  BY DEF Task, TaskEvent, TaskInside, TaskDrop, TaskEot, TaskLoop, TaskDel, TaskCallback, TaskOob, rings
<1>2. \/ pc' = pc
      \/ /\ \E l \in {"idle", "loop", "del", "cb"} : pc' = [pc EXCEPT !["task"] = l]
         /\ ch_state = "ENABLED"
  BY DEF Task, TaskEvent, TaskInside, TaskDrop, TaskEot, TaskLoop, TaskDel, TaskCallback, TaskOob, Goto,
         At, LifeInv, Completing
<1>3. LifeInv'
  BY <1>1, <1>2 DEF LifeInv, Completing, At, ChStates, Procs, Places
<1>4. QED
  BY <1>1, <1>3

\* Neither the modem nor the link touches what the host allocates.
LEMMA OutsideLife ==
  ASSUME LifeInv, Modem \/ ModemLeave \/ Link
  PROVE  LifeInv' /\ (buf' # buf => base')
<1>1. UNCHANGED <<base, ch_state, buf, pc>>
  BY DEF Modem, ModemKick, ModemPoll, ModemMove, ModemLeave, Link, GoLow, WakeM0, RingM0, Crash,
         Recover, rings
<1>2. QED
  BY <1>1 DEF LifeInv, Completing, At

\* The channel itself.
LEMMA ChannelLife ==
  ASSUME LifeInv, Prepare \/ Unprepare \/ Teardown
  PROVE  LifeInv' /\ (buf' # buf => base')
<1> USE DEF LifeInv, Completing, ChanReaders, At, Goto, ChStates, Procs, Places, rings
<1>1. CASE Prepare
  BY <1>1 DEF Prepare, task
<1>2. CASE Unprepare
  BY <1>2 DEF Unprepare
<1>3. CASE ResetDone
  BY <1>3 DEF ResetDone, MarkStale
<1>4. CASE Remove
  BY <1>4 DEF Remove, MarkStale
<1>5. CASE Drain
  BY <1>5 DEF Drain
<1>6. CASE Drained
  BY <1>6 DEF Drained
<1>7. CASE Leave
  BY <1>7 DEF Leave
<1>8. CASE Deinit
  BY <1>8 DEF Deinit
<1>9. QED
  BY <1>1, <1>2, <1>3, <1>4, <1>5, <1>6, <1>7, <1>8 DEF Teardown

\* mhi_gen_tre and mhi_queue_skb write into rings that are allocated, for a client whose remove
\* waits for its calls, whatever fails and however often the channel is taken down.
THEOREM WritesAreSafe == Spec => NoWriteAfterFree
<1>1. Init => LifeInv
  BY LifeInit
<1>2. LifeInv /\ [Next]_vars => LifeInv' /\ [buf' # buf => base']_vars
  <2> SUFFICES ASSUME LifeInv, [Next]_vars PROVE LifeInv' /\ [buf' # buf => base']_vars
    OBVIOUS
  <2>1. CASE UNCHANGED vars
    BY <2>1 DEF vars, rings, LifeInv, Completing, At
  <2>2. CASE Next
    BY <2>2, ClientLife, TaskLife, OutsideLife, ChannelLife DEF Next
  <2>3. QED
    BY <2>1, <2>2
<1>3. QED
  BY <1>1, <1>2, PTL DEF Spec, NoWriteAfterFree
-----------------------------------------------------------------------------
(* In burst mode somebody has the next word, and only one.                 *)
(*                                                                         *)
(* While a channel is enabled the word goes round: host, register, modem,  *)
(* OOB event, host.  What makes that inductive is what becomes of it in    *)
(* between: nothing is left of a round when the next one starts, because   *)
(* the modem is off and the event ring empty whenever the channel is       *)
(* neither enabled nor being reset.                                        *)

Notes == [type : {"EOT", "OOB"}, ptr : Slots]
NoOob(s) == \A i \in 1 .. Len(s) : s[i].type # "OOB"
OneOob(s) == \E i \in 1 .. Len(s) :
               s[i].type = "OOB" /\ \A j \in 1 .. Len(s) : s[j].type = "OOB" => j = i

Word ==
  \/ db_mode /\ ~kick /\ ~m_burst /\ NoOob(events)
  \/ ~db_mode /\ kick /\ ~m_burst /\ NoOob(events)
  \/ ~db_mode /\ ~kick /\ m_burst /\ NoOob(events)
  \/ ~db_mode /\ ~kick /\ ~m_burst /\ OneOob(events)

Pointers ==
  /\ tre_wp \in Slots /\ ctxt_wp \in Slots /\ db \in Slots /\ m_rp \in Slots /\ m_wp \in Slots
  /\ db_mode \in BOOLEAN /\ kick \in BOOLEAN /\ m_on \in BOOLEAN /\ m_burst \in BOOLEAN
  /\ events \in Seq(Notes)

Quiet == ~m_on /\ events = <<>>

TokenInv ==
  /\ Pointers
  /\ Burst \in BOOLEAN
  /\ pm_state = "ERR" => ~m_on
  /\ ch_state # "ENABLED" /\ ~At("life", "reset") => Quiet
  /\ Burst /\ ch_state = "ENABLED" /\ m_on => Word

\* A note that is appended is the last one of the event ring.
LEMMA NoteAppended ==
  ASSUME NEW s \in Seq(Notes), NEW e \in Notes
  PROVE  /\ Append(s, e) \in Seq(Notes)
         /\ e.type = "EOT" /\ NoOob(s) => NoOob(Append(s, e))
         /\ e.type = "EOT" /\ OneOob(s) => OneOob(Append(s, e))
         /\ e.type = "OOB" /\ NoOob(s) => OneOob(Append(s, e))
<1> DEFINE t == Append(s, e)
<1>1. /\ t \in Seq(Notes) /\ Len(t) = Len(s) + 1 /\ Len(s) \in Nat
      /\ \A i \in 1 .. Len(s) : t[i] = s[i]
      /\ t[Len(s) + 1] = e
  BY AppendProperties
<1> HIDE DEF t
<1>2. \A i \in 1 .. Len(t) : i \in 1 .. Len(s) \/ i = Len(s) + 1
  BY <1>1
<1>3. 1 .. Len(s) \subseteq 1 .. Len(t) /\ Len(s) + 1 \in 1 .. Len(t) /\ Len(s) + 1 \notin 1 .. Len(s)
  BY <1>1
<1>4. e.type = "EOT" /\ NoOob(s) => NoOob(t)
  BY <1>1, <1>2 DEF NoOob
<1>5. ASSUME e.type = "EOT", OneOob(s) PROVE OneOob(t)
  <2>1. PICK i \in 1 .. Len(s) :
          s[i].type = "OOB" /\ \A j \in 1 .. Len(s) : s[j].type = "OOB" => j = i
    BY <1>5 DEF OneOob
  <2>2. i \in 1 .. Len(t) /\ t[i].type = "OOB"
    BY <1>1, <1>3, <2>1
  <2>3. \A j \in 1 .. Len(t) : t[j].type = "OOB" => j = i
    BY <1>1, <1>2, <1>5, <2>1
  <2>4. QED
    BY <2>2, <2>3 DEF OneOob
<1>6. ASSUME e.type = "OOB", NoOob(s) PROVE OneOob(t)
  <2>1. t[Len(s) + 1].type = "OOB"
    BY <1>1, <1>6
  <2>2. \A j \in 1 .. Len(t) : t[j].type = "OOB" => j = Len(s) + 1
    BY <1>1, <1>2, <1>6 DEF NoOob
  <2>3. QED
    BY <1>3, <2>1, <2>2 DEF OneOob
<1>7. QED
  BY <1>1, <1>4, <1>5, <1>6 DEF t

\* The note at the head of the event ring is handled and gone.
LEMMA NoteHandled ==
  ASSUME NEW s \in Seq(Notes), s # <<>>
  PROVE  /\ Head(s) \in Notes /\ Tail(s) \in Seq(Notes)
         /\ NoOob(s) => Head(s).type = "EOT" /\ NoOob(Tail(s))
         /\ OneOob(s) /\ Head(s).type = "EOT" => OneOob(Tail(s))
         /\ OneOob(s) /\ Head(s).type = "OOB" => NoOob(Tail(s))
<1> DEFINE t == Tail(s)
<1>1. /\ Head(s) \in Notes /\ t \in Seq(Notes)
      /\ Len(s) \in Nat /\ Len(s) >= 1 /\ Len(t) = Len(s) - 1
      /\ \A i \in 1 .. Len(t) : t[i] = s[i + 1]
      /\ Head(s) = s[1]
  BY HeadTailProperties, EmptySeq
<1> HIDE DEF t
<1>2. /\ 1 \in 1 .. Len(s)
      /\ \A i \in 1 .. Len(t) : i + 1 \in 1 .. Len(s) /\ i + 1 # 1
      /\ \A i \in 1 .. Len(s) : i = 1 \/ (i - 1 \in 1 .. Len(t) /\ (i - 1) + 1 = i)
  BY <1>1
<1>3. Head(s).type \in {"EOT", "OOB"}
  BY <1>1 DEF Notes
<1>4. NoOob(s) => Head(s).type = "EOT" /\ NoOob(t)
  BY <1>1, <1>2, <1>3 DEF NoOob
<1>5. ASSUME OneOob(s) PROVE /\ Head(s).type = "EOT" => OneOob(t)
                             /\ Head(s).type = "OOB" => NoOob(t)
  <2>1. PICK i \in 1 .. Len(s) :
          s[i].type = "OOB" /\ \A j \in 1 .. Len(s) : s[j].type = "OOB" => j = i
    BY <1>5 DEF OneOob
  <2>2. ASSUME Head(s).type = "EOT" PROVE OneOob(t)
    <3>1. i # 1
      BY <1>1, <2>1, <2>2
    <3>2. i - 1 \in 1 .. Len(t) /\ t[i - 1].type = "OOB"
      BY <1>1, <1>2, <2>1, <3>1
    <3>3. \A j \in 1 .. Len(t) : t[j].type = "OOB" => j + 1 = i
      BY <1>1, <1>2, <2>1
    <3>4. \A j \in 1 .. Len(t) : t[j].type = "OOB" => j = i - 1
      BY <3>3
    <3>5. QED
      BY <3>2, <3>4 DEF OneOob
  <2>3. ASSUME Head(s).type = "OOB" PROVE NoOob(t)
    <3>1. i = 1
      BY <1>1, <1>2, <2>1, <2>3
    <3>2. QED
      BY <1>1, <1>2, <2>1, <3>1 DEF NoOob
  <2>4. QED
    BY <2>2, <2>3
<1>6. QED
  BY <1>1, <1>4, <1>5 DEF t

\* Ringing passes the word to the register; not ringing keeps it where it is.
LEMMA Rung ==
  ASSUME TokenInv, RingChanDb(tre_wp), UNCHANGED <<tre_wp, modem, events>>
  PROVE  Pointers' /\ (Word => (Burst => Word'))
<1>1. Pointers'
  BY DEF TokenInv, Pointers, RingChanDb, modem
<1>2. ASSUME Word, Burst PROVE Word'
  <2>1. UNCHANGED <<m_burst, events>>
    BY DEF modem
  <2>2. CASE db_mode
    <3>1. db_mode' = FALSE /\ kick' = TRUE
      BY <1>2, <2>2 DEF RingChanDb
    <3>2. ~m_burst /\ NoOob(events)
      BY <1>2, <2>2 DEF Word
    <3>3. QED
      BY <2>1, <3>1, <3>2 DEF Word
  <2>3. CASE ~db_mode
    <3>1. UNCHANGED <<db_mode, kick>>
      BY <1>2, <2>3 DEF RingChanDb
    <3>2. QED
      BY <1>2, <2>1, <3>1 DEF Word
  <2>4. QED
    BY <2>2, <2>3
<1>3. QED
  BY <1>1, <1>2

\* A step that neither moves the word nor starts a round.
LEMMA WordStays ==
  ASSUME TokenInv,
         UNCHANGED <<tre_wp, bell, modem, events>>,
         ch_state' # "ENABLED" => ch_state # "ENABLED" \/ At("life", "reset")',
         ch_state' = "ENABLED" => ch_state = "ENABLED",
         At("life", "reset") => At("life", "reset")',
         pm_state' = "ERR" => pm_state = "ERR"
  PROVE  TokenInv'
<1>1. Pointers' /\ Quiet' = Quiet /\ Word' = Word /\ m_on' = m_on
  BY DEF TokenInv, Pointers, Quiet, Word, bell, modem
<1>2. QED
  BY <1>1 DEF TokenInv

\* A doorbell of the host: what the other actions leave alone is enough.
LEMMA RungToken ==
  ASSUME TokenInv, RingChanDb(tre_wp), UNCHANGED <<tre_wp, modem, events, ch_state, pm_state>>,
         At("life", "reset")' = At("life", "reset")
  PROVE  TokenInv'
<1>1. Pointers' /\ (Word => (Burst => Word'))
  BY Rung
<1>2. Quiet' = Quiet /\ m_on' = m_on
  BY DEF Quiet, modem
<1>3. QED
  BY <1>1, <1>2 DEF TokenInv

\* The calls of the client ring the bell or leave it alone.
LEMMA ClientToken ==
  ASSUME LifeInv, TokenInv, Client
  PROVE  TokenInv'
<1>1. UNCHANGED <<modem, events, ch_state, pm_state>>
  BY DEF Client, CallGoesOn, Call, LockPm, GenTre, AdvanceTre, AdvanceBuf, Doorbell, link
<1>2. At("life", "reset")' = At("life", "reset")
  BY DEF Client, CallGoesOn, Call, LockPm, GenTre, AdvanceTre, AdvanceBuf, Doorbell, Fill, Returns, Goto,
         At, LifeInv, Procs
<1>3. CASE Call \/ LockPm \/ GenTre
  <2>1. UNCHANGED <<tre_wp, bell>>
    BY <1>3 DEF Call, LockPm, GenTre, Fill, rings
  <2>2. QED
    BY <1>1, <1>2, <2>1, WordStays
<1>4. CASE AdvanceTre
  <2>1. tre_wp' = NextSlot(tre_wp) /\ UNCHANGED bell
    BY <1>4 DEF AdvanceTre
  <2>2. Pointers'
    BY <1>1, <2>1, NextSlotType DEF TokenInv, Pointers, bell, modem
  <2>3. Quiet' = Quiet /\ m_on' = m_on /\ Word' = Word
    BY <1>1, <2>1 DEF Quiet, Word, bell, modem
  <2>4. QED
    BY <1>1, <1>2, <2>2, <2>3 DEF TokenInv
<1>5. CASE AdvanceBuf \/ Doorbell
  <2>1. UNCHANGED tre_wp /\ (RingChanDb(tre_wp) \/ UNCHANGED bell)
    BY <1>5 DEF AdvanceBuf, Doorbell, rings
  <2>2. QED
    BY <1>1, <1>2, <2>1, RungToken, WordStays
<1>6. QED
  BY <1>3, <1>4, <1>5 DEF Client, CallGoesOn

\* The event task hands the word back with the OOB event, to the host or on to the register.
LEMMA TaskToken ==
  ASSUME LifeInv, TokenInv, Task
  PROVE  TokenInv'
<1>1. UNCHANGED <<tre_wp, modem, ch_state, pm_state>>
  BY DEF Task, TaskEvent, TaskInside, TaskDrop, TaskEot, TaskLoop, TaskDel, TaskCallback, TaskOob, link,
         rings
<1>2. At("life", "reset")' = At("life", "reset")
  BY DEF Task, TaskEvent, TaskInside, TaskDrop, TaskEot, TaskLoop, TaskDel, TaskCallback, TaskOob, Goto,
         At, LifeInv, Procs
<1>3. CASE TaskInside
  <2>1. UNCHANGED <<bell, events>>
    BY <1>3 DEF TaskInside, TaskLoop, TaskDel, TaskCallback
  <2>2. QED
    BY <1>1, <1>2, <2>1, WordStays
<1>4. CASE TaskEvent
  <2>1. events \in Seq(Notes) /\ events # <<>> /\ events' = Tail(events)
    BY <1>4 DEF TaskEvent, TaskDrop, TaskEot, TaskOob, TokenInv, Pointers
  <2>2. /\ events' \in Seq(Notes)
        /\ NoOob(events) => Event.type = "EOT" /\ NoOob(events')
        /\ OneOob(events) /\ Event.type = "EOT" => OneOob(events')
        /\ OneOob(events) /\ Event.type = "OOB" => NoOob(events')
    BY <2>1, NoteHandled DEF Event
  <2>3. ~Quiet /\ m_on' = m_on
    BY <1>1, <2>1 DEF Quiet, modem
  <2>4. ch_state = "ENABLED" \/ At("life", "reset")
    BY <2>3 DEF TokenInv
  <2>5. CASE TaskDrop
    <3>1. ch_state # "ENABLED" /\ UNCHANGED bell
      BY <2>5 DEF TaskDrop
    <3>2. Pointers'
      BY <1>1, <2>2, <3>1 DEF TokenInv, Pointers, bell, modem
    <3>3. QED
      BY <1>1, <1>2, <2>3, <2>4, <3>1, <3>2 DEF TokenInv
  <2>6. CASE TaskEot
    <3>1. Event.type = "EOT" /\ ch_state = "ENABLED" /\ UNCHANGED bell
      BY <2>6 DEF TaskEot
    <3>2. Pointers'
      BY <1>1, <2>2, <3>1 DEF TokenInv, Pointers, bell, modem
    <3>3. Word => Word'
      BY <1>1, <2>2, <3>1 DEF Word, bell, modem
    <3>4. QED
      BY <1>1, <2>3, <3>1, <3>2, <3>3 DEF TokenInv
  <2>7. CASE TaskOob
    <3>1. Event.type = "OOB" /\ ch_state = "ENABLED"
      BY <2>7 DEF TaskOob
    <3>2. \/ ctxt_wp' = tre_wp /\ db' = tre_wp /\ kick' = TRUE /\ db_mode' = ~Burst
          \/ db_mode' = TRUE /\ UNCHANGED <<ctxt_wp, db, kick>>
      BY <2>7 DEF TaskOob
    <3>3. Pointers'
      BY <1>1, <2>2, <3>2 DEF TokenInv, Pointers, modem
    <3>4. ASSUME Burst, Word PROVE Word'
      <4>1. ~kick /\ ~m_burst /\ NoOob(events')
        BY <2>2, <3>1, <3>4 DEF Word
      <4>2. ~m_burst' /\ NoOob(events)'
        BY <1>1, <4>1 DEF modem, NoOob
      <4>3. (db_mode' = FALSE /\ kick' = TRUE) \/ (db_mode' = TRUE /\ kick' = kick)
        BY <3>2, <3>4
      <4>4. QED
        BY <4>1, <4>2, <4>3 DEF Word
    <3>5. QED
      BY <1>1, <2>3, <3>1, <3>3, <3>4 DEF TokenInv
  <2>8. QED
    BY <1>4, <2>5, <2>6, <2>7 DEF TaskEvent
<1>5. QED
  BY <1>3, <1>4 DEF Task

\* The modem takes the word out of the register, keeps it, and gives it away with an OOB event.
LEMMA ModemToken ==
  ASSUME TokenInv, Modem \/ ModemLeave
  PROVE  TokenInv'
<1>1. m_on /\ UNCHANGED <<tre_wp, ctxt_wp, db, db_mode, m_on, ch_state, pm_state, pc>>
  BY DEF Modem, ModemKick, ModemPoll, ModemMove, ModemLeave, rings, bell, link
<1>2. ch_state = "ENABLED" \/ At("life", "reset")
  BY <1>1 DEF TokenInv, Quiet
<1>3. SUFFICES Pointers' /\ (Burst /\ Word => Word')
  BY <1>1, <1>2 DEF TokenInv, At
<1>4. CASE ModemKick
  <2>1. kick /\ kick' = FALSE /\ m_wp' = db /\ m_burst' = Burst /\ UNCHANGED <<m_rp, events>>
    BY <1>4 DEF ModemKick
  <2>2. Pointers'
    BY <1>1, <2>1 DEF TokenInv, Pointers
  <2>3. Burst /\ Word => Word'
    BY <1>1, <2>1 DEF TokenInv, Word
  <2>4. QED
    BY <2>2, <2>3
<1>5. CASE ModemPoll
  <2>1. m_wp' = ctxt_wp /\ UNCHANGED <<kick, m_burst, m_rp, events>>
    BY <1>5 DEF ModemPoll, bell
  <2>2. Pointers'
    BY <1>1, <2>1 DEF TokenInv, Pointers
  <2>3. Word' = Word
    BY <1>1, <2>1 DEF Word
  <2>4. QED
    BY <2>2, <2>3
<1>6. CASE ModemMove
  <2>1. UNCHANGED <<kick, m_burst, m_wp>>
    BY <1>6 DEF ModemMove, bell
  <2>2. PICK k \in 1 .. Used(m_rp, m_wp) :
          /\ m_rp' = Ahead(m_rp, k)
          /\ events' = Append(events, [type |-> "EOT", ptr |-> Ahead(m_rp, k - 1)])
    BY <1>6 DEF ModemMove
  <2>3. m_rp \in Slots /\ m_wp \in Slots /\ Used(m_rp, m_wp) \in 0 .. N - 1
    BY Accounting DEF TokenInv, Pointers
  <2>4. Ahead(m_rp, k) \in Slots /\ Ahead(m_rp, k - 1) \in Slots
    BY <2>3, RingAssumption DEF Slots, Ahead
  <2>5. [type |-> "EOT", ptr |-> Ahead(m_rp, k - 1)] \in Notes
    BY <2>4 DEF Notes
  <2>6. /\ events' \in Seq(Notes)
        /\ NoOob(events) => NoOob(events')
        /\ OneOob(events) => OneOob(events')
    BY <2>2, <2>5, NoteAppended DEF TokenInv, Pointers
  <2>7. Pointers'
    BY <1>1, <2>1, <2>2, <2>4, <2>6 DEF TokenInv, Pointers
  <2>8. Word => Word'
    BY <1>1, <2>1, <2>6 DEF Word
  <2>9. QED
    BY <2>7, <2>8
<1>7. CASE ModemLeave
  <2>1. /\ m_burst /\ m_burst' = FALSE /\ UNCHANGED <<kick, m_rp, m_wp>>
        /\ events' = Append(events, [type |-> "OOB", ptr |-> m_rp])
    BY <1>7 DEF ModemLeave, bell
  <2>2. [type |-> "OOB", ptr |-> m_rp] \in Notes
    BY DEF TokenInv, Pointers, Notes
  <2>3. events' \in Seq(Notes) /\ (NoOob(events) => OneOob(events'))
    BY <2>1, <2>2, NoteAppended DEF TokenInv, Pointers
  <2>4. Pointers'
    BY <1>1, <2>1, <2>3 DEF TokenInv, Pointers
  <2>5. Word => Word'
    BY <1>1, <2>1, <2>3 DEF Word
  <2>6. QED
    BY <2>4, <2>5
<1>8. QED
  BY <1>4, <1>5, <1>6, <1>7 DEF Modem

\* Waking up rings; an error ends the modem's part, and a recovery finds nothing of it.
LEMMA LinkToken ==
  ASSUME TokenInv, Link
  PROVE  TokenInv'
<1>1. UNCHANGED <<tre_wp, ch_state, pc>>
  BY DEF Link, GoLow, WakeM0, RingM0, Crash, Recover, rings
<1>2. At("life", "reset")' = At("life", "reset")
  BY <1>1 DEF At
<1>3. CASE GoLow \/ WakeM0
  <2>1. UNCHANGED <<bell, modem, events>> /\ pm_state' # "ERR"
    BY <1>3 DEF GoLow, WakeM0
  <2>2. QED
    BY <1>1, <1>2, <2>1, WordStays
<1>4. CASE RingM0
  <2>1. UNCHANGED <<modem, events, pm_state>> /\ (RingChanDb(tre_wp) \/ UNCHANGED bell)
    BY <1>4 DEF RingM0
  <2>2. QED
    BY <1>1, <1>2, <2>1, RungToken, WordStays
<1>5. CASE Crash
  <2>1. m_on' = FALSE /\ UNCHANGED <<bell, m_burst, m_rp, m_wp, events>>
    BY <1>5 DEF Crash
  <2>2. Pointers' /\ (Quiet => Quiet')
    BY <1>1, <2>1 DEF TokenInv, Pointers, Quiet, bell
  <2>3. QED
    BY <1>1, <1>2, <2>1, <2>2 DEF TokenInv
<1>6. CASE Recover
  <2>1. /\ ch_state = "DISABLED" /\ At("life", "idle")
        /\ pm_state' = "M0" /\ events' = <<>> /\ UNCHANGED <<bell, modem>>
    BY <1>6 DEF Recover
  <2>2. Quiet
    BY <2>1 DEF TokenInv, At
  <2>3. Pointers' /\ Quiet' /\ ~m_on'
    BY <1>1, <2>1, <2>2 DEF TokenInv, Pointers, Quiet, bell, modem
  <2>4. QED
    BY <1>1, <2>1, <2>3 DEF TokenInv
<1>7. QED
  BY <1>3, <1>4, <1>5, <1>6 DEF Link

\* A round starts with the host having the word, and ends with the modem off and the ring empty.
LEMMA ChannelToken ==
  ASSUME LifeInv, TokenInv, Prepare \/ Unprepare \/ Teardown
  PROVE  TokenInv'
<1> USE DEF LifeInv, At, Goto, Procs
<1>1. CASE Prepare
  <2>1. /\ pm_state = "M0" /\ ch_state = "DISABLED" /\ At("life", "idle")
        /\ tre_wp' = 0 /\ ctxt_wp' = 0 /\ db' = db /\ kick' = FALSE /\ db_mode' = TRUE
        /\ m_on' = TRUE /\ m_burst' = FALSE /\ m_rp' = 0 /\ m_wp' = 0
        /\ ch_state' = "ENABLED" /\ events' = events /\ pm_state' = pm_state
    BY <1>1 DEF Prepare, link
  <2>2. events = <<>>
    BY <2>1 DEF TokenInv, Quiet
  <2>3. Pointers'
    <3>1. 0 \in Slots
      BY RingAssumption DEF Slots
    <3>2. QED
      BY <2>1, <3>1 DEF TokenInv, Pointers
  <2>4. Word'
    BY <2>1, <2>2 DEF Word, NoOob
  <2>5. QED
    BY <2>1, <2>3, <2>4 DEF TokenInv
<1>2. CASE Unprepare
  <2>1. UNCHANGED <<tre_wp, bell, modem, events, pm_state>>
    BY <1>2 DEF Unprepare, rings, link
  <2>2. ch_state' = "DISABLED" /\ At("life", "reset")'
    BY <1>2 DEF Unprepare
  <2>3. QED
    BY <2>1, <2>2, WordStays
<1>3. CASE ResetDone
  <2>1. /\ events' = <<>> /\ m_on' = FALSE /\ UNCHANGED <<tre_wp, bell, m_burst, m_rp, m_wp>>
    BY <1>3 DEF ResetDone, MarkStale, rings
  <2>2. Pointers' /\ Quiet'
    BY <2>1, EmptySeq DEF TokenInv, Pointers, Quiet, bell
  <2>3. QED
    BY <2>1, <2>2 DEF TokenInv
<1>4. CASE Remove
  <2>1. /\ events' = <<>> /\ ch_state' = "SUSPENDED" /\ pm_state = "ERR"
        /\ UNCHANGED <<tre_wp, bell, modem, pm_state>>
    BY <1>4 DEF Remove, MarkStale, rings, link
  <2>2. ~m_on /\ m_on' = m_on
    BY <2>1 DEF TokenInv, modem
  <2>3. Pointers' /\ Quiet'
    BY <2>1, <2>2, EmptySeq DEF TokenInv, Pointers, Quiet, bell, modem
  <2>4. QED
    BY <2>1, <2>2, <2>3 DEF TokenInv
<1>5. CASE Drain \/ Drained \/ Leave \/ Deinit
  <2>1. UNCHANGED <<tre_wp, bell, modem, events, pm_state>>
    BY <1>5 DEF Drain, Drained, Leave, Deinit, rings, link
  <2>2. pc["life"] \in {"drain", "wait", "deinit"}
    BY <1>5 DEF Drain, Drained, Leave, Deinit
  <2>3. ch_state # "ENABLED"
    BY <2>2
  <2>4. ch_state' # "ENABLED"
    BY <1>5, <2>3 DEF Drain, Drained, Leave, Deinit
  <2>5. QED
    BY <2>1, <2>2, <2>3, <2>4, WordStays
<1>6. QED
  BY <1>1, <1>2, <1>3, <1>4, <1>5 DEF Teardown

\* A channel starts quiet.
LEMMA TokenInit == Init => TokenInv
<1> SUFFICES ASSUME Init PROVE TokenInv
  OBVIOUS
<1>1. 0 \in Slots
  BY RingAssumption DEF Slots
<1>2. Pointers
  BY <1>1, EmptySeq DEF Init, Pointers
<1>3. Burst \in BOOLEAN
  BY XferAssumption
<1>4. QED
  BY <1>2, <1>3 DEF Init, TokenInv, Quiet

\* Every step of every actor keeps both.
LEMMA LifeTokenStep == LifeInv /\ TokenInv /\ [Next]_vars => LifeInv' /\ TokenInv'
<1> SUFFICES ASSUME LifeInv, TokenInv, [Next]_vars PROVE LifeInv' /\ TokenInv'
  OBVIOUS
<1>1. CASE UNCHANGED vars
  <2>1. LifeInv'
    BY <1>1 DEF vars, rings, LifeInv, Completing, At
  <2>2. UNCHANGED <<tre_wp, bell, modem, events, ch_state, pm_state, pc>>
    BY <1>1 DEF vars, rings, link
  <2>3. TokenInv'
    BY <2>2, WordStays DEF At
  <2>4. QED
    BY <2>1, <2>3
<1>2. CASE Next
  <2>1. LifeInv'
    BY <1>2, ClientLife, TaskLife, OutsideLife, ChannelLife DEF Next
  <2>2. TokenInv'
    BY <1>2, ClientToken, TaskToken, ModemToken, LinkToken, ChannelToken DEF Next
  <2>3. QED
    BY <2>1, <2>2
<1>3. QED
  BY <1>1, <1>2

\* What TokenInv says of the event ring is what BurstToken says of its positions.
LEMMA TokenMeans == TokenInv => BurstToken
<1> SUFFICES ASSUME TokenInv, Burst, ch_state = "ENABLED", m_on
             PROVE  LET left == {i \in DOMAIN events : events[i].type = "OOB"}
                    IN  \/ db_mode /\ ~kick /\ ~m_burst /\ left = {}
                        \/ ~db_mode /\ kick /\ ~m_burst /\ left = {}
                        \/ ~db_mode /\ ~kick /\ m_burst /\ left = {}
                        \/ ~db_mode /\ ~kick /\ ~m_burst /\ \E i \in left : left = {i}
  BY DEF BurstToken
<1> DEFINE left == {i \in DOMAIN events : events[i].type = "OOB"}
<1>1. DOMAIN events = 1 .. Len(events)
  BY DEF TokenInv, Pointers
<1>2. NoOob(events) => left = {}
  BY <1>1 DEF NoOob
<1>3. OneOob(events) => \E i \in left : left = {i}
  BY <1>1 DEF OneOob
<1> HIDE DEF left
<1>4. \/ db_mode /\ ~kick /\ ~m_burst /\ left = {}
      \/ ~db_mode /\ kick /\ ~m_burst /\ left = {}
      \/ ~db_mode /\ ~kick /\ m_burst /\ left = {}
      \/ ~db_mode /\ ~kick /\ ~m_burst /\ \E i \in left : left = {i}
  <2>1. Word
    BY DEF TokenInv
  <2>2. QED
    BY <1>2, <1>3, <2>1, Zenon DEF Word
<1>5. QED
  BY <1>4 DEF left

\* In burst mode the host rings only when the modem has stopped reading by itself, and a modem
\* that has stopped is rung again: the word is in one place, for any ring and any number of errors,
\* suspends and teardowns (mhi_db_brstmode, parse_xfer_event, mhi_pm_m0_transition).
THEOREM BurstHandshake == Spec => []BurstToken
  BY LifeInit, TokenInit, LifeTokenStep, TokenMeans, PTL DEF Spec

-----------------------------------------------------------------------------
(***************************************************************************)
(* The state of MhiXfer is well formed, for rings of any size, any number  *)
(* of buffers, errors, suspends and teardowns: types, room in the buffer   *)
(* ring for whoever has found room in the transfer ring, and one next word *)
(* in burst mode.                                                          *)
(*                                                                         *)
(* A type is not kept for its own sake here: that a count stays in bounds  *)
(* needs that no buffer is given back twice, so that the task stops where  *)
(* it should, so that the modem's reports never point past what is queued. *)
(* Three invariants say this: RingInv keeps the two rings in step,         *)
(* OrderInv places everybody's pointers along the ring, CountInv counts.   *)
(***************************************************************************)

Buffers == 0 .. Submits
Fates == Buffers \X {"done", "notconn"}

DataInv ==
  /\ tre \in [Slots -> Buffers] /\ buf \in [Slots -> Buffers]
  /\ tre_rp \in Slots /\ buf_rp \in Slots /\ buf_wp \in Slots /\ target \in Slots
  /\ base \in BOOLEAN /\ m0_ring \in BOOLEAN /\ inline \in BOOLEAN
  /\ pm_state \in {"M0", "LOW", "ERR"}
  /\ hand \in Buffers /\ sent \in Buffers
  /\ got \in Seq(Buffers) /\ returned \in Seq(Fates)
  /\ budget \in [{"low", "cycle", "crash"} -> Nat]

PcInv ==
  /\ pc["client"] \in {"closed", "idle", "lock", "fill", "adv_tre", "adv_buf", "db"}
  /\ pc["task"] \in {"idle", "loop", "del", "cb"}
  /\ pc["life"] \in {"idle", "reset", "drain", "wait", "deinit"}
  /\ pc["client"] = "lock" => inline
  /\ pc["client"] \in {"fill", "db"} => ~inline
  /\ pc["client"] \in {"lock", "fill"} => sent < Submits
  /\ pc["client"] \in {"adv_tre", "adv_buf", "db"} => sent >= 1

\* The rings are filled and emptied together: whoever looks in between is in one of two places.
RingInv ==
  /\ tre_wp = IF At("client", "adv_buf") THEN NextSlot(buf_wp) ELSE buf_wp
  /\ buf_rp = IF At("task", "del") THEN NextSlot(tre_rp) ELSE tre_rp
  /\ At("task", "del") => tre_rp # target
  /\ pc["client"] \in {"lock", "fill", "adv_tre"} => ~Full(tre_rp, tre_wp)

\* The ends of the reported runs lie in order, none further from rp than top, none before t.
Ordered(rp, s, top) ==
  /\ \A i \in 1 .. Len(s) : s[i].type = "EOT" => Used(rp, NextSlot(s[i].ptr)) <= top
  /\ \A i, j \in 1 .. Len(s) :
       s[i].type = "EOT" /\ s[j].type = "EOT" /\ i <= j
         => Used(rp, NextSlot(s[i].ptr)) <= Used(rp, NextSlot(s[j].ptr))
From(rp, s, t) ==
  \A i \in 1 .. Len(s) : s[i].type = "EOT" => Used(rp, t) <= Used(rp, NextSlot(s[i].ptr))

\* How far along the ring a slot lies, from the next element to be released.
Dist(x) == Used(tre_rp, x)

\* From rp on: where the task stops, what is reported, what is moved, what the modem knows of,
\* the doorbell, the context, wp.
Along ==
  /\ Dist(m_rp) <= Dist(m_wp) /\ Dist(m_wp) <= Dist(ctxt_wp) /\ Dist(ctxt_wp) <= Dist(tre_wp)
  /\ kick => Dist(m_wp) <= Dist(db) /\ Dist(db) <= Dist(ctxt_wp)
  /\ Ordered(tre_rp, events, Dist(m_rp))
  /\ Completing => Dist(target) <= Dist(m_rp) /\ From(tre_rp, events, target)

Live == ch_state = "ENABLED" \/ At("life", "reset")

OrderInv ==
  /\ m_burst => Burst
  /\ Burst /\ m_on => (db_mode => ~kick /\ ~m_burst) /\ ~(kick /\ m_burst)
  /\ Live => Along

\* A buffer that is written but not in the ring yet, one in the task's hand that no ring has any
\* more, and one that is in the ring and will be counted.
Written == IF pc["client"] = "adv_tre" THEN 1 ELSE 0
Handed == IF pc["task"] = "cb" THEN 1 ELSE 0
Uncounted == IF ~inline /\ pc["client"] \in {"adv_tre", "adv_buf", "db"} THEN 1 ELSE 0

\* What is queued is returned at most once, and pending_pkts counts the rest.
CountInv ==
  /\ Len(returned) + Dist(tre_wp) + Written + Handed <= sent
  /\ pending_pkts = IF Uplink THEN sent - Uncounted - Len(returned) ELSE 0

IInv == LifeInv /\ TokenInv /\ DataInv /\ PcInv /\ RingInv /\ OrderInv /\ CountInv

-----------------------------------------------------------------------------
(* Distances.                                                              *)

\* The slots k elements further on.
LEMMA AheadDist ==
  ASSUME NEW rp \in Slots, NEW m \in Slots, NEW w \in Slots, Used(rp, m) <= Used(rp, w),
         NEW k \in 1 .. Used(m, w)
  PROVE  /\ Ahead(m, k) \in Slots /\ Ahead(m, k - 1) \in Slots
         /\ NextSlot(Ahead(m, k - 1)) = Ahead(m, k)
         /\ Used(rp, m) <= Used(rp, Ahead(m, k)) /\ Used(rp, Ahead(m, k)) <= Used(rp, w)
<1>1. k \in Int /\ 1 <= k /\ k <= Used(m, w) /\ Used(m, w) \in 0 .. N - 1
  BY Accounting
<1>2. QED
  BY <1>1, RingAssumption DEF Slots, Ahead, NextSlot, Used

\* A slot that is not next is one element nearer once the next one is released.
LEMMA Nearer ==
  ASSUME NEW rp \in Slots, NEW x \in Slots, Used(rp, x) >= 1
  PROVE  Used(NextSlot(rp), x) = Used(rp, x) - 1
  BY RingAssumption DEF Slots, NextSlot, Used

\* A report of the modem is the last one, and points furthest.
LEMMA ReportOrdered ==
  ASSUME NEW rp \in Slots, NEW s \in Seq(Notes), NEW e \in Notes,
         NEW top \in Int, NEW top2 \in Int, top <= top2,
         e.type = "EOT" => Used(rp, NextSlot(e.ptr)) = top2,
         Ordered(rp, s, top)
  PROVE  /\ Ordered(rp, Append(s, e), top2)
         /\ \A t \in Slots : Used(rp, t) <= top /\ From(rp, s, t) => From(rp, Append(s, e), t)
<1> DEFINE a == Append(s, e)
           E(n) == Used(rp, NextSlot(n.ptr))
<1>1. /\ Len(a) = Len(s) + 1 /\ Len(s) \in Nat
      /\ \A i \in 1 .. Len(s) : a[i] = s[i]
      /\ a[Len(s) + 1] = e
  BY AppendProperties
<1> HIDE DEF a
<1>2. \A i \in 1 .. Len(a) : i \in 1 .. Len(s) \/ i = Len(s) + 1
  BY <1>1
<1>3. \A i \in 1 .. Len(s) : s[i].ptr \in Slots /\ E(s[i]) \in Int
  <2>1. \A i \in 1 .. Len(s) : s[i] \in Notes
    BY ElementOfSeq
  <2>2. \A i \in 1 .. Len(s) : s[i].ptr \in Slots
    BY <2>1 DEF Notes
  <2>3. QED
    BY <2>2, NextSlotType, Accounting
<1> HIDE DEF E
<1>4. /\ \A i \in 1 .. Len(s) : s[i].type = "EOT" => E(s[i]) <= top
      /\ \A i, j \in 1 .. Len(s) :
           s[i].type = "EOT" /\ s[j].type = "EOT" /\ i <= j => E(s[i]) <= E(s[j])
      /\ e.type = "EOT" => E(e) = top2
  BY DEF Ordered, E
<1>5. \A i \in 1 .. Len(a) : a[i].type = "EOT" => E(a[i]) <= top2
  BY <1>1, <1>2, <1>3, <1>4
<1>6. ASSUME NEW i \in 1 .. Len(a), NEW j \in 1 .. Len(a), a[i].type = "EOT", a[j].type = "EOT", i <= j
      PROVE  E(a[i]) <= E(a[j])
  <2>1. CASE j \in 1 .. Len(s)
    <3>1. i \in 1 .. Len(s)
      BY <1>1, <1>6, <2>1
    <3>2. QED
      BY <1>1, <1>4, <1>6, <2>1, <3>1
  <2>2. CASE j = Len(s) + 1
    BY <1>1, <1>4, <1>5, <1>6, <2>2
  <2>3. QED
    BY <1>2, <2>1, <2>2
<1>7. ASSUME NEW t \in Slots, Used(rp, t) <= top, From(rp, s, t)
      PROVE  From(rp, a, t)
  <2>1. Used(rp, t) \in Int
    BY Accounting
  <2>2. \A i \in 1 .. Len(s) : s[i].type = "EOT" => Used(rp, t) <= E(s[i])
    BY <1>7 DEF From, E
  <2>3. \A i \in 1 .. Len(a) : a[i].type = "EOT" => Used(rp, t) <= E(a[i])
    BY <1>1, <1>2, <1>4, <1>7, <2>1, <2>2
  <2>4. QED
    BY <2>3 DEF From, E
<1>8. Ordered(rp, a, top2)
  BY <1>5, <1>6 DEF Ordered, E
<1>9. QED
  BY <1>7, <1>8 DEF a

\* The report at the head points nearest.
LEMMA HeadNearest ==
  ASSUME NEW rp \in Slots, NEW s \in Seq(Notes), s # <<>>, NEW top \in Int, Ordered(rp, s, top)
  PROVE  /\ Ordered(rp, Tail(s), top)
         /\ Head(s).type = "EOT" => /\ Used(rp, NextSlot(Head(s).ptr)) <= top
                                    /\ From(rp, Tail(s), NextSlot(Head(s).ptr))
<1> DEFINE t == Tail(s)
<1>1. /\ Len(s) \in Nat /\ Len(s) >= 1 /\ Len(t) = Len(s) - 1
      /\ \A i \in 1 .. Len(t) : t[i] = s[i + 1]
      /\ Head(s) = s[1]
  BY HeadTailProperties, EmptySeq
<1> HIDE DEF t
<1>2. /\ 1 \in 1 .. Len(s)
      /\ \A i \in 1 .. Len(t) : i + 1 \in 1 .. Len(s) /\ 1 <= i + 1
      /\ \A i, j \in 1 .. Len(t) : i <= j => i + 1 <= j + 1
  BY <1>1
<1>3. Ordered(rp, t, top)
  BY <1>1, <1>2 DEF Ordered
<1>4. Head(s).type = "EOT" => /\ Used(rp, NextSlot(Head(s).ptr)) <= top
                              /\ From(rp, t, NextSlot(Head(s).ptr))
  BY <1>1, <1>2 DEF Ordered, From
<1>5. QED
  BY <1>3, <1>4 DEF t

\* Releasing an element before t brings all reports from t on one element nearer.
LEMMA ReleaseOrdered ==
  ASSUME NEW rp \in Slots, NEW s \in Seq(Notes), NEW t \in Slots, NEW top \in Int,
         rp # t, From(rp, s, t), Ordered(rp, s, top)
  PROVE  Ordered(NextSlot(rp), s, top - 1) /\ From(NextSlot(rp), s, t)
<1> DEFINE E(i) == Used(rp, NextSlot(s[i].ptr))
           F(i) == Used(NextSlot(rp), NextSlot(s[i].ptr))
<1>1. \A i \in 1 .. Len(s) : NextSlot(s[i].ptr) \in Slots
  <2>1. \A i \in 1 .. Len(s) : s[i] \in Notes
    BY ElementOfSeq
  <2>2. \A i \in 1 .. Len(s) : s[i].ptr \in Slots
    BY <2>1 DEF Notes
  <2>3. QED
    BY <2>2, NextSlotType
<1>2. Used(rp, t) >= 1 /\ Used(rp, t) \in Int
  BY Accounting
<1>3. Used(NextSlot(rp), t) = Used(rp, t) - 1
  BY <1>2, Nearer
<1>4. \A i \in 1 .. Len(s) : E(i) \in Int
  BY <1>1, Accounting
<1>5. \A i \in 1 .. Len(s) : s[i].type = "EOT" => E(i) >= 1 /\ Used(rp, t) <= E(i)
  BY <1>2, <1>4 DEF From
<1>6. \A i \in 1 .. Len(s) : s[i].type = "EOT" => F(i) = E(i) - 1
  BY <1>1, <1>5, Nearer
<1>7. /\ \A i \in 1 .. Len(s) : s[i].type = "EOT" => E(i) <= top
      /\ \A i, j \in 1 .. Len(s) :
           s[i].type = "EOT" /\ s[j].type = "EOT" /\ i <= j => E(i) <= E(j)
  BY DEF Ordered
<1> HIDE DEF E, F
<1>8. /\ \A i \in 1 .. Len(s) : s[i].type = "EOT" => F(i) <= top - 1
      /\ \A i, j \in 1 .. Len(s) :
           s[i].type = "EOT" /\ s[j].type = "EOT" /\ i <= j => F(i) <= F(j)
      /\ \A i \in 1 .. Len(s) : s[i].type = "EOT" => Used(NextSlot(rp), t) <= F(i)
  BY <1>2, <1>3, <1>4, <1>5, <1>6, <1>7
<1>9. QED
  BY <1>8 DEF Ordered, From, F

-----------------------------------------------------------------------------
(* Steps that leave an invariant alone.                                    *)

Step == DataInv' /\ PcInv' /\ RingInv' /\ OrderInv' /\ CountInv'

\* The order is kept by who moves no pointer, stops nowhere else and reports nothing.
LEMMA OrderSame ==
  ASSUME OrderInv, UNCHANGED <<tre_rp, tre_wp, bell, modem, events, target>>,
         Live' => Live, Completing' => Completing
  PROVE  OrderInv'
<1>1. Along => Along'
  BY DEF Along, Dist, Ordered, From, bell, modem
<1>2. QED
  BY <1>1 DEF OrderInv, bell, modem

\* Nothing is counted anew when nothing is queued, released or returned.
LEMMA CountSame ==
  ASSUME CountInv, UNCHANGED <<tre_rp, tre_wp, inline, sent, returned, pending_pkts>>,
         Written' = Written,
         Handed' = Handed, Uncounted' = Uncounted
  PROVE  CountInv'
  BY DEF CountInv, Dist

\* All pointers are in the ring, and all distances along it numbers.
LEMMA Types ==
  ASSUME IInv
  PROVE  /\ tre_rp \in Slots /\ tre_wp \in Slots /\ buf_rp \in Slots /\ buf_wp \in Slots
         /\ target \in Slots /\ ctxt_wp \in Slots /\ db \in Slots /\ m_rp \in Slots /\ m_wp \in Slots
         /\ events \in Seq(Notes)
         /\ Dist(tre_wp) \in 0 .. N - 1 /\ Dist(target) \in 0 .. N - 1 /\ Dist(ctxt_wp) \in 0 .. N - 1
         /\ Dist(db) \in 0 .. N - 1 /\ Dist(m_rp) \in 0 .. N - 1 /\ Dist(m_wp) \in 0 .. N - 1
         /\ sent \in Nat /\ Submits \in Nat /\ N \in Nat /\ Len(returned) \in Nat
<1>1. {Submits, Lows, Cycles, Crashes, BufCrashes} \subseteq Nat
  BY XferAssumption
<1>2. sent \in Nat /\ Submits \in Nat
  BY <1>1 DEF IInv, DataInv, Buffers
<1>3. \A x \in Slots : Dist(x) \in 0 .. N - 1
  BY Accounting DEF IInv, DataInv, Dist
<1>4. Len(returned) \in Nat
  BY LenProperties DEF IInv, DataInv
<1>5. /\ tre_rp \in Slots /\ tre_wp \in Slots /\ buf_rp \in Slots /\ buf_wp \in Slots
      /\ target \in Slots /\ ctxt_wp \in Slots /\ db \in Slots /\ m_rp \in Slots /\ m_wp \in Slots
  BY DEF IInv, DataInv, TokenInv, Pointers
<1>6. events \in Seq(Notes)
  BY DEF IInv, TokenInv, Pointers
<1>7. QED
  BY <1>2, <1>3, <1>4, <1>5, <1>6, RingAssumption

\* A doorbell leaves wp where everybody has to go.
LEMMA RungOrder ==
  ASSUME IInv, RingChanDb(tre_wp), UNCHANGED <<tre_rp, tre_wp, modem, events, target>>,
         Live' => Live, Completing' => Completing
  PROVE  OrderInv'
<1>1. db_mode \in BOOLEAN
  BY DEF IInv, TokenInv, Pointers
<1>2. ASSUME Burst, m_on PROVE (db_mode' => ~kick' /\ ~m_burst) /\ ~(kick' /\ m_burst)
  BY <1>1, <1>2 DEF IInv, OrderInv, RingChanDb
<1>3. ASSUME Along PROVE Along'
  <2>1. /\ Dist(m_rp) \in Int /\ Dist(m_wp) \in Int /\ Dist(ctxt_wp) \in Int
        /\ Dist(tre_wp) \in Int /\ Dist(db) \in Int
    BY Types
  <2>2. \/ ctxt_wp' = tre_wp /\ UNCHANGED <<db, kick>>
        \/ ctxt_wp' = tre_wp /\ db' = tre_wp /\ kick' = TRUE
    BY DEF RingChanDb
  <2>3. /\ Used(tre_rp, m_rp) <= Used(tre_rp, m_wp)
        /\ Used(tre_rp, m_wp) <= Used(tre_rp, tre_wp)
        /\ kick => Used(tre_rp, m_wp) <= Used(tre_rp, db) /\ Used(tre_rp, db) <= Used(tre_rp, tre_wp)
        /\ Used(tre_rp, tre_wp) <= Used(tre_rp, tre_wp)
    BY <1>3, <2>1, Types DEF Along, Dist
  <2>4. UNCHANGED <<m_rp, m_wp>>
    BY DEF modem
  <2>5. QED
    BY <1>3, <2>2, <2>3, <2>4 DEF Along, Dist, Ordered, From
<1>4. UNCHANGED <<m_on, m_burst>>
  BY DEF modem
<1>5. QED
  BY <1>2, <1>3, <1>4 DEF IInv, OrderInv

-----------------------------------------------------------------------------
(* The actors.                                                             *)

\* The client: a call that is accepted finds room in both rings, to the end.
LEMMA ClientKeeps ==
  ASSUME IInv, Client
  PROVE  Step
<1> USE DEF Returns, Goto, At
<1>1. UNCHANGED <<tre_rp, buf_rp, base, modem, events, ch_state, pm_state, m0_ring, target, hand, got,
                  returned, inline, budget>>
  BY DEF Client, CallGoesOn, Call, LockPm, GenTre, AdvanceTre, AdvanceBuf, Doorbell, Fill, rings, link, task,
         ledger
<1>2. pc'["task"] = pc["task"] /\ pc'["life"] = pc["life"] /\ pc \in [Procs -> Places]
  BY DEF Client, CallGoesOn, Call, LockPm, GenTre, AdvanceTre, AdvanceBuf, Doorbell, Fill, IInv, LifeInv,
         Procs
<1>3. Live' = Live /\ Completing' = Completing
  BY <1>1, <1>2 DEF Live, Completing
<1>4. Handed' = Handed /\ Handed \in {0, 1}
  BY <1>2 DEF Handed
<1> USE Types DEF IInv
<1>5. ASSUME Fill, pc["client"] = (IF inline THEN "lock" ELSE "fill"), UNCHANGED bell PROVE Step
  <2>1. /\ sent' = sent + 1
        /\ buf' = [buf EXCEPT ![buf_wp] = sent + 1] /\ tre' = [tre EXCEPT ![tre_wp] = sent + 1]
        /\ pending_pkts' = IF inline /\ Uplink THEN pending_pkts + 1 ELSE pending_pkts
        /\ pc' = [pc EXCEPT !["client"] = "adv_tre"]
        /\ UNCHANGED <<tre_wp, buf_wp>>
    BY <1>5 DEF Fill
  <2>2. pc'["client"] = "adv_tre"
    BY <1>2, <2>1 DEF Procs
  <2>3. sent < Submits /\ sent + 1 \in Buffers
    BY <1>5 DEF PcInv, Buffers
  <2>4. DataInv'
    BY <1>1, <2>1, <2>3 DEF DataInv
  <2>5. PcInv'
    <3>1. sent' >= 1
      BY <2>1
    <3>2. QED
      BY <1>1, <1>2, <2>2, <3>1 DEF PcInv
  <2>6. RingInv'
    BY <1>1, <1>2, <1>5, <2>1, <2>2 DEF RingInv
  <2>7. OrderInv'
    BY <1>1, <1>3, <1>5, <2>1, OrderSame
  <2>8. CountInv'
    <3>1. /\ Written = 0 /\ Written' = 1
          /\ Uncounted = 0 /\ Uncounted' = IF inline THEN 0 ELSE 1
      BY <1>1, <1>5, <2>2 DEF Written, Uncounted
    <3>2. Dist(tre_wp)' = Dist(tre_wp)
      BY <1>1, <2>1 DEF Dist
    <3>3. /\ Dist(tre_wp) \in Int /\ Len(returned) \in Int /\ sent \in Int /\ sent' = sent + 1
          /\ UNCHANGED <<Len(returned), Handed>>
      BY <1>1, <1>4, <2>1
    <3>4. Len(returned)' + Dist(tre_wp)' + Written' + Handed' <= sent'
      <4>1. Len(returned) + Dist(tre_wp) + Written + Handed <= sent
        BY DEF CountInv
      <4>2. Len(returned)' = Len(returned) /\ Handed' = Handed /\ Handed \in Int
        BY <1>4, <3>3
      <4>3. /\ Dist(tre_wp) \in Int /\ Len(returned) \in Int /\ sent \in Int
            /\ Written = 0 /\ Written' = 1 /\ sent' = sent + 1 /\ Dist(tre_wp)' = Dist(tre_wp)
        BY <3>1, <3>2, <3>3
      <4>4. QED
        BY <4>1, <4>2, <4>3, SMTT(30)
    <3>5. CASE Uplink
      <4>1. pending_pkts = sent - Len(returned)
        BY <3>1, <3>3, <3>5 DEF CountInv
      <4>2. pending_pkts' = pending_pkts + 1 - Uncounted'
        BY <2>1, <3>1, <3>3, <3>5, <4>1
      <4>3. pending_pkts' = sent' - Uncounted' - Len(returned)'
        BY <3>1, <3>3, <4>1, <4>2
      <4>4. QED
        BY <3>4, <3>5, <4>3 DEF CountInv
    <3>6. CASE ~Uplink
      BY <2>1, <3>4, <3>6 DEF CountInv
    <3>7. QED
      BY <3>5, <3>6
  <2>9. QED
    BY <2>4, <2>5, <2>6, <2>7, <2>8 DEF Step
<1>6. CASE Call
  <2>1. /\ pc["client"] = "idle" /\ sent < Submits /\ ~Full(tre_rp, tre_wp)
        /\ pc' = [pc EXCEPT !["client"] = IF inline THEN "lock" ELSE "fill"]
        /\ UNCHANGED <<tre, buf, tre_wp, buf_wp, bell, sent, pending_pkts>>
    BY <1>6 DEF Call, Accepts, rings, ledger
  <2>2. pc'["client"] = (IF inline THEN "lock" ELSE "fill") /\ inline \in BOOLEAN
    BY <1>2, <2>1 DEF Procs, DataInv
  <2>3. DataInv'
    BY <1>1, <2>1 DEF DataInv
  <2>4. PcInv'
    BY <1>1, <1>2, <2>1, <2>2 DEF PcInv
  <2>5. RingInv'
    BY <1>1, <1>2, <2>1, <2>2 DEF RingInv
  <2>6. OrderInv'
    BY <1>1, <1>3, <2>1, OrderSame
  <2>7. CountInv'
    <3>1. Written' = Written /\ Uncounted' = Uncounted
      BY <1>1, <2>1, <2>2 DEF Written, Uncounted
    <3>2. QED
      BY <1>1, <1>4, <2>1, <3>1, CountSame
  <2>8. QED
    BY <2>3, <2>4, <2>5, <2>6, <2>7 DEF Step
<1>7. CASE LockPm
  <2>1. pc["client"] = "lock" /\ inline /\ UNCHANGED bell
    BY <1>7 DEF LockPm, PcInv
  <2>2. CASE pm_state = "ERR"
    <3>1. pc' = [pc EXCEPT !["client"] = "idle"] /\ UNCHANGED <<rings, ledger>>
      BY <1>7, <2>2 DEF LockPm
    <3>2. pc'["client"] = "idle" /\ UNCHANGED <<tre, buf, tre_wp, buf_wp, sent, pending_pkts>>
      BY <1>2, <3>1 DEF Procs, rings, ledger
    <3>3. DataInv' /\ PcInv' /\ RingInv'
      BY <1>1, <1>2, <2>1, <3>2 DEF DataInv, PcInv, RingInv
    <3>4. OrderInv'
      BY <1>1, <1>3, <2>1, <3>2, OrderSame
    <3>5. CountInv'
      <4>1. Written' = Written /\ Uncounted' = Uncounted
        BY <1>1, <2>1, <3>2 DEF Written, Uncounted
      <4>2. QED
        BY <1>1, <1>4, <3>2, <4>1, CountSame
    <3>6. QED
      BY <3>3, <3>4, <3>5 DEF Step
  <2>3. CASE pm_state # "ERR"
    <3>1. Fill
      BY <1>7, <2>3 DEF LockPm
    <3>2. QED
      BY <1>5, <2>1, <3>1
  <2>4. QED
    BY <2>2, <2>3
<1>8. CASE GenTre
  <2>1. pc["client"] = "fill" /\ ~inline /\ Fill /\ UNCHANGED bell
    BY <1>8 DEF GenTre, PcInv
  <2>2. QED
    BY <1>5, <2>1
<1>9. CASE AdvanceTre
  <2>1. /\ pc["client"] = "adv_tre" /\ tre_wp' = NextSlot(tre_wp)
        /\ pc' = [pc EXCEPT !["client"] = "adv_buf"]
        /\ UNCHANGED <<tre, buf, buf_wp, bell, sent, pending_pkts>>
    BY <1>9 DEF AdvanceTre, ledger
  <2>2. pc'["client"] = "adv_buf"
    BY <1>2, <2>1 DEF Procs
  <2>3. Dist(tre_wp)' = Dist(tre_wp) + 1
    BY <1>1, <2>1, OneMoreOneLess DEF Dist, RingInv
  <2>4. DataInv' /\ PcInv' /\ RingInv'
    BY <1>1, <1>2, <2>1, <2>2 DEF DataInv, PcInv, RingInv
  <2>5. Along => Along'
    <3>1. UNCHANGED <<tre_rp, m_rp, m_wp, ctxt_wp, db, kick, events, target, Completing>>
      BY <1>1, <1>3, <2>1 DEF modem, bell
    <3>2. Dist(ctxt_wp) <= Dist(tre_wp) => Dist(ctxt_wp)' <= Dist(tre_wp)'
      BY <2>3, <3>1 DEF Dist
    <3>3. QED
      BY <3>1, <3>2 DEF Along, Dist, Ordered, From
  <2>6. OrderInv'
    BY <1>1, <1>3, <2>1, <2>5 DEF OrderInv, modem, bell
  <2>7. CountInv'
    <3>1. /\ Written = 1 /\ Written' = 0
          /\ Uncounted' = Uncounted
      BY <1>1, <2>1, <2>2 DEF Written, Uncounted
    <3>2. QED
      BY <1>1, <1>4, <2>1, <2>3, <3>1 DEF CountInv
  <2>8. QED
    BY <2>4, <2>6, <2>7 DEF Step
<1>10. CASE AdvanceBuf
  <2>1. /\ pc["client"] = "adv_buf" /\ buf_wp' = NextSlot(buf_wp)
        /\ pc' = [pc EXCEPT !["client"] = IF inline THEN "idle" ELSE "db"]
        /\ RingChanDb(tre_wp) \/ UNCHANGED bell
        /\ UNCHANGED <<tre, buf, tre_wp, sent, pending_pkts>>
    BY <1>10 DEF AdvanceBuf, ledger
  <2>2. pc'["client"] = (IF inline THEN "idle" ELSE "db") /\ inline \in BOOLEAN
    BY <1>2, <2>1 DEF Procs, DataInv
  <2>3. DataInv'
    BY <1>1, <2>1, NextSlotType DEF DataInv
  <2>4. PcInv'
    BY <1>1, <1>2, <2>1, <2>2 DEF PcInv
  <2>5. RingInv'
    BY <1>1, <1>2, <2>1, <2>2 DEF RingInv
  <2>6. OrderInv'
    BY <1>1, <1>3, <2>1, OrderSame, RungOrder
  <2>7. CountInv'
    <3>1. /\ Written = 0 /\ Written' = 0
          /\ Uncounted' = Uncounted
      BY <1>1, <2>1, <2>2 DEF Written, Uncounted
    <3>2. Dist(tre_wp)' = Dist(tre_wp)
      BY <1>1, <2>1 DEF Dist
    <3>3. QED
      BY <1>1, <1>4, <2>1, <3>1, <3>2 DEF CountInv
  <2>8. QED
    BY <2>3, <2>4, <2>5, <2>6, <2>7 DEF Step
<1>11. CASE Doorbell
  <2>1. /\ pc["client"] = "db"
        /\ pending_pkts' = IF Uplink THEN pending_pkts + 1 ELSE pending_pkts
        /\ pc' = [pc EXCEPT !["client"] = "idle"]
        /\ RingChanDb(tre_wp) \/ UNCHANGED bell
        /\ UNCHANGED <<tre, buf, tre_wp, buf_wp, sent>>
    BY <1>11 DEF Doorbell, rings
  <2>2. pc'["client"] = "idle"
    BY <1>2, <2>1 DEF Procs
  <2>3. DataInv' /\ PcInv' /\ RingInv'
    BY <1>1, <1>2, <2>1, <2>2 DEF DataInv, PcInv, RingInv
  <2>4. OrderInv'
    BY <1>1, <1>3, <2>1, OrderSame, RungOrder
  <2>5. CountInv'
    <3>1. /\ Written = 0 /\ Written' = 0
          /\ Uncounted = 1 /\ Uncounted' = 0
      BY <1>1, <2>1, <2>2 DEF Written, Uncounted, PcInv
    <3>2. /\ Dist(tre_wp)' = Dist(tre_wp) /\ sent' = sent /\ returned' = returned
          /\ pending_pkts' = IF Uplink THEN pending_pkts + 1 ELSE pending_pkts
      BY <1>1, <2>1 DEF Dist
    <3>3. Len(returned)' + Dist(tre_wp)' + Written' + Handed' <= sent'
      BY <1>4, <3>1, <3>2 DEF CountInv
    <3>4. pending_pkts' = IF Uplink THEN sent' - Uncounted' - Len(returned)' ELSE 0
      BY <3>1, <3>2, SMTT(30) DEF CountInv
    <3>5. QED
      BY <3>3, <3>4 DEF CountInv
  <2>6. QED
    BY <2>3, <2>4, <2>5 DEF Step
<1>12. QED
  BY <1>6, <1>7, <1>8, <1>9, <1>10, <1>11 DEF Client, CallGoesOn

\* A buffer that is given back to the client.
LEMMA GiveKeeps ==
  ASSUME NEW id \in Buffers, NEW fate \in {"done", "notconn"},
         got \in Seq(Buffers), returned \in Seq(Fates), Give(id, fate)
  PROVE  /\ got' \in Seq(Buffers) /\ returned' \in Seq(Fates) /\ sent' = sent
         /\ Len(returned)' = Len(returned) + 1
         /\ pending_pkts' = IF Uplink THEN pending_pkts - 1 ELSE pending_pkts
<1>1. <<id, fate>> \in Fates
  BY DEF Fates
<1>2. returned' = Append(returned, <<id, fate>>)
  BY DEF Give
<1>3. returned' \in Seq(Fates) /\ Len(returned') = Len(returned) + 1
  BY <1>1, <1>2, AppendProperties
<1>4. got' \in Seq(Buffers)
  <2>1. got # <<>> => Tail(got) \in Seq(Buffers)
    BY HeadTailProperties
  <2>2. QED
    BY <2>1 DEF Give
<1>5. QED
  BY <1>3, <1>4 DEF Give

\* The event task stops where the modem said, and so never empties a ring that is empty.
LEMMA TaskKeeps ==
  ASSUME IInv, Task
  PROVE  Step
<1> USE DEF Goto, At
<1>1. UNCHANGED <<tre, buf, tre_wp, buf_wp, base, modem, ch_state, pm_state, m0_ring, inline, budget>>
  BY DEF Task, TaskEvent, TaskInside, TaskDrop, TaskEot, TaskLoop, TaskDel, TaskCallback, TaskOob, rings,
         link
<1>2. pc'["client"] = pc["client"] /\ pc'["life"] = pc["life"] /\ pc \in [Procs -> Places]
  BY DEF Task, TaskEvent, TaskInside, TaskDrop, TaskEot, TaskLoop, TaskDel, TaskCallback, TaskOob, IInv,
         LifeInv, Procs
<1>3. Live' = Live /\ Written' = Written /\ Uncounted' = Uncounted
  BY <1>1, <1>2 DEF Live, Written, Uncounted
<1>4. UNCHANGED <<m_rp, m_wp, m_on, m_burst>>
  BY <1>1 DEF modem
<1> USE Types DEF IInv
<1>5. CASE TaskEvent
  <2>1. /\ pc["task"] = "idle" /\ events # <<>> /\ events' = Tail(events)
        /\ UNCHANGED <<tre_rp, buf_rp, hand, sent, got, returned, pending_pkts>>
    BY <1>5 DEF TaskEvent, TaskDrop, TaskEot, TaskOob, rings, task, ledger
  <2>2. CountInv'
    <3>1. Handed' = Handed
      BY <1>2, <1>5, <2>1 DEF TaskEvent, TaskDrop, TaskEot, TaskOob, Handed, Procs
    <3>2. QED
      BY <1>1, <1>3, <2>1, <3>1, CountSame
  <2>3. ASSUME Along PROVE /\ Ordered(tre_rp, events', Dist(m_rp))
                           /\ Event.type = "EOT" =>
                                /\ Dist(NextSlot(Event.ptr)) <= Dist(m_rp)
                                /\ From(tre_rp, events', NextSlot(Event.ptr))
    <3>1. Dist(m_rp) \in Int /\ Ordered(tre_rp, events, Dist(m_rp))
      BY <2>3 DEF Along
    <3>2. QED
      BY <2>1, <3>1, HeadNearest DEF Event, Dist
  <2>4. CASE TaskDrop
    <3>1. UNCHANGED <<bell, pc, target>>
      BY <2>4 DEF TaskDrop, task
    <3>2. DataInv' /\ PcInv' /\ RingInv'
      <4>1. DataInv'
        BY <1>1, <2>1, <3>1 DEF DataInv
      <4>2. PcInv'
        BY <1>1, <2>1, <3>1 DEF PcInv
      <4>3. RingInv'
        BY <1>1, <2>1, <3>1 DEF RingInv
      <4>4. QED
        BY <4>1, <4>2, <4>3
    <3>3. ~Completing /\ ~Completing'
      BY <2>1, <3>1 DEF Completing
    <3>4. Along => Along'
      BY <1>1, <1>4, <2>1, <2>3, <3>1, <3>3 DEF Along, Dist, bell
    <3>5. OrderInv'
      BY <1>3, <1>4, <3>1, <3>4 DEF OrderInv, bell
    <3>6. QED
      BY <2>2, <3>2, <3>5 DEF Step
  <2>5. CASE TaskEot
    <3>1. /\ UNCHANGED bell /\ Event.type = "EOT" /\ target' = NextSlot(Event.ptr)
          /\ pc' = [pc EXCEPT !["task"] = "loop"]
      BY <2>5 DEF TaskEot
    <3>2. pc'["task"] = "loop"
      BY <1>2, <3>1 DEF Procs
    <3>3. target' \in Slots
      <4>1. Event \in Notes
        BY <2>1, NoteHandled DEF Event
      <4>2. QED
        BY <3>1, <4>1, NextSlotType DEF Notes
    <3>4. DataInv' /\ PcInv' /\ RingInv'
      BY <1>1, <1>2, <2>1, <3>2, <3>3 DEF DataInv, PcInv, RingInv
    <3>5. Along => Along'
      BY <1>1, <1>4, <2>1, <2>3, <3>1 DEF Along, Dist, bell
    <3>6. OrderInv'
      BY <1>3, <1>4, <3>1, <3>5 DEF OrderInv, bell
    <3>7. QED
      BY <2>2, <3>4, <3>6 DEF Step
  <2>6. CASE TaskOob
    <3>1. /\ UNCHANGED <<pc, target>> /\ Event.type = "OOB" /\ ch_state = "ENABLED"
          /\ \/ ctxt_wp' = tre_wp /\ db' = tre_wp /\ kick' = TRUE /\ db_mode' = ~Burst
             \/ db_mode' = TRUE /\ UNCHANGED <<ctxt_wp, db, kick>>
      BY <2>6 DEF TaskOob, task
    <3>2. DataInv' /\ PcInv' /\ RingInv'
      <4>1. DataInv'
        BY <1>1, <2>1, <3>1 DEF DataInv
      <4>2. PcInv'
        BY <1>1, <2>1, <3>1 DEF PcInv
      <4>3. RingInv'
        BY <1>1, <2>1, <3>1 DEF RingInv
      <4>4. QED
        BY <4>1, <4>2, <4>3
    <3>3. ~Completing /\ ~Completing'
      BY <2>1, <3>1 DEF Completing
    <3>4. ASSUME Along PROVE Along'
      <4>1. /\ Used(tre_rp, m_rp) <= Used(tre_rp, m_wp)
            /\ Used(tre_rp, m_wp) <= Used(tre_rp, tre_wp)
            /\ Used(tre_rp, tre_wp) <= Used(tre_rp, tre_wp)
        BY <3>4 DEF Along, Dist
      <4>2. QED
        BY <1>1, <1>4, <2>1, <2>3, <3>1, <3>3, <3>4, <4>1 DEF Along, Dist
    <3>5. ASSUME Burst, m_on PROVE ~kick /\ ~m_burst
      <4>1. Word
        BY <3>1, <3>5 DEF TokenInv
      <4>2. ~NoOob(events)
        BY <2>1, <3>1, NoteHandled DEF Event
      <4>3. QED
        BY <4>1, <4>2 DEF Word
    <3>6. OrderInv'
      <4>1. Burst /\ m_on => (db_mode' => ~kick' /\ ~m_burst) /\ ~(kick' /\ m_burst)
        BY <3>1, <3>5
      <4>2. QED
        BY <1>3, <1>4, <3>4, <4>1 DEF OrderInv
    <3>7. QED
      BY <2>2, <3>2, <3>6 DEF Step
  <2>7. QED
    BY <1>5, <2>4, <2>5, <2>6 DEF TaskEvent
<1>6. ASSUME TaskInside PROVE Completing /\ Along /\ UNCHANGED <<bell, events, target>>
  <2>1. Completing
    BY <1>6 DEF TaskInside, TaskLoop, TaskDel, TaskCallback, Completing
  <2>2. ch_state = "ENABLED"
    BY <2>1 DEF LifeInv
  <2>3. Along
    BY <2>2 DEF OrderInv, Live
  <2>4. UNCHANGED <<bell, events, target>>
    BY <1>6 DEF TaskInside, TaskLoop, TaskDel, TaskCallback, task
  <2>5. QED
    BY <2>1, <2>3, <2>4
<1>7. CASE TaskLoop
  <2>1. /\ pc["task"] = "loop" /\ UNCHANGED <<tre_rp, sent, got, returned, pending_pkts>>
        /\ \/ /\ tre_rp = target /\ UNCHANGED <<buf_rp, hand>>
              /\ pc' = [pc EXCEPT !["task"] = "idle"]
           \/ /\ tre_rp # target
              /\ hand' = buf[buf_rp] /\ buf_rp' = NextSlot(buf_rp)
              /\ pc' = [pc EXCEPT !["task"] = "del"]
    BY <1>7 DEF TaskLoop, ledger
  <2>2. \/ tre_rp = target /\ pc'["task"] = "idle" /\ UNCHANGED <<buf_rp, hand>>
        \/ /\ tre_rp # target /\ pc'["task"] = "del"
           /\ hand' = buf[buf_rp] /\ buf_rp' = NextSlot(buf_rp)
    BY <1>2, <2>1 DEF Procs
  <2>3. UNCHANGED <<bell, events, target>>
    BY <1>6, <1>7 DEF TaskInside
  <2>4. DataInv'
    BY <1>1, <2>1, <2>2, <2>3, NextSlotType DEF DataInv
  <2>5. PcInv'
    BY <1>1, <1>2, <2>1, <2>2 DEF PcInv
  <2>6. RingInv'
    BY <1>1, <1>2, <2>1, <2>2, <2>3 DEF RingInv
  <2>7. OrderInv'
    BY <1>1, <1>3, <1>6, <1>7, <2>1, <2>3, OrderSame DEF TaskInside
  <2>8. CountInv'
    <3>1. Handed' = Handed
      BY <2>1, <2>2 DEF Handed
    <3>2. QED
      BY <1>1, <1>3, <2>1, <3>1, CountSame
  <2>9. QED
    BY <2>4, <2>5, <2>6, <2>7, <2>8 DEF Step
<1>8. CASE TaskDel
  <2>1. /\ pc["task"] = "del" /\ tre_rp' = NextSlot(tre_rp)
        /\ pc' = [pc EXCEPT !["task"] = "cb"]
        /\ UNCHANGED <<buf_rp, hand, target, events, bell, sent, got, returned, pending_pkts>>
    BY <1>8 DEF TaskDel, task, ledger
  <2>2. pc'["task"] = "cb"
    BY <1>2, <2>1 DEF Procs
  <2>3. Along /\ Completing /\ tre_rp # target /\ buf_rp = NextSlot(tre_rp)
    BY <1>6, <1>8, <2>1 DEF TaskInside, RingInv
  <2>4. Dist(target) >= 1 /\ Dist(target) \in Int
    <3>1. Dist(target) \in 0 .. N - 1
      OBVIOUS
    <3>2. Dist(target) # 0
      BY <2>3, Accounting DEF Dist
    <3>3. QED
      BY <3>1, <3>2
  <2>5. \A x \in Slots : Dist(x) >= 1 => Used(NextSlot(tre_rp), x) = Dist(x) - 1
    BY Nearer DEF Dist
  <2>6. /\ Dist(target) <= Dist(m_rp) /\ From(tre_rp, events, target)
        /\ Ordered(tre_rp, events, Dist(m_rp))
        /\ Dist(m_rp) <= Dist(m_wp) /\ Dist(m_wp) <= Dist(ctxt_wp) /\ Dist(ctxt_wp) <= Dist(tre_wp)
        /\ kick => Dist(m_wp) <= Dist(db) /\ Dist(db) <= Dist(ctxt_wp)
    BY <2>3 DEF Along
  <2> DEFINE D(x) == Used(NextSlot(tre_rp), x)
  <2>7. /\ D(target) = Dist(target) - 1 /\ D(m_rp) = Dist(m_rp) - 1 /\ D(m_wp) = Dist(m_wp) - 1
        /\ D(ctxt_wp) = Dist(ctxt_wp) - 1 /\ D(tre_wp) = Dist(tre_wp) - 1
        /\ kick => D(db) = Dist(db) - 1
    <3>1. /\ Dist(m_rp) \in Int /\ Dist(m_wp) \in Int /\ Dist(ctxt_wp) \in Int
          /\ Dist(tre_wp) \in Int /\ Dist(db) \in Int
      OBVIOUS
    <3>2. /\ Dist(m_rp) >= 1 /\ Dist(m_wp) >= 1 /\ Dist(ctxt_wp) >= 1 /\ Dist(tre_wp) >= 1
          /\ kick => Dist(db) >= 1
      BY <2>4, <2>6, <3>1
    <3>3. QED
      BY <2>4, <2>5, <3>2
  <2> HIDE DEF D
  <2>8. Ordered(NextSlot(tre_rp), events, Dist(m_rp) - 1) /\ From(NextSlot(tre_rp), events, target)
    BY <2>3, <2>6, ReleaseOrdered
  <2>9. /\ D(m_rp) <= D(m_wp) /\ D(m_wp) <= D(ctxt_wp) /\ D(ctxt_wp) <= D(tre_wp)
        /\ kick => D(m_wp) <= D(db) /\ D(db) <= D(ctxt_wp)
        /\ D(target) <= D(m_rp)
        /\ Ordered(NextSlot(tre_rp), events, D(m_rp))
    <3>1. /\ Dist(m_rp) \in Int /\ Dist(m_wp) \in Int /\ Dist(ctxt_wp) \in Int
          /\ Dist(tre_wp) \in Int /\ Dist(db) \in Int /\ Dist(target) \in Int
      OBVIOUS
    <3>2. /\ D(m_rp) <= D(m_wp) /\ D(m_wp) <= D(ctxt_wp) /\ D(ctxt_wp) <= D(tre_wp)
          /\ D(target) <= D(m_rp)
      BY <2>6, <2>7, <3>1
    <3>3. ASSUME kick PROVE D(m_wp) <= D(db) /\ D(db) <= D(ctxt_wp)
      <4>1. /\ D(m_wp) = Dist(m_wp) - 1 /\ D(ctxt_wp) = Dist(ctxt_wp) - 1 /\ D(db) = Dist(db) - 1
            /\ Dist(m_wp) <= Dist(db) /\ Dist(db) <= Dist(ctxt_wp)
        BY <2>6, <2>7, <3>3
      <4>2. QED
        BY <3>1, <4>1
    <3>4. QED
      BY <2>7, <2>8, <3>2, <3>3
  <2>10. Along'
    BY <1>1, <1>4, <2>1, <2>8, <2>9 DEF Along, Dist, D, bell
  <2>11. OrderInv'
    BY <1>3, <1>4, <2>1, <2>10 DEF OrderInv, bell
  <2>12. DataInv'
    BY <1>1, <2>1, NextSlotType DEF DataInv
  <2>13. PcInv'
    BY <1>1, <1>2, <2>1, <2>2 DEF PcInv
  <2>14. RingInv'
    <3>1. ~Full(tre_rp, tre_wp) /\ D(tre_wp) = Dist(tre_wp) - 1 => ~Full(NextSlot(tre_rp), tre_wp)
      <4>1. NextSlot(tre_rp) \in Slots
        BY NextSlotType
      <4>2. Full(NextSlot(tre_rp), tre_wp) => D(tre_wp) = N - 1
        BY <4>1, Accounting DEF D
      <4>3. QED
        BY <4>2
    <3>2. QED
      BY <1>1, <1>2, <2>1, <2>2, <2>3, <2>7, <3>1 DEF RingInv
  <2>15. CountInv'
    <3>1. Handed = 0 /\ Handed' = 1
      BY <2>1, <2>2 DEF Handed
    <3>2. Dist(tre_wp)' = Dist(tre_wp) - 1
      BY <1>1, <2>1, <2>7 DEF Dist, D
    <3>3. Written \in Int
      BY DEF Written
    <3>4. QED
      BY <1>1, <1>3, <2>1, <3>1, <3>2, <3>3 DEF CountInv
  <2>16. QED
    BY <2>11, <2>12, <2>13, <2>14, <2>15 DEF Step
<1>9. CASE TaskCallback
  <2>1. /\ pc["task"] = "cb" /\ Give(hand, "done") /\ hand' = 0
        /\ pc' = [pc EXCEPT !["task"] = "loop"]
        /\ UNCHANGED <<tre_rp, buf_rp, target, events, bell>>
    BY <1>9 DEF TaskCallback, rings
  <2>2. pc'["task"] = "loop"
    BY <1>2, <2>1 DEF Procs
  <2>3. /\ got' \in Seq(Buffers) /\ returned' \in Seq(Fates) /\ sent' = sent
        /\ Len(returned)' = Len(returned) + 1
        /\ pending_pkts' = IF Uplink THEN pending_pkts - 1 ELSE pending_pkts
    BY <2>1, GiveKeeps DEF DataInv
  <2>4. DataInv'
    <3>1. 0 \in Buffers
      BY DEF Buffers
    <3>2. QED
      BY <1>1, <2>1, <2>3, <3>1 DEF DataInv
  <2>5. PcInv'
    BY <1>1, <1>2, <2>2, <2>3 DEF PcInv
  <2>6. RingInv'
    BY <1>1, <1>2, <2>1, <2>2 DEF RingInv
  <2>7. OrderInv'
    BY <1>1, <1>3, <1>6, <1>9, <2>1, OrderSame DEF TaskInside
  <2>8. CountInv'
    <3>1. Handed = 1 /\ Handed' = 0 /\ Dist(tre_wp)' = Dist(tre_wp)
      BY <1>1, <2>1, <2>2 DEF Handed, Dist
    <3>2. Written \in Int /\ Uncounted \in Int
      BY DEF Written, Uncounted
    <3>3. Dist(tre_wp) \in Int /\ Len(returned) \in Int /\ sent \in Int
      OBVIOUS
    <3>4. Len(returned)' + Dist(tre_wp)' + Written' + Handed' <= sent'
      <4>1. /\ Len(returned)' = Len(returned) + 1 /\ sent' = sent /\ Written' = Written
            /\ Len(returned) + Dist(tre_wp) + Written + Handed <= sent
        BY <1>3, <2>3 DEF CountInv
      <4>2. QED
        BY <3>1, <3>2, <3>3, <4>1
    <3>5. pending_pkts' = IF Uplink THEN sent' - Uncounted' - Len(returned)' ELSE 0
      BY <1>3, <2>3, <3>2, <3>3 DEF CountInv
    <3>6. QED
      BY <3>4, <3>5 DEF CountInv
  <2>9. QED
    BY <2>4, <2>5, <2>6, <2>7, <2>8 DEF Step
<1>10. QED
  BY <1>5, <1>7, <1>8, <1>9 DEF Task, TaskInside

\* The modem reports what it has moved, and moves no more than it knows of.
LEMMA ModemKeeps ==
  ASSUME IInv, Modem \/ ModemLeave
  PROVE  Step
<1>1. /\ UNCHANGED <<tre, buf, tre_rp, tre_wp, buf_rp, buf_wp, base, ctxt_wp, db, db_mode, m_on, ch_state,
                     pm_state, m0_ring, pc, hand, target, sent, returned, pending_pkts, inline, budget>>
      /\ m_on
  BY DEF Modem, ModemKick, ModemPoll, ModemMove, ModemLeave, rings, bell, link, task, ledger
<1>2. Live' = Live /\ Completing' = Completing /\ RingInv' /\ PcInv'
  BY <1>1 DEF IInv, Live, Completing, RingInv, PcInv, At
<1>3. CountInv'
  BY <1>1, CountSame DEF IInv, Written, Handed, Uncounted
<1>4. Live
  BY <1>1 DEF IInv, TokenInv, Quiet, Live
<1>5. Along
  BY <1>4 DEF IInv, OrderInv
<1>6. got' = got => DataInv'
  BY <1>1 DEF IInv, DataInv
<1> USE Types DEF IInv
<1>7. CASE ModemKick
  <2>1. /\ kick /\ kick' = FALSE /\ m_wp' = db /\ m_burst' = Burst
        /\ UNCHANGED <<m_rp, events, got>>
    BY <1>7 DEF ModemKick, ledger
  <2>2. Along'
    <3>1. /\ Dist(m_rp) <= Dist(db) /\ Dist(db) <= Dist(ctxt_wp) /\ Dist(ctxt_wp) <= Dist(tre_wp)
      <4>1. Dist(m_rp) \in Int /\ Dist(m_wp) \in Int /\ Dist(db) \in Int
        OBVIOUS
      <4>2. QED
        BY <1>5, <2>1, <4>1 DEF Along
    <3>2. QED
      BY <1>1, <1>2, <1>5, <2>1, <3>1 DEF Along, Dist
  <2>3. Burst => (db_mode => FALSE)
    BY <1>1, <2>1 DEF OrderInv
  <2>4. OrderInv'
    BY <1>1, <2>1, <2>2, <2>3 DEF OrderInv
  <2>5. QED
    BY <1>2, <1>3, <1>6, <2>1, <2>4 DEF Step
<1>8. CASE ModemPoll
  <2>1. m_burst /\ m_wp' = ctxt_wp /\ UNCHANGED <<kick, m_burst, m_rp, events, got>>
    BY <1>8 DEF ModemPoll, bell, ledger
  <2>2. ~kick
    BY <1>1, <2>1 DEF OrderInv
  <2>3. Along'
    <3>1. Dist(m_rp) <= Dist(ctxt_wp) /\ Dist(ctxt_wp) <= Dist(ctxt_wp)
      <4>1. Dist(m_rp) \in Int /\ Dist(m_wp) \in Int /\ Dist(ctxt_wp) \in Int
        OBVIOUS
      <4>2. QED
        BY <1>5, <4>1 DEF Along
    <3>2. QED
      BY <1>1, <1>2, <1>5, <2>1, <2>2, <3>1 DEF Along, Dist
  <2>4. OrderInv'
    BY <1>1, <2>1, <2>3 DEF OrderInv
  <2>5. QED
    BY <1>2, <1>3, <1>6, <2>1, <2>4 DEF Step
<1>9. CASE ModemLeave
  <2>1. /\ m_burst' = FALSE /\ UNCHANGED <<kick, m_rp, m_wp, got>>
        /\ events' = Append(events, [type |-> "OOB", ptr |-> m_rp])
    BY <1>9 DEF ModemLeave, bell, ledger
  <2>2. [type |-> "OOB", ptr |-> m_rp] \in Notes /\ Dist(m_rp) \in Int
    BY DEF Notes
  <2>3. Ordered(tre_rp, events, Dist(m_rp))
    BY <1>5 DEF Along
  <2>4. /\ Ordered(tre_rp, events', Dist(m_rp))
        /\ Dist(target) <= Dist(m_rp) /\ From(tre_rp, events, target)
             => From(tre_rp, events', target)
    BY <2>1, <2>2, <2>3, ReportOrdered DEF Dist
  <2>5. Along'
    BY <1>1, <1>2, <1>5, <2>1, <2>4 DEF Along, Dist
  <2>6. OrderInv'
    BY <1>1, <2>1, <2>5 DEF OrderInv
  <2>7. QED
    BY <1>2, <1>3, <1>6, <2>1, <2>6 DEF Step
<1>10. CASE ModemMove
  <2>1. UNCHANGED <<kick, m_burst, m_wp>>
    BY <1>10 DEF ModemMove, bell
  <2>2. PICK k \in 1 .. Used(m_rp, m_wp) :
          /\ m_rp' = Ahead(m_rp, k)
          /\ got' = got \o SubSeq(Between(tre, m_rp, m_wp), 1, k)
          /\ events' = Append(events, [type |-> "EOT", ptr |-> Ahead(m_rp, k - 1)])
    BY <1>10 DEF ModemMove
  <2>3. /\ m_rp' \in Slots /\ Ahead(m_rp, k - 1) \in Slots
        /\ NextSlot(Ahead(m_rp, k - 1)) = m_rp'
        /\ Dist(m_rp) <= Used(tre_rp, m_rp') /\ Used(tre_rp, m_rp') <= Dist(m_wp)
    <3>1. Used(tre_rp, m_rp) <= Used(tre_rp, m_wp)
      BY <1>5 DEF Along, Dist
    <3>2. /\ Ahead(m_rp, k) \in Slots /\ Ahead(m_rp, k - 1) \in Slots
          /\ NextSlot(Ahead(m_rp, k - 1)) = Ahead(m_rp, k)
          /\ Used(tre_rp, m_rp) <= Used(tre_rp, Ahead(m_rp, k))
          /\ Used(tre_rp, Ahead(m_rp, k)) <= Used(tre_rp, m_wp)
      BY <3>1, AheadDist
    <3>3. QED
      BY <2>2, <3>2 DEF Dist
  <2>4. [type |-> "EOT", ptr |-> Ahead(m_rp, k - 1)] \in Notes
    BY <2>3 DEF Notes
  <2>5. Dist(m_rp) \in Int /\ Used(tre_rp, m_rp') \in Int
    BY <2>3, Accounting
  <2>6. Ordered(tre_rp, events, Dist(m_rp))
    BY <1>5 DEF Along
  <2>7. /\ Ordered(tre_rp, events', Used(tre_rp, m_rp'))
        /\ Dist(target) <= Dist(m_rp) /\ From(tre_rp, events, target)
             => From(tre_rp, events', target)
    BY <2>2, <2>3, <2>4, <2>5, <2>6, ReportOrdered DEF Dist
  <2>8. Along'
    <3>1. Dist(target) <= Dist(m_rp) => Dist(target) <= Used(tre_rp, m_rp')
      BY <2>3, <2>5
    <3>2. QED
      BY <1>1, <1>2, <1>5, <2>1, <2>3, <2>7, <3>1 DEF Along, Dist
  <2>9. OrderInv'
    BY <1>1, <2>1, <2>8 DEF OrderInv
  <2>10. got' \in Seq(Buffers)
    <3>1. \A i \in 1 .. k : Between(tre, m_rp, m_wp)[i] \in Buffers
      <4>1. Used(m_rp, m_wp) \in 0 .. N - 1 /\ k \in Int /\ k <= Used(m_rp, m_wp)
        BY Accounting
      <4>2. \A i \in 1 .. Used(m_rp, m_wp) : Ahead(m_rp, i - 1) \in Slots
        <5>1. m_rp \in 0 .. N - 1 /\ N \in Nat
          BY RingAssumption DEF Slots
        <5>2. SUFFICES ASSUME NEW i \in 1 .. Used(m_rp, m_wp) PROVE Ahead(m_rp, i - 1) \in 0 .. N - 1
          BY DEF Slots
        <5>3. i \in Int /\ 1 <= i /\ i <= N - 1
          BY <4>1, <5>1
        <5>4. QED
          BY <5>1, <5>3 DEF Ahead
      <4>3. \A i \in 1 .. Used(m_rp, m_wp) : Between(tre, m_rp, m_wp)[i] \in Buffers
        BY <4>2 DEF Between, DataInv
      <4>4. QED
        BY <4>1, <4>3
    <3>2. SubSeq(Between(tre, m_rp, m_wp), 1, k) \in Seq(Buffers)
      BY <3>1, SubSeqProperties
    <3>3. QED
      BY <2>2, <3>2, ConcatProperties DEF DataInv
  <2>11. DataInv'
    BY <1>1, <2>10 DEF DataInv
  <2>12. QED
    BY <1>2, <1>3, <2>9, <2>11 DEF Step
<1>11. QED
  BY <1>7, <1>8, <1>9, <1>10 DEF Modem

\* The link rings, falls silent and comes back.
LEMMA LinkKeeps ==
  ASSUME IInv, Link
  PROVE  Step
<1>1. /\ UNCHANGED <<tre, buf, tre_rp, tre_wp, buf_rp, buf_wp, base, ch_state, pc, hand, target, sent,
                     got, returned, pending_pkts, inline>>
      /\ UNCHANGED <<m_burst, m_rp, m_wp>>
  BY DEF Link, GoLow, WakeM0, RingM0, Crash, Recover, rings, modem, task, ledger, Spend
<1>2. Live' = Live /\ Completing' = Completing /\ RingInv' /\ PcInv'
  BY <1>1 DEF IInv, Live, Completing, RingInv, PcInv, At
<1>3. CountInv'
  BY <1>1, CountSame DEF IInv, Written, Handed, Uncounted
<1>4. DataInv'
  <2>1. pm_state' \in {"M0", "LOW", "ERR"} /\ m0_ring' \in BOOLEAN
    BY DEF Link, GoLow, WakeM0, RingM0, Crash, Recover, IInv, DataInv
  <2>2. budget' \in [{"low", "cycle", "crash"} -> Nat]
    <3>1. UNCHANGED budget \/ Spend("low") \/ Spend("crash")
      BY DEF Link, GoLow, WakeM0, RingM0, Crash, Recover
    <3>2. QED
      BY <3>1 DEF Spend, IInv, DataInv
  <2>3. QED
    BY <1>1, <2>1, <2>2 DEF IInv, DataInv
<1>5. OrderInv'
  <2>1. CASE GoLow \/ WakeM0
    BY <1>1, <1>2, <2>1, OrderSame DEF GoLow, WakeM0, IInv
  <2>2. CASE RingM0
    <3>1. UNCHANGED <<modem, events>> /\ (RingChanDb(tre_wp) \/ UNCHANGED bell)
      BY <2>2 DEF RingM0
    <3>2. QED
      BY <1>1, <1>2, <3>1, OrderSame, RungOrder DEF IInv
  <2>3. CASE Crash
    <3>1. m_on' = FALSE /\ UNCHANGED <<bell, events>>
      BY <2>3 DEF Crash
    <3>2. Along => Along'
      BY <1>1, <1>2, <3>1 DEF Along, Dist, bell
    <3>3. QED
      BY <1>1, <1>2, <3>1, <3>2 DEF IInv, OrderInv
  <2>4. CASE Recover
    <3>1. ~Live /\ UNCHANGED <<bell, modem>>
      BY <2>4 DEF Recover, Live, At
    <3>2. QED
      BY <1>2, <3>1 DEF IInv, OrderInv, bell, modem
  <2>5. QED
    BY <2>1, <2>2, <2>3, <2>4 DEF Link
<1>6. QED
  BY <1>2, <1>3, <1>4, <1>5 DEF Step

\* The channel is prepared with everything at the start of the ring.
LEMMA PrepareKeeps ==
  ASSUME IInv, Prepare
  PROVE  Step
<1>1. /\ pc["life"] = "idle" /\ pc["client"] = "closed" /\ ch_state = "DISABLED"
      /\ base' = TRUE /\ buf' = [i \in Slots |-> 0]
      /\ tre_rp' = 0 /\ tre_wp' = 0 /\ buf_rp' = 0 /\ buf_wp' = 0
      /\ ctxt_wp' = 0 /\ db' = db /\ kick' = FALSE /\ db_mode' = TRUE
      /\ m_on' = TRUE /\ m_burst' = FALSE /\ m_rp' = 0 /\ m_wp' = 0
      /\ pc' = [pc EXCEPT !["client"] = "idle"]
  BY DEF Prepare, At, Goto
<1>2. UNCHANGED <<tre, events, pm_state, m0_ring, hand, target, sent, got, returned, pending_pkts, inline,
                  budget>>
  BY DEF Prepare, link, task, ledger
<1>3. /\ pc'["client"] = "idle" /\ pc'["task"] = pc["task"] /\ pc'["life"] = pc["life"]
      /\ pc["task"] = "idle"
  BY <1>1 DEF IInv, LifeInv, Procs, Completing, PcInv
<1>4. events = <<>>
  BY <1>1 DEF IInv, TokenInv, Quiet, At
<1>5. 0 \in Slots /\ 0 \in Buffers /\ Used(0, 0) = 0
  BY RingAssumption, Types DEF Slots, Buffers, Used
<1>6. DataInv'
  BY <1>1, <1>2, <1>5 DEF IInv, DataInv
<1>7. PcInv'
  BY <1>2, <1>3 DEF IInv, PcInv
<1>8. RingInv'
  BY <1>1, <1>3 DEF RingInv, At
<1>9. Along'
  <2>1. Ordered(tre_rp, events, Dist(m_rp))'
    BY <1>2, <1>4 DEF Ordered
  <2>2. ~Completing'
    BY <1>3 DEF Completing
  <2>3. QED
    BY <1>1, <1>5, <2>1, <2>2 DEF Along, Dist
<1>10. OrderInv'
  BY <1>1, <1>9 DEF OrderInv
<1>11. CountInv'
  <2>1. /\ Written = 0 /\ Written' = 0 /\ Handed = 0 /\ Handed' = 0 /\ Uncounted = 0 /\ Uncounted' = 0
    BY <1>1, <1>3 DEF Written, Handed, Uncounted
  <2>2. Dist(tre_wp)' = 0 /\ Dist(tre_wp) \in Nat
    BY <1>1, <1>5, Types DEF Dist
  <2>3. QED
    BY <1>2, <2>1, <2>2, Types DEF IInv, CountInv
<1>12. QED
  BY <1>6, <1>7, <1>8, <1>10, <1>11 DEF Step

\* What is left in the ring is given back, at most once.
LEMMA DrainKeeps ==
  ASSUME IInv, Drain
  PROVE  Step
<1>1. /\ pc["life"] = "drain" /\ tre_rp # tre_wp
      /\ Give(buf[buf_rp], "notconn")
      /\ buf_rp' = NextSlot(buf_rp) /\ tre_rp' = NextSlot(tre_rp)
      /\ UNCHANGED <<tre, buf, tre_wp, buf_wp, base, bell, ch_state, modem, events, pm_state, m0_ring, pc,
                     hand, target, inline, budget>>
  BY DEF Drain, At, link, task
<1>2. ch_state # "ENABLED" /\ pc["task"] = "idle"
  BY <1>1 DEF IInv, LifeInv, At, Completing
<1> USE Types DEF IInv
<1>3. /\ got' \in Seq(Buffers) /\ returned' \in Seq(Fates) /\ sent' = sent
      /\ Len(returned)' = Len(returned) + 1
      /\ pending_pkts' = IF Uplink THEN pending_pkts - 1 ELSE pending_pkts
  BY <1>1, GiveKeeps DEF DataInv
<1>4. DataInv'
  BY <1>1, <1>3, NextSlotType DEF DataInv
<1>5. PcInv'
  BY <1>1, <1>3 DEF PcInv
<1>6. Dist(tre_wp)' = Dist(tre_wp) - 1
  BY <1>1, OneMoreOneLess DEF Dist
<1>7. RingInv'
  <2>1. ~Full(NextSlot(tre_rp), tre_wp)
    <3>1. NextSlot(tre_rp) \in Slots /\ Dist(tre_wp) \in 0 .. N - 1
      BY NextSlotType
    <3>2. Full(NextSlot(tre_rp), tre_wp) => Used(NextSlot(tre_rp), tre_wp) = N - 1
      BY <3>1, Accounting
    <3>3. QED
      BY <1>1, <1>6, <3>1, <3>2 DEF Dist
  <2>2. QED
    BY <1>1, <1>2, <2>1 DEF RingInv, At
<1>8. OrderInv'
  BY <1>1, <1>2 DEF OrderInv, Live, At, bell, modem
<1>9. CountInv'
  <2>1. /\ UNCHANGED <<Written, Handed, Uncounted>>
        /\ Written \in Int /\ Handed \in Int /\ Uncounted \in Int
    BY <1>1 DEF Written, Handed, Uncounted
  <2>2. Dist(tre_wp) \in Int /\ Len(returned) \in Int /\ sent \in Int
    OBVIOUS
  <2>3. Len(returned)' + Dist(tre_wp)' + Written' + Handed' <= sent'
    BY <1>3, <1>6, <2>1, <2>2 DEF CountInv
  <2>4. pending_pkts' = IF Uplink THEN sent' - Uncounted' - Len(returned)' ELSE 0
    BY <1>3, <2>1, <2>2 DEF CountInv
  <2>5. QED
    BY <2>3, <2>4 DEF CountInv
<1>10. QED
  BY <1>4, <1>5, <1>7, <1>8, <1>9 DEF Step

\* The other steps of a channel's life move nothing in the rings, and leave the time in which the
\* order of the pointers matters.
LEMMA LifeKeeps ==
  ASSUME IInv, Unprepare \/ ResetDone \/ Remove \/ Drained \/ Leave \/ Deinit
  PROVE  Step
<1>1. UNCHANGED <<tre, buf, tre_rp, tre_wp, buf_rp, buf_wp, bell, m_burst, m_rp, m_wp, pm_state, m0_ring,
                  hand, target, sent, got, returned, pending_pkts, inline>>
  BY DEF Unprepare, ResetDone, Remove, Drained, Leave, Deinit, rings, modem, link, task, ledger, Spend
<1>2. /\ pc'["task"] = pc["task"]
      /\ \/ pc'["client"] = pc["client"]
         \/ pc["client"] = "idle" /\ pc'["client"] = "closed"
      /\ pc'["life"] \in {"idle", "reset", "drain", "wait", "deinit"}
  BY DEF Unprepare, ResetDone, Remove, Drained, Leave, Deinit, MarkStale, Goto, At, IInv, LifeInv, Procs
<1>3. PcInv'
  BY <1>1, <1>2 DEF IInv, PcInv
<1>4. RingInv'
  BY <1>1, <1>2 DEF IInv, RingInv, At
<1>5. CountInv'
  <2>1. UNCHANGED <<Written, Handed, Uncounted>>
    BY <1>1, <1>2 DEF Written, Handed, Uncounted
  <2>2. QED
    BY <1>1, <2>1, CountSame DEF IInv
<1>6. DataInv'
  <2>1. budget' \in [{"low", "cycle", "crash"} -> Nat]
    <3>1. UNCHANGED budget \/ Spend("cycle")
      BY DEF Unprepare, ResetDone, Remove, Drained, Leave, Deinit
    <3>2. QED
      BY <3>1 DEF Spend, IInv, DataInv
  <2>2. base' \in BOOLEAN
    <3>1. base' = base \/ base' = FALSE
      BY DEF Unprepare, ResetDone, Remove, Drained, Leave, Deinit, rings
    <3>2. QED
      BY <3>1 DEF IInv, DataInv
  <2>3. QED
    BY <1>1, <2>1, <2>2 DEF IInv, DataInv
<1>7. OrderInv'
  <2>1. /\ m_burst => Burst
        /\ Burst /\ m_on' => (db_mode => ~kick /\ ~m_burst) /\ ~(kick /\ m_burst)
    <3>1. m_on' = m_on \/ m_on' = FALSE
      BY DEF Unprepare, ResetDone, Remove, Drained, Leave, Deinit, modem
    <3>2. QED
      BY <3>1 DEF IInv, OrderInv
  <2>2. CASE Unprepare
    <3>1. /\ Live /\ Completing' = Completing
          /\ UNCHANGED events
      BY <1>2, <2>2 DEF Unprepare, Live, Completing
    <3>2. Along'
      BY <1>1, <3>1 DEF IInv, OrderInv, Along, Dist, bell
    <3>3. QED
      BY <1>1, <2>1, <3>2 DEF OrderInv, bell
  <2>3. CASE ResetDone \/ Remove \/ Drained \/ Leave \/ Deinit
    <3>1. ~Live'
      BY <2>3 DEF ResetDone, Remove, Drained, Leave, Deinit, MarkStale, Goto, At, IInv, LifeInv, Procs,
                  Live
    <3>2. QED
      BY <1>1, <2>1, <3>1 DEF OrderInv, bell
  <2>4. QED
    BY <2>2, <2>3
<1>8. QED
  BY <1>3, <1>4, <1>5, <1>6, <1>7 DEF Step

-----------------------------------------------------------------------------
(* The invariant.                                                          *)

\* A channel that nobody has opened is in order.
LEMMA StartsWell == Init => IInv
<1> SUFFICES ASSUME Init PROVE IInv
  OBVIOUS
<1>1. LifeInv
  BY LifeInit
<1>2. 0 \in Slots /\ 0 \in Buffers /\ Used(0, 0) = 0
  BY RingAssumption, XferAssumption DEF Slots, Buffers, Used
<1>3. TokenInv
  BY TokenInit
<1>4. DataInv
  <2>1. Crashes \in Nat /\ BufCrashes \in Nat /\ Lows \in Nat /\ Cycles \in Nat /\ Kinds \subseteq BOOLEAN
    BY XferAssumption
  <2>2. budget \in [{"low", "cycle", "crash"} -> Nat]
    BY <2>1 DEF Init
  <2>3. inline \in BOOLEAN
    BY <2>1 DEF Init
  <2>4. got \in Seq(Buffers) /\ returned \in Seq(Fates)
    BY EmptySeq DEF Init
  <2>5. QED
    BY <1>2, <2>2, <2>3, <2>4 DEF Init, DataInv
<1>5. PcInv /\ RingInv
  BY DEF Init, PcInv, RingInv, At
<1>6. OrderInv
  BY DEF Init, OrderInv, Live, At
<1>7. CountInv
  <2>1. Written = 0 /\ Handed = 0 /\ Uncounted = 0
    BY DEF Init, Written, Handed, Uncounted
  <2>2. Dist(tre_wp) = 0 /\ Len(returned) = 0 /\ sent = 0 /\ pending_pkts = 0
    BY <1>2, EmptySeq DEF Init, Dist
  <2>3. QED
    BY <2>1, <2>2 DEF CountInv
<1>8. QED
  BY <1>1, <1>3, <1>4, <1>5, <1>6, <1>7 DEF IInv

\* Every step of every actor keeps the invariant.
LEMMA StaysWell == IInv /\ [Next]_vars => IInv'
<1> SUFFICES ASSUME IInv, [Next]_vars PROVE IInv'
  OBVIOUS
<1>1. LifeInv' /\ TokenInv'
  BY LifeTokenStep DEF IInv
<1>2. CASE UNCHANGED vars
  <2>1. /\ UNCHANGED <<tre, buf, tre_rp, tre_wp, buf_rp, buf_wp, base, bell, ch_state, modem, events,
                       pm_state, m0_ring, pc, hand, target, sent, got, returned, pending_pkts, inline,
                       budget>>
    BY <1>2 DEF vars, rings, link, task, ledger
  <2>2. DataInv' /\ PcInv' /\ RingInv'
    BY <2>1 DEF IInv, DataInv, PcInv, RingInv, At
  <2>3. OrderInv'
    BY <2>1, OrderSame DEF IInv, Live, Completing, At
  <2>4. CountInv'
    BY <2>1, CountSame DEF IInv, Written, Handed, Uncounted
  <2>5. QED
    BY <1>1, <2>2, <2>3, <2>4 DEF IInv
<1>3. CASE Next
  <2>1. Step
    BY <1>3, ClientKeeps, TaskKeeps, ModemKeeps, LinkKeeps, PrepareKeeps, DrainKeeps, LifeKeeps
       DEF Next, Teardown
  <2>2. QED
    BY <1>1, <2>1 DEF IInv, Step
<1>4. QED
  BY <1>2, <1>3

\* Whoever may fill the transfer ring finds room in the buffer ring, though the task releases
\* the buffer first and the transfer element after it.
LEMMA RoomForBuf == IInv => SpaceForBuf
<1> SUFFICES ASSUME IInv, pc["client"] \in {"lock", "fill"} PROVE ~Full(buf_rp, buf_wp)
  BY DEF SpaceForBuf
<1> USE Types
<1>1. ~Full(tre_rp, tre_wp) /\ buf_wp = tre_wp
  BY DEF IInv, RingInv, At
<1>2. CASE pc["task"] # "del"
  BY <1>1, <1>2 DEF IInv, RingInv, At
<1>3. CASE pc["task"] = "del"
  <2>1. buf_rp = NextSlot(tre_rp) /\ tre_rp # target
    BY <1>3 DEF IInv, RingInv, At
  <2>2. Along /\ Completing
    BY <1>3 DEF IInv, LifeInv, OrderInv, Live, Completing
  <2>3. Dist(target) \in 0 .. N - 1 /\ Dist(target) # 0
    BY <2>1, Accounting DEF Dist
  <2>4. /\ Dist(m_rp) \in Int /\ Dist(m_wp) \in Int /\ Dist(ctxt_wp) \in Int
        /\ Dist(tre_wp) \in 0 .. N - 1
    OBVIOUS
  <2>5. Dist(tre_wp) >= 1
    BY <2>2, <2>3, <2>4 DEF Along
  <2>6. Used(buf_rp, tre_wp) = Dist(tre_wp) - 1
    BY <2>1, <2>5, Nearer DEF Dist
  <2>7. Full(buf_rp, tre_wp) => Used(buf_rp, tre_wp) = N - 1
    BY Accounting
  <2>8. QED
    BY <1>1, <2>4, <2>6, <2>7
<1>4. QED
  BY <1>2, <1>3

\* Counts stay in bounds because nothing is returned that was not queued.
LEMMA AllTyped == IInv => TypeOK
<1> SUFFICES ASSUME IInv PROVE TypeOK
  OBVIOUS
<1> USE Types DEF IInv
<1>1. tre \in [Slots -> 0 .. Submits] /\ buf \in [Slots -> 0 .. Submits]
  BY DEF DataInv, Buffers
<1>2. {tre_rp, tre_wp, buf_rp, buf_wp, ctxt_wp, db, m_rp, m_wp, target} \subseteq Slots
  OBVIOUS
<1>3. {inline, base, kick, db_mode, m_on, m_burst, m0_ring} \subseteq BOOLEAN
  BY DEF DataInv, TokenInv, Pointers
<1>4. ch_state \in {"DISABLED", "ENABLED", "SUSPENDED"} /\ pm_state \in {"M0", "LOW", "ERR"}
  BY DEF LifeInv, ChStates, DataInv
<1>5. events \in Seq([type : {"EOT", "OOB"}, ptr : Slots])
  BY DEF Notes
<1>6. DOMAIN pc = DOMAIN Labels /\ \A p \in DOMAIN pc : pc[p] \in Labels[p]
  BY DEF LifeInv, PcInv, Procs, Labels, Calling
<1>7. /\ hand \in 0 .. Submits /\ sent \in 0 .. Submits
      /\ got \in Seq(0 .. Submits) /\ returned \in Seq((0 .. Submits) \X {"done", "notconn"})
      /\ budget \in [{"low", "cycle", "crash"} -> Nat]
  BY DEF DataInv, Buffers, Fates
<1>8. pending_pkts \in -Submits .. Submits
  <2>1. /\ Dist(tre_wp) \in Nat /\ Len(returned) \in Nat /\ sent \in 0 .. Submits /\ Submits \in Nat
        /\ Written \in 0 .. 1 /\ Handed \in 0 .. 1 /\ Uncounted \in 0 .. 1
    BY <1>7 DEF Written, Handed, Uncounted
  <2>2. Len(returned) <= sent
    BY <2>1, SMTT(30) DEF CountInv
  <2>3. pending_pkts = sent - Uncounted - Len(returned) \/ pending_pkts = 0
    BY DEF CountInv
  <2>4. CASE pending_pkts = 0
    BY <2>1, <2>4
  <2>5. CASE pending_pkts = sent - Uncounted - Len(returned)
    <3>1. sent - Uncounted - Len(returned) >= -Submits
      <4>1. Uncounted <= 0 \/ Submits >= 1
        <5>1. Uncounted # 0 => sent >= 1
          BY DEF Uncounted, PcInv
        <5>2. QED
          BY <2>1, <5>1
      <4>2. QED
        BY <2>1, <2>2, <4>1
    <3>2. QED
      BY <2>1, <2>2, <2>5, <3>1
  <2>6. QED
    BY <2>3, <2>4, <2>5
<1>9. QED
  BY <1>1, <1>2, <1>3, <1>4, <1>5, <1>6, <1>7, <1>8 DEF TypeOK

\* The rings are of one size and stay in step, counts stay in bounds, and in burst mode the next
\* word is in one place, whatever the size of the ring, the direction and mode of the channel, and
\* however many errors, suspends and teardowns there are (struct mhi_chan, mhi_queue_skb,
\* parse_xfer_event, mhi_reset_data_chan).
THEOREM ChannelWellFormed == Spec => []WellFormed
<1>1. IInv => BurstToken
  BY TokenMeans DEF IInv
<1>2. IInv => WellFormed
  BY <1>1, AllTyped, RoomForBuf DEF WellFormed
<1>3. QED
  BY <1>2, StartsWell, StaysWell, PTL DEF Spec

-----------------------------------------------------------------------------
(***************************************************************************)
(* What the client of a channel may count on, for rings of any size and    *)
(* any number of disturbances: every buffer it queued is announced,        *)
(* pending_pkts counts those that are not back, and they come back in      *)
(* order, each once.                                                       *)
(*                                                                         *)
(* Announced: ToldInv follows the last doorbell.  A doorbell left out in   *)
(* burst mode is made up for by whoever has the next word, one left out    *)
(* while the link is down by the M0 transition, and one that finds the     *)
(* ring empty was not needed, since then all pointers are in one place.    *)
(*                                                                         *)
(* PendingExact: the inequality of CountInv becomes an equation where a    *)
(* teardown finds no call under way, that is for mhi_queue_skb, and for    *)
(* mhi_queue_buf as long as it meets no error.                             *)
(*                                                                         *)
(* QueueSpec: NumberInv and MovedInv make every queue of XferQueue an      *)
(* interval of buffer numbers, and every step one of its steps.            *)
(***************************************************************************)

Informed ==
  \/ m_wp = ctxt_wp
  \/ kick /\ (db = ctxt_wp \/ Burst)
  \/ m_burst
  \/ ~NoOob(events)

ToldInv ==
  /\ ch_state = "ENABLED" /\ pm_state # "ERR" => m_on
  /\ ch_state = "ENABLED" /\ pm_state = "M0" /\ ~m0_ring =>
       /\ pc["client"] \notin {"adv_buf", "db"} => ctxt_wp = tre_wp
       /\ Informed

-----------------------------------------------------------------------------
(* Every buffer is announced.                                              *)

\* An OOB event stays in the event ring until it is its turn.
LEMMA OobStays ==
  ASSUME NEW s \in Seq(Notes)
  PROVE  /\ \A e \in Notes : ~NoOob(s) \/ e.type = "OOB" => ~NoOob(Append(s, e))
         /\ s # <<>> /\ Head(s).type # "OOB" /\ ~NoOob(s) => ~NoOob(Tail(s))
<1>1. ASSUME NEW e \in Notes, ~NoOob(s) \/ e.type = "OOB" PROVE ~NoOob(Append(s, e))
  <2> DEFINE a == Append(s, e)
  <2>1. /\ Len(a) = Len(s) + 1 /\ Len(s) \in Nat
        /\ \A i \in 1 .. Len(s) : a[i] = s[i]
        /\ a[Len(s) + 1] = e
    BY AppendProperties
  <2> HIDE DEF a
  <2>2. Len(s) + 1 \in 1 .. Len(a) /\ \A i \in 1 .. Len(s) : i \in 1 .. Len(a)
    BY <2>1
  <2>3. ~NoOob(a)
    BY <1>1, <2>1, <2>2 DEF NoOob
  <2>4. QED
    BY <2>3 DEF a
<1>2. ASSUME s # <<>>, Head(s).type # "OOB", ~NoOob(s) PROVE ~NoOob(Tail(s))
  <2> DEFINE t == Tail(s)
  <2>1. /\ Len(s) \in Nat /\ Len(s) >= 1 /\ Len(t) = Len(s) - 1
        /\ \A i \in 1 .. Len(t) : t[i] = s[i + 1]
        /\ Head(s) = s[1]
    BY <1>2, HeadTailProperties, EmptySeq
  <2> HIDE DEF t
  <2>2. PICK i \in 1 .. Len(s) : s[i].type = "OOB"
    BY <1>2 DEF NoOob
  <2>3. i # 1
    BY <1>2, <2>1, <2>2
  <2>4. i - 1 \in 1 .. Len(t) /\ (i - 1) + 1 = i
    BY <2>1, <2>3
  <2>5. t[i - 1] = s[i]
    BY <2>1, <2>4
  <2>6. ~NoOob(t)
    BY <2>2, <2>4, <2>5 DEF NoOob
  <2>7. QED
    BY <2>6 DEF t
<1>3. QED
  BY <1>1, <1>2

\* In an empty ring everybody is where the next element will be.
LEMMA NothingToTell ==
  ASSUME IInv, ch_state = "ENABLED", tre_rp = tre_wp
  PROVE  m_wp = tre_wp /\ ctxt_wp = tre_wp
<1>1. Along
  BY DEF IInv, OrderInv, Live
<1>2. tre_rp \in Slots /\ tre_wp \in Slots /\ m_wp \in Slots /\ ctxt_wp \in Slots
  BY Types
<1>3. Dist(tre_wp) = 0
  BY <1>2, Accounting DEF Dist
<1>4. Dist(m_wp) \in 0 .. N - 1 /\ Dist(ctxt_wp) \in 0 .. N - 1 /\ N \in Nat
  BY Types
<1>5. Dist(ctxt_wp) = 0 /\ Dist(m_wp) = 0
  BY <1>1, <1>3, <1>4 DEF Along
<1>6. tre_rp = ctxt_wp /\ tre_rp = m_wp
  BY <1>2, <1>5, Accounting DEF Dist
<1>7. QED
  BY <1>6

\* A doorbell informs the modem, or burst mode has somebody else who will.
LEMMA RungTold ==
  ASSUME IInv, ch_state = "ENABLED", m_on,
         RingChanDb(tre_wp), UNCHANGED <<tre_wp, modem, events>>
  PROVE  ctxt_wp' = tre_wp' /\ Informed'
<1>1. ctxt_wp' = tre_wp'
  BY DEF RingChanDb
<1>2. CASE Burst /\ ~db_mode
  <2>1. UNCHANGED <<db, kick>>
    BY <1>2 DEF RingChanDb
  <2>2. Word
    BY <1>2 DEF IInv, TokenInv
  <2>3. kick \/ m_burst \/ OneOob(events)
    BY <1>2, <2>2 DEF Word
  <2>4. OneOob(events) => ~NoOob(events)
    BY DEF OneOob, NoOob
  <2>5. (kick /\ Burst) \/ m_burst \/ ~NoOob(events)
    BY <1>2, <2>3, <2>4
  <2>6. UNCHANGED <<m_burst, events, kick>>
    BY <2>1 DEF modem
  <2>7. QED
    BY <1>1, <2>5, <2>6 DEF Informed
<1>3. CASE ~(Burst /\ ~db_mode)
  <2>1. kick' = TRUE /\ db' = ctxt_wp'
    BY <1>3 DEF RingChanDb
  <2>2. QED
    BY <1>1, <2>1 DEF Informed
<1>4. QED
  BY <1>2, <1>3

\* The client's doorbell is the last thing a call does.
LEMMA ClientTold ==
  ASSUME IInv, ToldInv, Client
  PROVE  ToldInv'
<1> USE DEF Returns, Goto, At
<1>1. UNCHANGED <<modem, events, ch_state, pm_state, m0_ring>>
  BY DEF Client, CallGoesOn, Call, LockPm, GenTre, AdvanceTre, AdvanceBuf, Doorbell, link
<1>2. UNCHANGED <<m_on, m_burst, m_wp>>
  BY <1>1 DEF modem
<1>3. pc \in [Procs -> Places]
  BY DEF IInv, LifeInv
<1>4. SUFFICES ASSUME ch_state = "ENABLED", pm_state = "M0", ~m0_ring
               PROVE  /\ pc'["client"] \notin {"adv_buf", "db"} => ctxt_wp' = tre_wp'
                      /\ Informed'
  BY <1>1, <1>2 DEF ToldInv
<1>5. m_on
  BY <1>4 DEF ToldInv
<1>6. /\ pc["client"] \notin {"adv_buf", "db"} => ctxt_wp = tre_wp
      /\ Informed
  BY <1>4 DEF ToldInv
<1>7. UNCHANGED bell => Informed'
  BY <1>1, <1>2, <1>6 DEF Informed, bell
<1>8. CASE Call \/ LockPm \/ GenTre
  <2>1. UNCHANGED <<tre_wp, bell>> /\ pc["client"] \in {"idle", "lock", "fill"}
    BY <1>8 DEF Call, LockPm, GenTre, Fill, rings
  <2>2. QED
    BY <1>6, <1>7, <2>1 DEF bell
<1>9. CASE AdvanceTre
  <2>1. UNCHANGED bell /\ pc'["client"] = "adv_buf"
    BY <1>3, <1>9 DEF AdvanceTre, Procs
  <2>2. QED
    BY <1>7, <2>1
<1>10. CASE AdvanceBuf
  <2>1. CASE inline
    <3>1. RingChanDb(tre_wp) /\ UNCHANGED tre_wp
      BY <1>4, <1>10, <2>1 DEF AdvanceBuf
    <3>2. QED
      BY <1>1, <1>4, <1>5, <3>1, RungTold
  <2>2. CASE ~inline
    <3>1. UNCHANGED bell /\ pc'["client"] = "db"
      BY <1>3, <1>10, <2>2 DEF AdvanceBuf, Procs
    <3>2. QED
      BY <1>7, <3>1
  <2>3. QED
    BY <2>1, <2>2
<1>11. CASE Doorbell
  <2>1. RingChanDb(tre_wp) /\ UNCHANGED tre_wp
    BY <1>4, <1>11 DEF Doorbell, rings
  <2>2. QED
    BY <1>1, <1>4, <1>5, <2>1, RungTold
<1>12. QED
  BY <1>8, <1>9, <1>10, <1>11 DEF Client, CallGoesOn

\* The OOB event is answered with a doorbell, unless there is nothing to tell.
LEMMA TaskTold ==
  ASSUME IInv, ToldInv, Task
  PROVE  ToldInv'
<1>1. UNCHANGED <<tre_wp, modem, ch_state, pm_state, m0_ring>>
  BY DEF Task, TaskEvent, TaskInside, TaskDrop, TaskEot, TaskLoop, TaskDel, TaskCallback, TaskOob, link,
         rings
<1>2. UNCHANGED <<m_on, m_burst, m_wp>>
  BY <1>1 DEF modem
<1>3. pc'["client"] = pc["client"]
  BY DEF Task, TaskEvent, TaskInside, TaskDrop, TaskEot, TaskLoop, TaskDel, TaskCallback, TaskOob, Goto,
         IInv, LifeInv, Procs
<1>4. SUFFICES ASSUME ch_state = "ENABLED", pm_state = "M0", ~m0_ring
               PROVE  /\ pc["client"] \notin {"adv_buf", "db"} => ctxt_wp' = tre_wp
                      /\ Informed'
  BY <1>1, <1>2, <1>3 DEF ToldInv
<1>5. /\ pc["client"] \notin {"adv_buf", "db"} => ctxt_wp = tre_wp
      /\ Informed
  BY <1>4 DEF ToldInv
<1>6. CASE TaskInside
  <2>1. UNCHANGED <<bell, events>>
    BY <1>6 DEF TaskInside, TaskLoop, TaskDel, TaskCallback
  <2>2. QED
    BY <1>2, <1>5, <2>1 DEF Informed, bell
<1>7. CASE TaskDrop
  BY <1>4, <1>7 DEF TaskDrop
<1>8. CASE TaskEot
  <2>1. events # <<>> /\ Head(events).type = "EOT" /\ events' = Tail(events) /\ UNCHANGED bell
    BY <1>8 DEF TaskEot, Event
  <2>2. ~NoOob(events) => ~NoOob(events')
    BY <2>1, Types, OobStays
  <2>3. QED
    BY <1>2, <1>5, <2>1, <2>2 DEF Informed, bell
<1>9. CASE TaskOob
  <2>1. CASE tre_wp # tre_rp
    <3>1. ctxt_wp' = tre_wp /\ db' = tre_wp /\ kick' = TRUE
      BY <1>4, <1>9, <2>1 DEF TaskOob
    <3>2. QED
      BY <3>1 DEF Informed
  <2>2. CASE tre_wp = tre_rp
    <3>1. UNCHANGED ctxt_wp
      BY <1>9, <2>2 DEF TaskOob
    <3>2. QED
      BY <1>2, <1>4, <2>2, <3>1, NothingToTell DEF Informed
  <2>3. QED
    BY <2>1, <2>2
<1>10. QED
  BY <1>6, <1>7, <1>8, <1>9 DEF Task, TaskEvent

\* What the modem has been told it remembers, and it says so when it stops listening.
LEMMA ModemTold ==
  ASSUME IInv, ToldInv, Modem \/ ModemLeave
  PROVE  ToldInv'
<1>1. UNCHANGED <<tre_wp, ctxt_wp, db, m_on, ch_state, pm_state, m0_ring, pc>>
  BY DEF Modem, ModemKick, ModemPoll, ModemMove, ModemLeave, rings, bell, link
<1>2. SUFFICES ASSUME Informed PROVE Informed'
  BY <1>1 DEF ToldInv
<1>3. events \in Seq(Notes) /\ m_rp \in Slots /\ m_wp \in Slots /\ Burst \in BOOLEAN
  BY Types DEF IInv, TokenInv
<1>4. CASE ModemKick
  <2>1. kick /\ m_wp' = db /\ m_burst' = Burst /\ UNCHANGED events
    BY <1>4 DEF ModemKick
  <2>2. CASE Burst
    BY <2>1, <2>2 DEF Informed
  <2>3. CASE ~Burst
    <3>1. Along /\ m_on
      BY <1>4 DEF ModemKick, IInv, TokenInv, Quiet, OrderInv, Live
    <3>2. ~m_burst
      BY <2>3 DEF IInv, OrderInv
    <3>3. CASE db = ctxt_wp
      BY <1>1, <2>1, <3>3 DEF Informed
    <3>4. CASE ~NoOob(events)
      BY <2>1, <3>4 DEF Informed
    <3>5. CASE m_wp = ctxt_wp
      <4>1. Dist(db) = Dist(ctxt_wp)
        <5>1. /\ Dist(m_wp) <= Dist(db) /\ Dist(db) <= Dist(ctxt_wp)
          BY <2>1, <3>1 DEF Along
        <5>2. Dist(m_wp) = Dist(ctxt_wp) /\ Dist(db) \in Int /\ Dist(ctxt_wp) \in Int
          BY <3>5, Types
        <5>3. QED
          BY <5>1, <5>2
      <4>2. db = ctxt_wp
        <5>1. tre_rp \in Slots /\ db \in Slots /\ ctxt_wp \in Slots
          BY Types
        <5>2. QED
          BY <4>1, <5>1, RingAssumption DEF Dist, Used, Slots
      <4>3. QED
        BY <1>1, <2>1, <4>2 DEF Informed
    <3>6. QED
      BY <1>2, <2>3, <3>2, <3>3, <3>4, <3>5 DEF Informed
  <2>4. QED
    BY <2>2, <2>3
<1>5. CASE ModemPoll
  BY <1>1, <1>5 DEF ModemPoll, Informed
<1>6. CASE ModemMove
  <2>1. UNCHANGED <<kick, m_burst, m_wp>>
    BY <1>6 DEF ModemMove, bell
  <2>2. PICK k \in 1 .. Used(m_rp, m_wp) :
          events' = Append(events, [type |-> "EOT", ptr |-> Ahead(m_rp, k - 1)])
    BY <1>6 DEF ModemMove
  <2>3. Ahead(m_rp, k - 1) \in Slots
    <3>1. k \in Int /\ 1 <= k /\ k <= N - 1
      BY <1>3, Accounting
    <3>2. QED
      BY <1>3, <3>1, RingAssumption DEF Slots, Ahead
  <2>4. [type |-> "EOT", ptr |-> Ahead(m_rp, k - 1)] \in Notes
    BY <2>3 DEF Notes
  <2>5. ~NoOob(events) => ~NoOob(events')
    BY <1>3, <2>2, <2>4, OobStays
  <2>6. QED
    BY <1>1, <1>2, <2>1, <2>5 DEF Informed
<1>7. CASE ModemLeave
  <2>1. events' = Append(events, [type |-> "OOB", ptr |-> m_rp])
    BY <1>7 DEF ModemLeave
  <2>2. [type |-> "OOB", ptr |-> m_rp] \in Notes /\ [type |-> "OOB", ptr |-> m_rp].type = "OOB"
    BY <1>3 DEF Notes
  <2>3. ~NoOob(events')
    BY <1>3, <2>1, <2>2, OobStays
  <2>4. QED
    BY <2>3 DEF Informed
<1>8. QED
  BY <1>4, <1>5, <1>6, <1>7 DEF Modem

\* The M0 transition rings for those who could not.
LEMMA LinkTold ==
  ASSUME IInv, ToldInv, Link
  PROVE  ToldInv'
<1>1. UNCHANGED <<tre_rp, tre_wp, ch_state, pc, m_burst, m_wp>>
  BY DEF Link, GoLow, WakeM0, RingM0, Crash, Recover, rings, modem
<1>2. CASE GoLow
  <2>1. pm_state = "M0" /\ pm_state' = "LOW" /\ UNCHANGED m_on
    BY <1>2 DEF GoLow, modem
  <2>2. QED
    BY <1>1, <2>1 DEF ToldInv
<1>3. CASE WakeM0
  <2>1. pm_state = "LOW" /\ m0_ring' = TRUE /\ UNCHANGED m_on
    BY <1>3 DEF WakeM0, modem
  <2>2. QED
    BY <1>1, <2>1 DEF ToldInv
<1>4. CASE RingM0
  <2>1. UNCHANGED <<modem, events, pm_state, m_on>>
    BY <1>4 DEF RingM0, modem
  <2>2. SUFFICES ASSUME ch_state = "ENABLED", pm_state = "M0"
                 PROVE  ctxt_wp' = tre_wp /\ Informed'
    BY <1>1, <2>1 DEF ToldInv
  <2>3. m_on /\ base
    BY <2>2 DEF ToldInv, IInv, LifeInv
  <2>4. CASE tre_wp # tre_rp
    <3>1. RingChanDb(tre_wp)
      BY <1>4, <2>3, <2>4 DEF RingM0
    <3>2. QED
      BY <1>1, <2>1, <2>2, <2>3, <3>1, RungTold
  <2>5. CASE tre_wp = tre_rp
    <3>1. UNCHANGED ctxt_wp
      BY <1>4, <2>5 DEF RingM0, bell
    <3>2. QED
      BY <1>1, <2>2, <2>5, <3>1, NothingToTell DEF Informed
  <2>6. QED
    BY <2>4, <2>5
<1>5. CASE Crash
  <2>1. pm_state' = "ERR"
    BY <1>5 DEF Crash
  <2>2. QED
    BY <2>1 DEF ToldInv
<1>6. CASE Recover
  <2>1. ch_state = "DISABLED"
    BY <1>6 DEF Recover
  <2>2. QED
    BY <1>1, <2>1 DEF ToldInv
<1>7. QED
  BY <1>2, <1>3, <1>4, <1>5, <1>6 DEF Link

\* A prepared channel has nothing to tell, one that is taken down nobody to tell it.
LEMMA ChannelTold ==
  ASSUME IInv, ToldInv, Prepare \/ Unprepare \/ Teardown
  PROVE  ToldInv'
<1>1. CASE Prepare
  <2>1. m_on' = TRUE /\ ctxt_wp' = 0 /\ tre_wp' = 0 /\ m_wp' = 0
    BY <1>1 DEF Prepare
  <2>2. QED
    BY <2>1 DEF ToldInv, Informed
<1>2. CASE Unprepare \/ Teardown
  <2>1. ch_state' # "ENABLED"
    BY <1>2 DEF Unprepare, Teardown, ResetDone, Remove, Drain, Drained, Leave, Deinit, At, IInv, LifeInv
  <2>2. QED
    BY <2>1 DEF ToldInv
<1>3. QED
  BY <1>1, <1>2

\* A queued buffer is announced even when it was queued while the link was down, or while the
\* modem was leaving burst mode, for any ring and any kind of channel (mhi_queue_skb,
\* mhi_queue_buf, mhi_pm_m0_transition, parse_xfer_event).
THEOREM AllAnnounced == Spec => []Announced
<1>1. Init => ToldInv
  BY DEF Init, ToldInv
<1>2. IInv /\ ToldInv /\ [Next]_vars => ToldInv'
  <2> SUFFICES ASSUME IInv, ToldInv, [Next]_vars PROVE ToldInv'
    OBVIOUS
  <2>1. CASE UNCHANGED vars
    <3>1. UNCHANGED <<tre_wp, ctxt_wp, db, kick, m_on, m_burst, m_wp, events, ch_state, pm_state, m0_ring, pc>>
      BY <2>1 DEF vars, rings, bell, modem, link
    <3>2. QED
      BY <3>1 DEF ToldInv, Informed
  <2>2. CASE Next
    BY <2>2, ClientTold, TaskTold, ModemTold, LinkTold, ChannelTold DEF Next
  <2>3. QED
    BY <2>1, <2>2
<1>3. IInv /\ ToldInv => Announced
  <2> SUFFICES ASSUME IInv, ToldInv, Settled
               PROVE  \/ m_wp = tre_wp
                      \/ kick /\ (db = tre_wp \/ (Burst /\ ctxt_wp = tre_wp))
                      \/ m_burst /\ ctxt_wp = tre_wp
                      \/ \E i \in DOMAIN events : events[i].type = "OOB"
    BY DEF Announced
  <2>1. ctxt_wp = tre_wp /\ Informed
    BY DEF Settled, ToldInv, Calling
  <2>2. ~NoOob(events) => \E i \in DOMAIN events : events[i].type = "OOB"
    <3>1. DOMAIN events = 1 .. Len(events)
      BY Types
    <3>2. QED
      BY <3>1 DEF NoOob
  <2>3. QED
    BY <2>1, <2>2 DEF Informed
<1>4. QED
  BY <1>1, <1>2, <1>3, StartsWell, StaysWell, PTL DEF Spec

-----------------------------------------------------------------------------
(* pending_pkts is exact.                                                  *)

NoBufCrash == BufCrashes = 0

\* An error finds no call between its check of pm_state and its end.
ErrInv ==
  /\ ~inline => budget["crash"] = 0 /\ pm_state # "ERR"
  /\ pm_state = "ERR" => pc["client"] \notin {"fill", "adv_tre", "adv_buf", "db"}
  /\ ch_state = "SUSPENDED" => pm_state = "ERR"

\* A channel that has been taken down is empty.
DrainedInv ==
  /\ pc["life"] \in {"wait", "deinit"} => tre_rp = tre_wp
  /\ pc["life"] = "idle" /\ ch_state = "DISABLED" => tre_rp = tre_wp

ExactInv == Len(returned) + Dist(tre_wp) + Written + Handed = sent

LedgerInv == ErrInv /\ DrainedInv /\ ExactInv

\* Nothing is queued, released or returned.
LEMMA ExactSame ==
  ASSUME ExactInv, UNCHANGED <<tre_rp, tre_wp, sent, returned, Written, Handed>>
  PROVE  ExactInv'
  BY DEF ExactInv, Dist

\* What is counted changes in two places at once.
LEMMA ExactMoves ==
  ASSUME IInv, ExactInv,
         \/ sent' = sent + 1 /\ Written' = Written + 1 /\ UNCHANGED <<Len(returned), Dist(tre_wp), Handed>>
         \/ Dist(tre_wp)' = Dist(tre_wp) + 1 /\ Written' = Written - 1
              /\ UNCHANGED <<Len(returned), Handed, sent>>
         \/ Dist(tre_wp)' = Dist(tre_wp) - 1 /\ Handed' = Handed + 1
              /\ UNCHANGED <<Len(returned), Written, sent>>
         \/ Len(returned)' = Len(returned) + 1 /\ Handed' = Handed - 1
              /\ UNCHANGED <<Dist(tre_wp), Written, sent>>
         \/ Len(returned)' = Len(returned) + 1 /\ Dist(tre_wp)' = Dist(tre_wp) - 1
              /\ UNCHANGED <<Written, Handed, sent>>
  PROVE  ExactInv'
<1>1. Dist(tre_wp) \in Int /\ Len(returned) \in Int /\ sent \in Int
  BY Types
<1>2. Written \in Int /\ Handed \in Int
  BY DEF Written, Handed
<1>3. QED
  BY <1>1, <1>2, SMTT(30) DEF ExactInv

\* A call of the client fills the ring, and only while there is no error.
LEMMA ClientLedger ==
  ASSUME IInv, LedgerInv, Client
  PROVE  LedgerInv'
<1> USE DEF Returns, Goto, At
<1>1. /\ UNCHANGED <<tre_rp, ch_state, pm_state, budget, inline, returned>>
      /\ pc \in [Procs -> Places]
  BY DEF Client, CallGoesOn, Call, LockPm, GenTre, AdvanceTre, AdvanceBuf, Doorbell, Fill, rings, link,
         ledger, IInv, LifeInv
<1>2. pc'["task"] = pc["task"] /\ pc'["life"] = pc["life"]
  BY <1>1 DEF Client, CallGoesOn, Call, LockPm, GenTre, AdvanceTre, AdvanceBuf, Doorbell, Fill, Procs
<1>3. Handed' = Handed
  BY <1>2 DEF Handed
<1>4. \/ pc'["client"] \in {"idle", "lock"}
      \/ pc'["client"] = "fill" /\ ~inline
      \/ pc'["client"] = "adv_tre" /\ pm_state # "ERR"
      \/ pc["client"] \in {"adv_tre", "adv_buf"}
  <2>1. CASE Call
    BY <1>1, <2>1 DEF Call, Procs
  <2>2. CASE LockPm
    BY <1>1, <2>2 DEF LockPm, Fill, Procs
  <2>3. CASE GenTre
    <3>1. pm_state # "ERR"
      BY <2>3 DEF GenTre, LedgerInv, ErrInv
    <3>2. QED
      BY <1>1, <2>3, <3>1 DEF GenTre, Fill, Procs
  <2>4. CASE AdvanceTre \/ AdvanceBuf
    BY <2>4 DEF AdvanceTre, AdvanceBuf
  <2>5. CASE Doorbell
    BY <1>1, <2>5 DEF Doorbell, Procs
  <2>6. QED
    BY <2>1, <2>2, <2>3, <2>4, <2>5 DEF Client, CallGoesOn
<1>5. ErrInv'
  BY <1>1, <1>4 DEF LedgerInv, ErrInv
<1>6. DrainedInv'
  <2>1. CASE UNCHANGED tre_wp
    BY <1>1, <1>2, <2>1 DEF LedgerInv, DrainedInv
  <2>2. CASE ~UNCHANGED tre_wp
    <3>1. AdvanceTre
      BY <2>2 DEF Client, CallGoesOn, Call, LockPm, GenTre, AdvanceBuf, Doorbell, Fill, rings
    <3>2. pc["client"] = "adv_tre"
      BY <3>1 DEF AdvanceTre
    <3>3. ch_state = "ENABLED"
      BY <3>2 DEF IInv, LifeInv, ChStates, LedgerInv, ErrInv
    <3>4. pc["life"] = "idle"
      BY <3>3 DEF IInv, LifeInv
    <3>5. QED
      BY <1>1, <1>2, <3>3, <3>4 DEF DrainedInv
  <2>3. QED
    BY <2>1, <2>2
<1>7. ExactInv'
  <2>1. CASE Call
    <3>1. pc["client"] = "idle" /\ pc'["client"] # "adv_tre" /\ UNCHANGED <<tre_wp, sent>>
      BY <1>1, <2>1 DEF Call, rings, ledger, Procs
    <3>2. QED
      BY <1>1, <1>3, <3>1, ExactSame DEF Written, LedgerInv
  <2>2. ASSUME Fill, pc["client"] \in {"lock", "fill"} PROVE ExactInv'
    <3>1. sent' = sent + 1 /\ UNCHANGED tre_wp /\ pc'["client"] = "adv_tre"
      BY <1>1, <2>2 DEF Fill, Procs
    <3>2. Written = 0 /\ Written' = 1
      BY <2>2, <3>1 DEF Written
    <3>3. Dist(tre_wp)' = Dist(tre_wp) /\ Len(returned)' = Len(returned)
      BY <1>1, <3>1 DEF Dist
    <3>4. sent' = sent + 1 /\ Written' = Written + 1 /\ UNCHANGED <<Len(returned), Dist(tre_wp), Handed>>
      BY <1>3, <3>1, <3>2, <3>3
    <3>5. QED
      BY <3>4, ExactMoves DEF LedgerInv
  <2>3. CASE LockPm /\ ~Fill
    <3>1. pc["client"] = "lock" /\ pc'["client"] = "idle" /\ UNCHANGED <<tre_wp, sent>>
      BY <1>1, <2>3 DEF LockPm, rings, ledger, Procs
    <3>2. QED
      BY <1>1, <1>3, <3>1, ExactSame DEF Written, LedgerInv
  <2>4. CASE AdvanceTre
    <3>1. pc["client"] = "adv_tre" /\ pc'["client"] = "adv_buf" /\ tre_wp' = NextSlot(tre_wp) /\ sent' = sent
      BY <1>1, <2>4 DEF AdvanceTre, ledger, Procs
    <3>2. Written = 1 /\ Written' = 0
      BY <3>1 DEF Written
    <3>3. Dist(tre_wp)' = Dist(tre_wp) + 1
      <4>1. tre_rp \in Slots /\ tre_wp \in Slots /\ ~Full(tre_rp, tre_wp)
        BY <3>1, Types DEF IInv, RingInv
      <4>2. QED
        BY <1>1, <3>1, <4>1, OneMoreOneLess DEF Dist
    <3>4. Dist(tre_wp)' = Dist(tre_wp) + 1 /\ Written' = Written - 1 /\ UNCHANGED <<Len(returned), Handed, sent>>
      BY <1>1, <1>3, <3>1, <3>2, <3>3
    <3>5. QED
      BY <3>4, ExactMoves DEF LedgerInv
  <2>5. CASE AdvanceBuf \/ Doorbell
    <3>1. pc["client"] \in {"adv_buf", "db"} /\ pc'["client"] \in {"idle", "db"} /\ UNCHANGED <<tre_wp, sent>>
      BY <1>1, <2>5 DEF AdvanceBuf, Doorbell, rings, ledger, Procs
    <3>2. QED
      BY <1>1, <1>3, <3>1, ExactSame DEF Written, LedgerInv
  <2>6. QED
    BY <2>1, <2>2, <2>3, <2>4, <2>5 DEF Client, CallGoesOn, LockPm, GenTre
<1>8. QED
  BY <1>5, <1>6, <1>7 DEF LedgerInv

\* The event task takes a buffer out of the ring, and gives it back.
LEMMA TaskLedger ==
  ASSUME IInv, LedgerInv, Task
  PROVE  LedgerInv'
<1> USE DEF Goto, At
<1>1. /\ UNCHANGED <<tre_wp, ch_state, pm_state, budget, inline>>
      /\ pc \in [Procs -> Places]
  BY DEF Task, TaskEvent, TaskInside, TaskDrop, TaskEot, TaskLoop, TaskDel, TaskCallback, TaskOob, link,
         rings, IInv, LifeInv
<1>2. pc'["client"] = pc["client"] /\ pc'["life"] = pc["life"]
  BY <1>1 DEF Task, TaskEvent, TaskInside, TaskDrop, TaskEot, TaskLoop, TaskDel, TaskCallback, TaskOob, Procs
<1>3. Written' = Written
  BY <1>2 DEF Written
<1>4. ErrInv'
  BY <1>1, <1>2 DEF LedgerInv, ErrInv
<1>5. CASE TaskEvent \/ TaskLoop
  <2>1. UNCHANGED <<tre_rp, sent, returned>>
    BY <1>5 DEF TaskEvent, TaskDrop, TaskEot, TaskOob, TaskLoop, rings, ledger
  <2>2. Handed' = Handed
    BY <1>1, <1>5 DEF TaskEvent, TaskDrop, TaskEot, TaskOob, TaskLoop, Handed, Procs
  <2>3. DrainedInv'
    BY <1>1, <1>2, <2>1 DEF LedgerInv, DrainedInv
  <2>4. ExactInv'
    BY <1>1, <1>3, <2>1, <2>2, ExactSame DEF LedgerInv
  <2>5. QED
    BY <1>4, <2>3, <2>4 DEF LedgerInv
<1>6. CASE TaskDel
  <2>1. /\ pc["task"] = "del" /\ pc'["task"] = "cb" /\ tre_rp' = NextSlot(tre_rp)
        /\ UNCHANGED <<sent, returned>>
    BY <1>1, <1>6 DEF TaskDel, ledger, Procs
  <2>2. ch_state = "ENABLED" /\ pc["life"] = "idle" /\ Completing
    BY <2>1 DEF IInv, LifeInv, Completing
  <2>3. DrainedInv'
    BY <1>1, <1>2, <2>2 DEF DrainedInv
  <2>4. Handed = 0 /\ Handed' = 1
    BY <2>1 DEF Handed
  <2>5. tre_rp # tre_wp
    <3>1. tre_rp # target /\ Along
      BY <2>1, <2>2 DEF IInv, RingInv, OrderInv, Live
    <3>2. /\ tre_rp \in Slots /\ target \in Slots /\ tre_wp \in Slots
          /\ Dist(target) \in 0 .. N - 1 /\ Dist(m_rp) \in Int /\ Dist(m_wp) \in Int
          /\ Dist(ctxt_wp) \in Int /\ Dist(tre_wp) \in Int
      BY Types
    <3>3. Dist(target) # 0
      BY <3>1, <3>2, Accounting DEF Dist
    <3>4. Dist(tre_wp) # 0
      BY <2>2, <3>1, <3>2, <3>3 DEF Along
    <3>5. QED
      BY <3>2, <3>4, Accounting DEF Dist
  <2>6. Dist(tre_wp)' = Dist(tre_wp) - 1
    <3>1. tre_rp \in Slots /\ tre_wp \in Slots
      BY Types
    <3>2. QED
      BY <1>1, <2>1, <2>5, <3>1, OneMoreOneLess DEF Dist
  <2>7. Dist(tre_wp)' = Dist(tre_wp) - 1 /\ Handed' = Handed + 1 /\ UNCHANGED <<Len(returned), Written, sent>>
    BY <1>3, <2>1, <2>4, <2>6
  <2>8. ExactInv'
    BY <2>7, ExactMoves DEF LedgerInv
  <2>9. QED
    BY <1>4, <2>3, <2>8 DEF LedgerInv
<1>7. CASE TaskCallback
  <2>1. /\ pc["task"] = "cb" /\ pc'["task"] = "loop" /\ UNCHANGED tre_rp /\ Give(hand, "done")
    BY <1>1, <1>7 DEF TaskCallback, rings, Procs
  <2>2. sent' = sent /\ Len(returned)' = Len(returned) + 1
    BY <2>1, GiveKeeps DEF IInv, DataInv
  <2>3. DrainedInv'
    BY <1>1, <1>2, <2>1 DEF LedgerInv, DrainedInv
  <2>4. Handed = 1 /\ Handed' = 0 /\ Dist(tre_wp)' = Dist(tre_wp)
    BY <1>1, <2>1 DEF Handed, Dist
  <2>5. Len(returned)' = Len(returned) + 1 /\ Handed' = Handed - 1 /\ UNCHANGED <<Dist(tre_wp), Written, sent>>
    BY <1>3, <2>2, <2>4
  <2>6. ExactInv'
    BY <2>5, ExactMoves DEF LedgerInv
  <2>7. QED
    BY <1>4, <2>3, <2>6 DEF LedgerInv
<1>8. QED
  BY <1>5, <1>6, <1>7 DEF Task, TaskInside

\* Modem and link move nothing of what is counted; an error meets no call that has passed its check.
LEMMA OutsideLedger ==
  ASSUME IInv, LedgerInv, Modem \/ ModemLeave \/ Link
  PROVE  LedgerInv'
<1>1. UNCHANGED <<tre_rp, tre_wp, ch_state, pc, inline, sent, returned>>
  BY DEF Modem, ModemKick, ModemPoll, ModemMove, ModemLeave, Link, GoLow, WakeM0, RingM0, Crash, Recover,
         rings, ledger, Spend
<1>2. DrainedInv' /\ ExactInv'
  BY <1>1, ExactSame DEF LedgerInv, DrainedInv, Written, Handed
<1>3. budget \in [{"low", "cycle", "crash"} -> Nat]
  BY DEF IInv, DataInv
<1>4. ErrInv'
  <2>1. CASE Modem \/ ModemLeave \/ RingM0
    <3>1. UNCHANGED <<pm_state, budget>>
      BY <2>1 DEF Modem, ModemKick, ModemPoll, ModemMove, ModemLeave, RingM0, link
    <3>2. QED
      BY <1>1, <3>1 DEF LedgerInv, ErrInv
  <2>2. CASE GoLow \/ WakeM0 \/ Recover
    <3>1. /\ pm_state' # "ERR" /\ (pm_state # "ERR" \/ ch_state = "DISABLED")
          /\ budget'["crash"] = budget["crash"]
      BY <1>3, <2>2 DEF GoLow, WakeM0, Recover, Spend
    <3>2. QED
      BY <1>1, <3>1 DEF LedgerInv, ErrInv
  <2>3. CASE Crash
    <3>1. /\ ~PmReaders /\ budget["crash"] > 0 /\ budget'["crash"] = budget["crash"] - 1 /\ pm_state' = "ERR"
      BY <1>3, <2>3 DEF Crash, Spend
    <3>2. inline
      BY <3>1 DEF LedgerInv, ErrInv
    <3>3. pc["client"] \notin {"fill", "adv_tre", "adv_buf", "db"}
      BY <3>1, <3>2 DEF PmReaders, IInv, PcInv
    <3>4. QED
      BY <1>1, <3>1, <3>2, <3>3 DEF ErrInv
  <2>4. QED
    BY <2>1, <2>2, <2>3 DEF Link
<1>5. QED
  BY <1>2, <1>4 DEF LedgerInv

\* A teardown leaves an empty ring behind, and nothing is lost when it is used again.
LEMMA ChannelLedger ==
  ASSUME IInv, LedgerInv, Prepare \/ Unprepare \/ Teardown
  PROVE  LedgerInv'
<1> USE DEF Goto, At
<1>1. /\ UNCHANGED <<pm_state, inline>> /\ budget'["crash"] = budget["crash"]
      /\ pc \in [Procs -> Places]
  <2>1. budget \in [{"low", "cycle", "crash"} -> Nat]
    BY DEF IInv, DataInv
  <2>2. QED
    BY <2>1 DEF Prepare, Unprepare, Teardown, ResetDone, Remove, Drain, Drained, Leave, Deinit, link, Spend,
                IInv, LifeInv
<1>2. /\ pc'["task"] = pc["task"]
      /\ pc'["client"] \in {pc["client"], "idle", "closed"}
  BY <1>1 DEF Prepare, Unprepare, Teardown, ResetDone, Remove, Drain, Drained, Leave, Deinit, MarkStale, Procs
<1>3. ch_state' = "SUSPENDED" => pm_state = "ERR"
  BY DEF Prepare, Unprepare, Teardown, ResetDone, Remove, Drain, Drained, Leave, Deinit, LedgerInv, ErrInv
<1>4. ErrInv'
  BY <1>1, <1>2, <1>3 DEF LedgerInv, ErrInv
<1>5. Handed' = Handed
  BY <1>2 DEF Handed
<1>6. CASE Prepare
  <2>1. /\ pc["life"] = "idle" /\ pc["client"] = "closed" /\ ch_state = "DISABLED" /\ ch_state' = "ENABLED"
        /\ tre_rp' = 0 /\ tre_wp' = 0 /\ UNCHANGED <<sent, returned>>
        /\ pc'["client"] = "idle" /\ pc'["life"] = "idle"
    BY <1>1, <1>6 DEF Prepare, ledger, Procs
  <2>2. DrainedInv'
    BY <2>1 DEF DrainedInv
  <2>3. tre_rp = tre_wp
    BY <2>1 DEF LedgerInv, DrainedInv
  <2>4. Dist(tre_wp) = 0 /\ Dist(tre_wp)' = 0
    <3>1. tre_rp \in Slots /\ tre_wp \in Slots /\ 0 \in Slots
      BY Types, RingAssumption DEF Slots
    <3>2. QED
      BY <2>1, <2>3, <3>1, Accounting DEF Dist
  <2>5. Written' = Written
    BY <2>1 DEF Written
  <2>6. ExactInv'
    BY <1>5, <2>1, <2>4, <2>5 DEF LedgerInv, ExactInv
  <2>7. QED
    BY <1>4, <2>2, <2>6 DEF LedgerInv
<1>7. CASE Drain
  <2>1. /\ pc["life"] = "drain" /\ tre_rp # tre_wp /\ tre_rp' = NextSlot(tre_rp)
        /\ Give(buf[buf_rp], "notconn") /\ UNCHANGED <<tre_wp, pc>>
    BY <1>7 DEF Drain
  <2>2. sent' = sent /\ Len(returned)' = Len(returned) + 1
    <3>1. buf[buf_rp] \in Buffers
      BY DEF IInv, DataInv
    <3>2. QED
      BY <2>1, <3>1, GiveKeeps DEF IInv, DataInv
  <2>3. DrainedInv'
    BY <2>1 DEF DrainedInv
  <2>4. Dist(tre_wp)' = Dist(tre_wp) - 1
    <3>1. tre_rp \in Slots /\ tre_wp \in Slots
      BY Types
    <3>2. QED
      BY <2>1, <3>1, OneMoreOneLess DEF Dist
  <2>5. Len(returned)' = Len(returned) + 1 /\ Dist(tre_wp)' = Dist(tre_wp) - 1
          /\ UNCHANGED <<Written, Handed, sent>>
    BY <1>5, <2>1, <2>2, <2>4 DEF Written
  <2>6. ExactInv'
    BY <2>5, ExactMoves DEF LedgerInv
  <2>7. QED
    BY <1>4, <2>3, <2>6 DEF LedgerInv
<1>8. CASE Unprepare \/ ResetDone \/ Remove \/ Drained \/ Leave \/ Deinit
  <2>1. UNCHANGED <<tre_rp, tre_wp, sent, returned>>
    BY <1>8 DEF Unprepare, ResetDone, Remove, Drained, Leave, Deinit, rings, ledger
  <2>2. Written' = Written
    BY <1>1, <1>8 DEF Unprepare, ResetDone, Remove, Drained, Leave, Deinit, MarkStale, Written, Procs
  <2>3. ExactInv'
    BY <1>5, <2>1, <2>2, ExactSame DEF LedgerInv
  <2>4. DrainedInv'
    <3>1. CASE Unprepare
      BY <1>1, <3>1 DEF Unprepare, DrainedInv, Procs
    <3>2. CASE ResetDone
      BY <1>1, <3>2 DEF ResetDone, MarkStale, DrainedInv, Procs
    <3>3. CASE Remove
      BY <1>1, <3>3 DEF Remove, MarkStale, DrainedInv, Procs
    <3>4. CASE Drained
      BY <2>1, <3>4 DEF Drained, DrainedInv
    <3>5. CASE Leave
      BY <2>1, <3>5 DEF Leave, LedgerInv, DrainedInv
    <3>6. CASE Deinit
      BY <2>1, <3>6 DEF Deinit, LedgerInv, DrainedInv
    <3>7. QED
      BY <1>8, <3>1, <3>2, <3>3, <3>4, <3>5, <3>6
  <2>5. QED
    BY <1>4, <2>3, <2>4 DEF LedgerInv
<1>9. QED
  BY <1>6, <1>7, <1>8 DEF Teardown

\* Nothing has been queued.
LEMMA LedgerStarts == NoBufCrash /\ Init => LedgerInv
<1> SUFFICES ASSUME NoBufCrash, Init PROVE LedgerInv
  OBVIOUS
<1>1. ErrInv
  BY DEF Init, ErrInv, NoBufCrash
<1>2. DrainedInv
  BY DEF Init, DrainedInv
<1>3. ExactInv
  <2>1. Dist(tre_wp) = 0
    BY StartsWell, Types, Accounting DEF Init, Dist
  <2>2. Written = 0 /\ Handed = 0 /\ Len(returned) = 0 /\ sent = 0
    BY EmptySeq DEF Init, Written, Handed
  <2>3. QED
    BY <2>1, <2>2 DEF ExactInv
<1>4. QED
  BY <1>1, <1>2, <1>3 DEF LedgerInv

\* Every step keeps the ledger.
LEMMA LedgerStays == IInv /\ LedgerInv /\ [Next]_vars => LedgerInv'
<1> SUFFICES ASSUME IInv, LedgerInv, [Next]_vars PROVE LedgerInv'
  OBVIOUS
<1>1. CASE UNCHANGED vars
  <2>1. UNCHANGED <<tre_rp, tre_wp, ch_state, pm_state, pc, inline, budget, sent, returned>>
    BY <1>1 DEF vars, rings, link, ledger
  <2>2. ErrInv' /\ DrainedInv'
    BY <2>1 DEF LedgerInv, ErrInv, DrainedInv
  <2>3. ExactInv'
    BY <2>1, ExactSame DEF LedgerInv, Written, Handed
  <2>4. QED
    BY <2>2, <2>3 DEF LedgerInv
<1>2. CASE Next
  BY <1>2, ClientLedger, TaskLedger, OutsideLedger, ChannelLedger DEF Next
<1>3. QED
  BY <1>1, <1>2

\* mhi_system_suspend may go by pending_pkts: when nothing is under way it is the number of uplink
\* elements in the ring, and zero once the channel is down, for any ring and any number of errors
\* and teardowns, as long as mhi_queue_buf is not called across an error.
THEOREM PacketsCounted == NoBufCrash => (Spec => []PendingExact)
<1> SUFFICES ASSUME NoBufCrash PROVE Spec => []PendingExact
  OBVIOUS
<1>1. IInv /\ LedgerInv => PendingExact
  <2> SUFFICES ASSUME IInv, LedgerInv, At("life", "idle"), ~Completing, pc["client"] \notin Calling
               PROVE  pending_pkts = IF Uplink /\ base THEN Used(tre_rp, tre_wp) ELSE 0
    BY DEF PendingExact
  <2>1. Written = 0 /\ Handed = 0 /\ Uncounted = 0
    BY DEF Written, Handed, Uncounted, Completing, At, Calling
  <2>2. Dist(tre_wp) \in Int /\ Len(returned) \in Int /\ sent \in Int
    BY Types
  <2>3. Uplink => pending_pkts = Dist(tre_wp)
    BY <2>1, <2>2 DEF IInv, CountInv, LedgerInv, ExactInv
  <2>4. ~Uplink => pending_pkts = 0
    BY DEF IInv, CountInv
  <2>5. ~base => Dist(tre_wp) = 0
    <3>1. ~base => ch_state = "DISABLED"
      BY DEF IInv, LifeInv
    <3>2. ~base => tre_rp = tre_wp
      BY <3>1 DEF LedgerInv, DrainedInv, At
    <3>3. tre_rp \in Slots /\ tre_wp \in Slots
      BY Types
    <3>4. QED
      BY <3>2, <3>3, Accounting DEF Dist
  <2>6. QED
    BY <2>3, <2>4, <2>5 DEF Dist
<1>2. QED
  BY <1>1, LedgerStarts, LedgerStays, StartsWell, StaysWell, PTL DEF Spec

-----------------------------------------------------------------------------
(* First in, first out.                                                    *)
(*                                                                         *)
(* NumberInv says what is in the slots in use, MovedInv what the modem has *)
(* moved of it; both follow the numbers of the buffers, which go on where  *)
(* the returned ones end.                                                  *)

\* The slots in use hold the numbers that follow those of the returned buffers, in order, and the
\* task has the first of them in its hand.
NumberInv ==
  /\ \A x \in Slots : Dist(x) < Dist(tre_wp) + Written =>
       buf[x] = Len(returned) + Handed + Dist(x) + 1 /\ tre[x] = buf[x]
  /\ pc["task"] \in {"del", "cb"} => hand = Len(returned) + 1

MovedInv ==
  /\ \A i \in 1 .. Len(got) : got[i] = Len(returned) + i
  /\ Len(got) <= Dist(tre_wp) + Handed
  /\ Live => Len(got) = Dist(m_rp) + Handed

FifoInv == NumberInv /\ MovedInv

\* Every slot lies at a distance of its own; releasing one brings the others nearer.
LEMMA Distances ==
  ASSUME NEW rp \in Slots
  PROVE  /\ Used(rp, rp) = 0
         /\ \A x \in Slots : Used(rp, x) \in 0 .. N - 1
         /\ \A x, y \in Slots : Used(rp, x) = Used(rp, y) => x = y
         /\ \A x \in Slots : x # rp => Used(rp, x) >= 1 /\ Used(NextSlot(rp), x) = Used(rp, x) - 1
         /\ Used(NextSlot(rp), rp) = N - 1
  BY RingAssumption DEF Slots, NextSlot, Used

\* The slot k elements further on lies k elements further on.
LEMMA AheadAt ==
  ASSUME NEW rp \in Slots, NEW m \in Slots, NEW w \in Slots, Used(rp, m) <= Used(rp, w),
         NEW k \in 1 .. Used(m, w)
  PROVE  /\ Used(m, w) = Used(rp, w) - Used(rp, m)
         /\ Ahead(m, k - 1) \in Slots /\ Used(rp, Ahead(m, k - 1)) = Used(rp, m) + k - 1
<1>1. k \in Int /\ 1 <= k /\ k <= Used(m, w) /\ Used(m, w) \in 0 .. N - 1
  BY Accounting
<1>2. QED
  BY <1>1, RingAssumption DEF Slots, Ahead, Used

\* What the lemmas below know of the numbers.
LEMMA Numbers ==
  ASSUME IInv
  PROVE  /\ Written \in 0 .. 1 /\ Handed \in 0 .. 1 /\ Len(returned) \in Nat /\ Len(got) \in Nat
         /\ N \in Nat /\ N >= 2 /\ sent \in Nat
         /\ \A x \in Slots : Dist(x) \in 0 .. N - 1
         /\ Dist(tre_wp) + Written \in 0 .. N - 1
<1>1. Written \in 0 .. 1 /\ Handed \in 0 .. 1
  BY DEF Written, Handed
<1>2. Len(got) \in Nat
  BY LenProperties DEF IInv, DataInv
<1>3. \A x \in Slots : Dist(x) \in 0 .. N - 1
  BY Types, Distances DEF Dist
<1>4. Dist(tre_wp) + Written \in 0 .. N - 1
  <2>1. CASE Written = 0
    BY <1>3, <2>1, Types
  <2>2. CASE Written = 1
    <3>1. ~Full(tre_rp, tre_wp)
      BY <2>2 DEF Written, IInv, RingInv
    <3>2. Avail(tre_rp, tre_wp) # 0
      BY <3>1, Types, Accounting
    <3>3. /\ Avail(tre_rp, tre_wp) \in 0 .. N - 1 /\ Dist(tre_wp) \in 0 .. N - 1
          /\ Avail(tre_rp, tre_wp) + Dist(tre_wp) = N - 1
      BY Types, Accounting DEF Dist
    <3>4. QED
      BY <2>2, <3>2, <3>3, RingAssumption
  <2>3. QED
    BY <1>1, <2>1, <2>2
<1>5. QED
  BY <1>1, <1>2, <1>3, <1>4, Types, RingAssumption

\* Nothing is written, released or returned.
LEMMA NumberSame ==
  ASSUME NumberInv, UNCHANGED <<tre, buf, tre_rp, tre_wp, Written, Handed, returned, hand>>,
         pc'["task"] \in {"del", "cb"} => pc["task"] \in {"del", "cb"}
  PROVE  NumberInv'
  BY DEF NumberInv, Dist

\* The modem moves nothing, and the channel does not come up.
LEMMA MovedSame ==
  ASSUME MovedInv, UNCHANGED <<tre_rp, m_rp, got, returned, Handed, Dist(tre_wp)>>, Live' => Live
  PROVE  MovedInv'
  BY DEF MovedInv, Dist

\* One buffer leaves the front: the others keep their numbers.
LEMMA FrontLeaves ==
  ASSUME IInv, NumberInv, tre_rp # tre_wp,
         UNCHANGED <<tre, buf, tre_wp, Written>>, tre_rp' = NextSlot(tre_rp),
         Len(returned)' + Handed' = Len(returned) + Handed + 1
  PROVE  \A x \in Slots : Dist(x)' < Dist(tre_wp)' + Written' =>
           buf'[x] = Len(returned)' + Handed' + Dist(x)' + 1 /\ tre'[x] = buf'[x]
<1> SUFFICES ASSUME NEW x \in Slots, Dist(x)' < Dist(tre_wp)' + Written'
             PROVE  buf'[x] = Len(returned)' + Handed' + Dist(x)' + 1 /\ tre'[x] = buf'[x]
  OBVIOUS
<1>1. Dist(tre_wp)' = Dist(tre_wp) - 1 /\ Dist(tre_wp) >= 1
  BY Types, Distances DEF Dist
<1>2. x # tre_rp
  <2>1. x = tre_rp => Dist(x)' = N - 1
    BY Types, Distances DEF Dist
  <2>2. Dist(tre_wp) \in Int /\ Written \in Int /\ N \in Int /\ Dist(tre_wp) + Written <= N - 1
    BY Numbers, Types
  <2>3. x = tre_rp => N - 1 < Dist(tre_wp) - 1 + Written
    BY <1>1, <2>1
  <2>4. QED
    BY <2>2, <2>3
<1>3. Dist(x)' = Dist(x) - 1 /\ Dist(x) \in 0 .. N - 1
  BY <1>2, Types, Distances DEF Dist
<1>4. Dist(x) < Dist(tre_wp) + Written
  <2>1. Dist(x) - 1 < Dist(tre_wp) - 1 + Written
    BY <1>1, <1>3
  <2>2. Dist(x) \in Int /\ Dist(tre_wp) \in Int /\ Written \in Int
    BY Numbers, Types
  <2>3. QED
    BY <2>1, <2>2
<1>5. buf[x] = Len(returned) + Handed + Dist(x) + 1 /\ tre[x] = buf[x]
  BY <1>4 DEF NumberInv
<1>6. buf'[x] = Len(returned) + Handed + Dist(x) + 1 /\ tre'[x] = buf'[x]
  BY <1>5
<1>7. Len(returned) + Handed + Dist(x) + 1 = Len(returned)' + Handed' + Dist(x)' + 1
  <2>1. Len(returned) \in Int /\ Handed \in Int /\ Dist(x) \in Int
    BY <1>3, Numbers
  <2>2. QED
    BY <1>3, <2>1
<1>8. QED
  BY <1>6, <1>7

\* A call writes the next number behind the others.
LEMMA ClientFifo ==
  ASSUME IInv, LedgerInv, FifoInv, Client
  PROVE  FifoInv'
<1> USE DEF Returns, Goto, At
<1>1. /\ UNCHANGED <<tre_rp, m_rp, ch_state, returned, got, hand>>
      /\ pc \in [Procs -> Places]
  BY DEF Client, CallGoesOn, Call, LockPm, GenTre, AdvanceTre, AdvanceBuf, Doorbell, Fill, rings, modem,
         task, ledger, IInv, LifeInv
<1>2. pc'["task"] = pc["task"] /\ pc'["life"] = pc["life"]
  BY <1>1 DEF Client, CallGoesOn, Call, LockPm, GenTre, AdvanceTre, AdvanceBuf, Doorbell, Fill, Procs
<1>3. Handed' = Handed /\ (Live' => Live)
  BY <1>1, <1>2 DEF Handed, Live
<1>4. ASSUME UNCHANGED <<tre, buf, tre_wp, Written>> PROVE FifoInv'
  <2>1. NumberInv'
    BY <1>1, <1>2, <1>3, <1>4, NumberSame DEF FifoInv
  <2>2. Dist(tre_wp)' = Dist(tre_wp)
    BY <1>1, <1>4 DEF Dist
  <2>3. QED
    BY <1>1, <1>3, <2>1, <2>2, MovedSame DEF FifoInv
<1>5. CASE Call
  <2>1. pc["client"] = "idle" /\ pc'["client"] # "adv_tre" /\ UNCHANGED <<tre, buf, tre_wp>>
    BY <1>1, <1>5 DEF Call, rings, Procs
  <2>2. QED
    BY <1>4, <2>1 DEF Written
<1>6. ASSUME Fill, pc["client"] \in {"lock", "fill"} PROVE FifoInv'
  <2>1. pc'["client"] = "adv_tre" /\ tre_wp' = tre_wp /\ buf_wp = tre_wp
    BY <1>1, <1>6 DEF Fill, Procs, IInv, RingInv
  <2>2. Written = 0 /\ Written' = 1
    BY <1>6, <2>1 DEF Written
  <2>3. /\ buf' = [buf EXCEPT ![tre_wp] = sent + 1] /\ tre' = [tre EXCEPT ![tre_wp] = sent + 1]
        /\ tre \in [Slots -> Buffers] /\ buf \in [Slots -> Buffers] /\ tre_wp \in Slots /\ tre_rp \in Slots
    BY <1>6, <2>1, Types DEF Fill, IInv, DataInv
  <2>4. sent = Len(returned) + Handed + Dist(tre_wp)
    <3>1. Len(returned) + Dist(tre_wp) + 0 + Handed = sent
      BY <2>2 DEF LedgerInv, ExactInv
    <3>2. Len(returned) \in Int /\ Dist(tre_wp) \in Int /\ Handed \in Int
      BY Numbers, Types
    <3>3. QED
      BY <3>1, <3>2
  <2>5. ASSUME NEW x \in Slots, Dist(x)' < Dist(tre_wp)' + Written'
        PROVE  buf'[x] = Len(returned)' + Handed' + Dist(x)' + 1 /\ tre'[x] = buf'[x]
    <3>1. Dist(x)' = Dist(x) /\ Dist(tre_wp)' = Dist(tre_wp)
      BY <1>1, <2>1 DEF Dist
    <3>2. CASE x = tre_wp
      BY <1>1, <1>3, <2>3, <2>4, <3>1, <3>2
    <3>3. CASE x # tre_wp
      <4>1. Dist(x) # Dist(tre_wp) /\ Dist(x) \in Int /\ Dist(tre_wp) \in Int
        BY <2>3, <3>3, Distances, Numbers DEF Dist
      <4>2. Dist(x) < Dist(tre_wp) + Written
        BY <2>2, <2>5, <3>1, <4>1
      <4>3. buf[x] = Len(returned) + Handed + Dist(x) + 1 /\ tre[x] = buf[x]
        BY <4>2 DEF FifoInv, NumberInv
      <4>4. buf'[x] = buf[x] /\ tre'[x] = tre[x]
        BY <2>3, <3>3
      <4>5. QED
        BY <1>1, <1>3, <3>1, <4>3, <4>4
    <3>4. QED
      BY <3>2, <3>3
  <2>6. NumberInv'
    BY <1>1, <1>2, <2>5 DEF FifoInv, NumberInv
  <2>7. Dist(tre_wp)' = Dist(tre_wp)
    BY <1>1, <2>1 DEF Dist
  <2>8. QED
    BY <1>1, <1>3, <2>6, <2>7, MovedSame DEF FifoInv
<1>7. CASE LockPm /\ ~Fill
  <2>1. pc["client"] = "lock" /\ pc'["client"] = "idle" /\ UNCHANGED <<tre, buf, tre_wp>>
    BY <1>1, <1>7 DEF LockPm, rings, Procs
  <2>2. QED
    BY <1>4, <2>1 DEF Written
<1>8. CASE AdvanceTre
  <2>1. /\ pc["client"] = "adv_tre" /\ pc'["client"] = "adv_buf" /\ tre_wp' = NextSlot(tre_wp)
        /\ UNCHANGED <<tre, buf>>
    BY <1>1, <1>8 DEF AdvanceTre, Procs
  <2>2. Written = 1 /\ Written' = 0
    BY <2>1 DEF Written
  <2>3. Dist(tre_wp)' = Dist(tre_wp) + 1
    <3>1. tre_rp \in Slots /\ tre_wp \in Slots /\ ~Full(tre_rp, tre_wp)
      BY <2>1, Types DEF IInv, RingInv
    <3>2. QED
      BY <1>1, <2>1, <3>1, OneMoreOneLess DEF Dist
  <2>4. Dist(tre_wp)' + Written' = Dist(tre_wp) + Written /\ Dist(tre_wp) \in Int
    BY <2>2, <2>3, Numbers, Types
  <2>6. NumberInv'
    <3>1. \A x \in Slots : Dist(x)' = Dist(x)
      BY <1>1 DEF Dist
    <3>2. QED
      BY <1>1, <1>2, <1>3, <2>1, <2>4, <3>1 DEF FifoInv, NumberInv
  <2>7. MovedInv'
    <3>1. Dist(m_rp)' = Dist(m_rp)
      BY <1>1 DEF Dist
    <3>2. Len(got) <= Dist(tre_wp) + 1 + Handed
      BY <2>4, Numbers DEF FifoInv, MovedInv
    <3>3. QED
      BY <1>1, <1>3, <2>3, <3>1, <3>2 DEF FifoInv, MovedInv
  <2>8. QED
    BY <2>6, <2>7 DEF FifoInv
<1>9. CASE AdvanceBuf \/ Doorbell
  <2>1. pc["client"] \in {"adv_buf", "db"} /\ pc'["client"] \in {"idle", "db"} /\ UNCHANGED <<tre, buf, tre_wp>>
    BY <1>1, <1>9 DEF AdvanceBuf, Doorbell, rings, Procs
  <2>2. QED
    BY <1>4, <2>1 DEF Written
<1>10. QED
  BY <1>5, <1>6, <1>7, <1>8, <1>9 DEF Client, CallGoesOn, LockPm, GenTre

\* A buffer goes back: what the modem has moved starts one further on.
LEMMA GivesFirst ==
  ASSUME IInv, MovedInv, NEW id \in Buffers, NEW fate \in {"done", "notconn"}, Give(id, fate)
  PROVE  /\ Len(returned)' = Len(returned) + 1 /\ returned' = Append(returned, <<id, fate>>)
         /\ Len(got)' = IF Len(got) = 0 THEN 0 ELSE Len(got) - 1
         /\ \A i \in 1 .. Len(got') : got'[i] = Len(returned)' + i
<1>1. got \in Seq(Buffers) /\ returned \in Seq(Fates) /\ Len(got) \in Nat /\ Len(returned) \in Nat
  BY Numbers DEF IInv, DataInv
<1>2. Len(returned)' = Len(returned) + 1 /\ returned' = Append(returned, <<id, fate>>)
  BY <1>1, AppendProperties DEF Give, Fates
<1>3. CASE got = <<>>
  BY <1>2, <1>3 DEF Give
<1>4. CASE got # <<>>
  <2>1. got' = Tail(got)
    BY <1>4 DEF Give
  <2>2. Len(got) >= 1 /\ Len(got') = Len(got) - 1 /\ \A i \in 1 .. Len(got') : got'[i] = got[i + 1]
    BY <1>1, <1>4, <2>1
  <2>3. \A i \in 1 .. Len(got') : got[i + 1] = Len(returned) + (i + 1)
    BY <1>1, <2>2 DEF MovedInv
  <2>4. QED
    BY <1>1, <1>2, <2>2, <2>3
<1>5. QED
  BY <1>3, <1>4

\* Where the task has something to release, the modem has moved it.
LEMMA ReleasesMoved ==
  ASSUME IInv, tre_rp # target, Completing
  PROVE  Dist(m_rp) >= 1 /\ Dist(tre_wp) >= 1 /\ m_rp # tre_rp /\ tre_wp # tre_rp
<1>1. Along
  BY DEF IInv, LifeInv, OrderInv, Live
<1>2. /\ tre_rp \in Slots /\ target \in Slots /\ tre_wp \in Slots /\ m_rp \in Slots
      /\ Dist(target) \in 0 .. N - 1 /\ Dist(m_rp) \in 0 .. N - 1 /\ Dist(m_wp) \in 0 .. N - 1
      /\ Dist(ctxt_wp) \in 0 .. N - 1 /\ Dist(tre_wp) \in 0 .. N - 1 /\ N \in Nat
  BY Types
<1>3. Dist(target) # 0
  BY <1>2, Distances DEF Dist
<1>4. Dist(m_rp) >= 1 /\ Dist(tre_wp) >= 1
  BY <1>1, <1>2, <1>3 DEF Along
<1>5. Dist(tre_rp) = 0
  BY <1>2, Distances DEF Dist
<1>6. QED
  BY <1>4, <1>5

\* The event task takes the first buffer out of the ring, and gives it back.
LEMMA TaskFifo ==
  ASSUME IInv, LedgerInv, FifoInv, Task
  PROVE  FifoInv'
<1> USE DEF Goto, At
<1>1. /\ UNCHANGED <<tre, buf, tre_wp, m_rp, ch_state>>
      /\ pc \in [Procs -> Places]
  BY DEF Task, TaskEvent, TaskInside, TaskDrop, TaskEot, TaskLoop, TaskDel, TaskCallback, TaskOob, modem,
         rings, IInv, LifeInv
<1>2. pc'["client"] = pc["client"] /\ pc'["life"] = pc["life"]
  BY <1>1 DEF Task, TaskEvent, TaskInside, TaskDrop, TaskEot, TaskLoop, TaskDel, TaskCallback, TaskOob, Procs
<1>3. Written' = Written /\ Live' = Live
  BY <1>1, <1>2 DEF Written, Live
<1>4. CASE TaskEvent
  <2>1. UNCHANGED <<tre_rp, got, returned, hand>>
    BY <1>4 DEF TaskEvent, TaskDrop, TaskEot, TaskOob, rings, task, ledger
  <2>2. Handed' = Handed /\ pc["task"] = "idle" /\ pc'["task"] \in {"idle", "loop"}
    BY <1>1, <1>4 DEF TaskEvent, TaskDrop, TaskEot, TaskOob, Handed, Procs
  <2>3. Dist(tre_wp)' = Dist(tre_wp)
    BY <1>1, <2>1 DEF Dist
  <2>4. QED
    BY <1>1, <1>3, <2>1, <2>2, <2>3, NumberSame, MovedSame DEF FifoInv
<1>5. CASE TaskLoop
  <2>1. /\ UNCHANGED <<tre_rp, got, returned>> /\ pc["task"] = "loop"
        /\ \/ pc'["task"] = "idle" /\ hand' = hand
           \/ pc'["task"] = "del" /\ hand' = buf[buf_rp] /\ tre_rp # target
    BY <1>1, <1>5 DEF TaskLoop, ledger, Procs
  <2>2. Handed = 0 /\ Handed' = 0
    BY <2>1 DEF Handed
  <2>3. Dist(tre_wp)' = Dist(tre_wp)
    BY <1>1, <2>1 DEF Dist
  <2>4. MovedInv'
    BY <1>1, <1>3, <2>1, <2>2, <2>3, MovedSame DEF FifoInv
  <2>5. CASE pc'["task"] = "idle"
    BY <1>1, <1>3, <2>1, <2>2, <2>4, <2>5, NumberSame DEF FifoInv
  <2>6. CASE pc'["task"] = "del"
    <3>1. hand' = buf[tre_rp] /\ tre_rp # target /\ Completing
      BY <2>1, <2>6 DEF IInv, RingInv, Completing
    <3>2. Dist(tre_rp) = 0 /\ 0 < Dist(tre_wp) + Written
      <4>1. Dist(tre_rp) = 0 /\ tre_rp \in Slots
        BY Types, Distances DEF Dist
      <4>2. Dist(tre_wp) >= 1 /\ Dist(tre_wp) \in Int /\ Written \in 0 .. 1
        BY <3>1, ReleasesMoved, Numbers, Types
      <4>3. QED
        BY <4>1, <4>2
    <3>3. hand' = Len(returned)' + 1
      <4>1. buf[tre_rp] = Len(returned) + Handed + Dist(tre_rp) + 1
        BY <3>2, Types DEF FifoInv, NumberInv
      <4>2. Len(returned) + 0 + 0 + 1 = Len(returned) + 1
        BY Numbers
      <4>3. QED
        BY <2>1, <2>2, <3>1, <3>2, <4>1, <4>2
    <3>4. NumberInv'
      BY <1>1, <1>3, <2>1, <2>2, <3>3 DEF FifoInv, NumberInv, Dist
    <3>5. QED
      BY <2>4, <3>4 DEF FifoInv
  <2>7. QED
    BY <2>1, <2>5, <2>6
<1>6. CASE TaskDel
  <2>1. /\ pc["task"] = "del" /\ pc'["task"] = "cb" /\ tre_rp' = NextSlot(tre_rp)
        /\ UNCHANGED <<got, returned, hand>>
    BY <1>1, <1>6 DEF TaskDel, task, ledger, Procs
  <2>2. Handed = 0 /\ Handed' = 1
    BY <2>1 DEF Handed
  <2>3. tre_rp # target /\ Completing
    BY <2>1 DEF IInv, RingInv, Completing
  <2>4. m_rp # tre_rp /\ tre_wp # tre_rp
    BY <2>3, ReleasesMoved
  <2>5. NumberInv'
    <3>1. Len(returned)' + Handed' = Len(returned) + Handed + 1
      BY <2>1, <2>2, Numbers
    <3>2. QED
      BY <1>1, <1>3, <2>1, <2>4, <3>1, FrontLeaves DEF FifoInv, NumberInv
  <2>6. Dist(m_rp)' = Dist(m_rp) - 1 /\ Dist(tre_wp)' = Dist(tre_wp) - 1
    BY <1>1, <2>1, <2>4, Types, Distances DEF Dist
  <2>7. Dist(m_rp) - 1 + 1 = Dist(m_rp) + 0 /\ Dist(tre_wp) - 1 + 1 = Dist(tre_wp) + 0
    BY Types
  <2>8. MovedInv'
    BY <1>3, <2>1, <2>2, <2>6, <2>7 DEF FifoInv, MovedInv
  <2>9. QED
    BY <2>5, <2>8 DEF FifoInv
<1>7. CASE TaskCallback
  <2>1. /\ pc["task"] = "cb" /\ pc'["task"] = "loop" /\ UNCHANGED tre_rp /\ Give(hand, "done")
    BY <1>1, <1>7 DEF TaskCallback, rings, Procs
  <2>2. Handed = 1 /\ Handed' = 0
    BY <2>1 DEF Handed
  <2>3. \A x \in Slots : Dist(x)' = Dist(x)
    BY <1>1, <2>1 DEF Dist
  <2>4. Dist(tre_wp)' = Dist(tre_wp) /\ Dist(m_rp)' = Dist(m_rp)
    BY <1>1, <2>1 DEF Dist
  <2>5. /\ Len(returned)' = Len(returned) + 1
        /\ Len(got)' = IF Len(got) = 0 THEN 0 ELSE Len(got) - 1
        /\ \A i \in 1 .. Len(got') : got'[i] = Len(returned)' + i
    BY <2>1, GivesFirst DEF FifoInv, IInv, DataInv
  <2>6. NumberInv'
    <3>1. \A x \in Slots : Dist(x) \in Int
      BY Numbers
    <3>2. Len(returned) \in Int
      BY Numbers
    <3>3. QED
      BY <1>1, <1>3, <2>1, <2>2, <2>3, <2>4, <2>5, <3>1, <3>2 DEF FifoInv, NumberInv
  <2>7. MovedInv'
    <3>1. Live
      BY <2>1 DEF IInv, LifeInv, Completing, Live
    <3>2. Len(got) = Dist(m_rp) + 1 /\ Len(got) <= Dist(tre_wp) + 1
      BY <2>2, <3>1 DEF FifoInv, MovedInv
    <3>3. Dist(m_rp) \in 0 .. N - 1 /\ Dist(tre_wp) \in 0 .. N - 1 /\ N \in Nat
      BY Types
    <3>4. Len(got') = Dist(m_rp) + 0 /\ Len(got') <= Dist(tre_wp) + 0
      BY <2>5, <3>2, <3>3
    <3>5. QED
      BY <2>2, <2>4, <2>5, <3>4 DEF MovedInv
  <2>8. QED
    BY <2>6, <2>7 DEF FifoInv
<1>8. QED
  BY <1>4, <1>5, <1>6, <1>7 DEF Task, TaskInside

\* The modem moves the next buffers of the ring.
LEMMA ModemFifo ==
  ASSUME IInv, LedgerInv, FifoInv, Modem \/ ModemLeave
  PROVE  FifoInv'
<1>1. UNCHANGED <<tre, buf, tre_rp, tre_wp, pc, ch_state, returned, hand>>
  BY DEF Modem, ModemKick, ModemPoll, ModemMove, ModemLeave, rings, task, ledger
<1>2. Written' = Written /\ Handed' = Handed /\ Live' = Live /\ Dist(tre_wp)' = Dist(tre_wp)
  BY <1>1 DEF Written, Handed, Live, At, Dist
<1>3. NumberInv'
  BY <1>1, <1>2, NumberSame DEF FifoInv
<1>4. CASE ModemKick \/ ModemPoll \/ ModemLeave
  <2>1. UNCHANGED <<m_rp, got>>
    BY <1>4 DEF ModemKick, ModemPoll, ModemLeave, ledger
  <2>2. QED
    BY <1>1, <1>2, <1>3, <2>1, MovedSame DEF FifoInv
<1>5. CASE ModemMove
  <2>1. PICK k \in 1 .. Used(m_rp, m_wp) :
          /\ m_rp' = Ahead(m_rp, k)
          /\ got' = got \o SubSeq(Between(tre, m_rp, m_wp), 1, k)
    BY <1>5 DEF ModemMove
  <2>2. Live /\ Along
    BY <1>5 DEF ModemMove, IInv, TokenInv, Quiet, OrderInv, Live
  <2>3. /\ tre_rp \in Slots /\ m_rp \in Slots /\ m_wp \in Slots /\ tre_wp \in Slots
        /\ Dist(m_rp) \in 0 .. N - 1 /\ Dist(m_wp) \in 0 .. N - 1 /\ Dist(tre_wp) \in 0 .. N - 1
        /\ Dist(ctxt_wp) \in 0 .. N - 1 /\ N \in Nat /\ Used(m_rp, m_wp) \in 0 .. N - 1
    BY Types, Accounting
  <2>4. Dist(m_rp) <= Dist(m_wp) /\ Dist(m_wp) <= Dist(tre_wp)
    BY <2>2, <2>3 DEF Along
  <2>5. Used(m_rp, m_wp) = Dist(m_wp) - Dist(m_rp)
    BY <2>1, <2>3, <2>4, AheadAt DEF Dist
  <2>6. ASSUME NEW i \in 1 .. k
        PROVE  Between(tre, m_rp, m_wp)[i] = Len(returned) + Len(got) + i
    <3>1. i \in 1 .. Used(m_rp, m_wp)
      BY <2>1, <2>3
    <3>2. Ahead(m_rp, i - 1) \in Slots /\ Dist(Ahead(m_rp, i - 1)) = Dist(m_rp) + i - 1
      BY <2>3, <2>4, <3>1, AheadAt DEF Dist
    <3>3. Dist(Ahead(m_rp, i - 1)) < Dist(tre_wp) + Written
      <4>1. /\ i \in Int /\ i <= Dist(m_wp) - Dist(m_rp) /\ Dist(m_rp) \in Int
            /\ Dist(m_wp) \in Int /\ Dist(tre_wp) \in Int /\ Dist(m_wp) <= Dist(tre_wp)
        BY <2>3, <2>4, <2>5, <3>1
      <4>2. Dist(m_rp) + i - 1 < Dist(tre_wp)
        BY <4>1
      <4>3. Written \in 0 .. 1
        BY Numbers
      <4>4. QED
        BY <3>2, <4>1, <4>2, <4>3
    <3>4. tre[Ahead(m_rp, i - 1)] = Len(returned) + Handed + (Dist(m_rp) + i - 1) + 1
      BY <3>2, <3>3 DEF FifoInv, NumberInv
    <3>5. Len(got) = Dist(m_rp) + Handed
      BY <2>2 DEF FifoInv, MovedInv
    <3>6. Between(tre, m_rp, m_wp)[i] = tre[Ahead(m_rp, i - 1)]
      BY <3>1 DEF Between
    <3>7. Handed \in Int /\ Len(returned) \in Int /\ Dist(m_rp) \in Int /\ i \in Int
      BY <2>3, Numbers
    <3>8. QED
      BY <3>4, <3>5, <3>6, <3>7
  <2>7. /\ Len(got') = Len(got) + k
        /\ \A i \in 1 .. Len(got) : got'[i] = got[i]
        /\ \A i \in 1 .. k : got'[Len(got) + i] = Between(tre, m_rp, m_wp)[i]
    <3> DEFINE b == Between(tre, m_rp, m_wp)
               s == SubSeq(b, 1, k)
    <3>1. \A i \in 1 .. Used(m_rp, m_wp) : Ahead(m_rp, i - 1) \in Slots
      BY <2>3, <2>4, AheadAt DEF Dist
    <3>2. b \in Seq(Buffers) /\ Len(b) = Used(m_rp, m_wp)
      <4>1. tre \in [Slots -> Buffers] /\ Used(m_rp, m_wp) \in Nat
        BY <2>3 DEF IInv, DataInv
      <4>2. b = [i \in 1 .. Used(m_rp, m_wp) |-> tre[Ahead(m_rp, i - 1)]]
        BY DEF Between
      <4>3. \A i \in 1 .. Used(m_rp, m_wp) : tre[Ahead(m_rp, i - 1)] \in Buffers
        BY <3>1, <4>1
      <4> HIDE DEF b
      <4>4. QED
        BY <4>1, <4>2, <4>3
    <3>3. k \in 1 .. Len(b)
      BY <3>2
    <3> HIDE DEF b
    <3>4. s \in Seq(Buffers) /\ Len(s) = k /\ \A i \in 1 .. k : s[i] = b[i]
      BY <3>2, <3>3
    <3>5. got \in Seq(Buffers) /\ Len(got) \in Nat /\ k \in Nat
      BY <2>1, <2>3, LenProperties DEF IInv, DataInv
    <3> HIDE DEF s
    <3>6. got' = got \o s
      BY <2>1 DEF s, b
    <3>7. /\ Len(got \o s) = Len(got) + Len(s)
          /\ \A i \in 1 .. Len(got) + Len(s) : (got \o s)[i] = IF i <= Len(got) THEN got[i] ELSE s[i - Len(got)]
      BY <3>4, <3>5, ConcatProperties
    <3>8. Len(got') = Len(got) + k /\ \A i \in 1 .. Len(got) : got'[i] = got[i]
      BY <3>4, <3>5, <3>6, <3>7
    <3>9. \A i \in 1 .. k : got'[Len(got) + i] = b[i]
      <4> SUFFICES ASSUME NEW i \in 1 .. k PROVE got'[Len(got) + i] = b[i]
        OBVIOUS
      <4>1. /\ Len(got) + i \in 1 .. Len(got) + Len(s) /\ ~(Len(got) + i <= Len(got))
            /\ (Len(got) + i) - Len(got) = i
        BY <3>4, <3>5
      <4>2. (got \o s)[Len(got) + i] = s[i]
        BY <3>7, <4>1
      <4>3. QED
        BY <3>4, <3>6, <4>2
    <3>10. QED
      BY <3>8, <3>9 DEF b
  <2>8. \A i \in 1 .. Len(got') : got'[i] = Len(returned)' + i
    <3> SUFFICES ASSUME NEW i \in 1 .. Len(got') PROVE got'[i] = Len(returned)' + i
      OBVIOUS
    <3>1. i \in Nat /\ i >= 1 /\ i <= Len(got) + k /\ Len(got) \in Nat /\ k \in Nat
      BY <2>1, <2>3, <2>7, Numbers
    <3>2. CASE i <= Len(got)
      BY <1>1, <2>7, <3>1, <3>2 DEF FifoInv, MovedInv
    <3>3. CASE i > Len(got)
      <4>1. i - Len(got) \in 1 .. k /\ Len(got) + (i - Len(got)) = i
        BY <3>1, <3>3
      <4>2. got'[i] = Len(returned) + Len(got) + (i - Len(got))
        BY <2>6, <2>7, <4>1
      <4>3. QED
        BY <1>1, <3>1, <4>2, Numbers
    <3>4. QED
      BY <3>1, <3>2, <3>3
  <2>9. Len(got') = Dist(m_rp)' + Handed'
    <3>1. Dist(m_rp)' = Dist(m_rp) + k
      <4>1. k < N /\ m_rp \in 0 .. N - 1 /\ k \in Nat
        BY <2>1, <2>3 DEF Slots
      <4>2. Used(tre_rp, Ahead(m_rp, k)) = Used(tre_rp, m_rp) + k
        BY <2>1, <2>3, <2>4, <2>5, <4>1, RingAssumption DEF Slots, Ahead, Used, Dist
      <4>3. QED
        BY <1>1, <2>1, <4>2 DEF Dist
    <3>2. Len(got) = Dist(m_rp) + Handed
      BY <2>2 DEF FifoInv, MovedInv
    <3>3. QED
      BY <1>2, <2>1, <2>3, <2>7, <3>1, <3>2, Numbers
  <2>10. Len(got') <= Dist(tre_wp)' + Handed'
    <3>1. Len(got) = Dist(m_rp) + Handed /\ Len(got') = Len(got) + k
      BY <2>2, <2>7 DEF FifoInv, MovedInv
    <3>2. k <= Dist(m_wp) - Dist(m_rp) /\ k \in Int
      BY <2>1, <2>3, <2>5
    <3>3. Dist(m_rp) \in Int /\ Dist(m_wp) \in Int /\ Dist(tre_wp) \in Int /\ Handed \in Int
      BY <2>3, Numbers
    <3>4. Len(got') <= Dist(tre_wp) + Handed
      BY <2>4, <3>1, <3>2, <3>3
    <3>5. QED
      BY <1>2, <3>4
  <2>11. QED
    BY <1>3, <2>8, <2>9, <2>10 DEF FifoInv, MovedInv
<1>6. QED
  BY <1>4, <1>5 DEF Modem

\* The link has no hand in it.
LEMMA LinkFifo ==
  ASSUME IInv, FifoInv, Link
  PROVE  FifoInv'
<1>1. UNCHANGED <<tre, buf, tre_rp, tre_wp, m_rp, pc, ch_state, got, returned, hand>>
  BY DEF Link, GoLow, WakeM0, RingM0, Crash, Recover, rings, modem, task, ledger
<1>2. Written' = Written /\ Handed' = Handed /\ Live' = Live /\ Dist(tre_wp)' = Dist(tre_wp)
  BY <1>1 DEF Written, Handed, Live, At, Dist
<1>3. QED
  BY <1>1, <1>2, NumberSame, MovedSame DEF FifoInv

\* A teardown gives back the buffers in order; a channel that comes up is empty.
LEMMA ChannelFifo ==
  ASSUME IInv, LedgerInv, FifoInv, Prepare \/ Unprepare \/ Teardown
  PROVE  FifoInv'
<1> USE DEF Goto, At
<1>1. /\ pc \in [Procs -> Places] /\ UNCHANGED hand
  BY DEF Prepare, Unprepare, Teardown, ResetDone, Remove, Drain, Drained, Leave, Deinit, task, IInv, LifeInv
<1>2. pc'["task"] = pc["task"]
  BY <1>1 DEF Prepare, Unprepare, Teardown, ResetDone, Remove, Drain, Drained, Leave, Deinit, MarkStale, Procs
<1>3. Handed' = Handed
  BY <1>2 DEF Handed
<1>4. CASE Prepare
  <2>1. /\ pc["life"] = "idle" /\ pc["client"] = "closed" /\ ch_state = "DISABLED" /\ ch_state' = "ENABLED"
        /\ tre_rp' = 0 /\ tre_wp' = 0 /\ m_rp' = 0 /\ UNCHANGED <<got, returned>>
        /\ pc'["client"] = "idle" /\ pc'["life"] = "idle"
    BY <1>1, <1>4 DEF Prepare, ledger, Procs
  <2>2. tre_rp = tre_wp
    BY <2>1 DEF LedgerInv, DrainedInv
  <2>3. Dist(tre_wp) = 0 /\ Dist(tre_wp)' = 0 /\ Dist(m_rp)' = 0
    <3>1. tre_rp \in Slots /\ tre_wp \in Slots /\ 0 \in Slots
      BY Types, RingAssumption DEF Slots
    <3>2. QED
      BY <2>1, <2>2, <3>1, Distances DEF Dist
  <2>4. pc["task"] = "idle"
    BY <2>1 DEF IInv, LifeInv, PcInv, Completing
  <2>5. Written' = 0 /\ Handed = 0
    BY <2>1, <2>4 DEF Written, Handed
  <2>6. NumberInv'
    <3>1. \A x \in Slots : Dist(x)' \in 0 .. N - 1
      <4>1. tre_rp' \in Slots
        BY <2>1, RingAssumption DEF Slots
      <4>2. QED
        BY <4>1, Distances DEF Dist
    <3>2. QED
      BY <1>2, <2>3, <2>4, <2>5, <3>1 DEF NumberInv
  <2>7. Len(got) = 0
    BY <2>3, <2>5, Numbers DEF FifoInv, MovedInv
  <2>8. MovedInv'
    BY <1>3, <2>1, <2>3, <2>5, <2>7 DEF MovedInv
  <2>9. QED
    BY <2>6, <2>8 DEF FifoInv
<1>5. CASE Drain
  <2>1. /\ pc["life"] = "drain" /\ tre_rp # tre_wp /\ tre_rp' = NextSlot(tre_rp)
        /\ Give(buf[buf_rp], "notconn") /\ UNCHANGED <<tre, buf, tre_wp, pc, ch_state>>
    BY <1>5 DEF Drain
  <2>2. ch_state # "ENABLED" /\ pc["task"] = "idle" /\ ~Live'
    BY <2>1 DEF IInv, LifeInv, PcInv, Completing, Live
  <2>3. Handed = 0 /\ Handed' = 0 /\ Written' = Written
    BY <1>3, <2>1, <2>2 DEF Handed, Written
  <2>4. buf[buf_rp] \in Buffers
    BY DEF IInv, DataInv
  <2>5. /\ Len(returned)' = Len(returned) + 1
        /\ Len(got)' = IF Len(got) = 0 THEN 0 ELSE Len(got) - 1
        /\ \A i \in 1 .. Len(got') : got'[i] = Len(returned)' + i
    BY <2>1, <2>4, GivesFirst DEF FifoInv
  <2>6. NumberInv'
    <3>1. Len(returned)' + Handed' = Len(returned) + Handed + 1
      BY <2>3, <2>5, Numbers
    <3>2. QED
      BY <2>1, <2>2, <2>3, <3>1, FrontLeaves DEF FifoInv, NumberInv
  <2>7. Dist(tre_wp)' = Dist(tre_wp) - 1 /\ Dist(tre_wp) >= 1 /\ Dist(tre_wp) \in Int
    BY <2>1, Types, Distances DEF Dist
  <2>8. Len(got') <= Dist(tre_wp) - 1
    BY <2>3, <2>5, <2>7, Numbers DEF FifoInv, MovedInv
  <2>9. MovedInv'
    BY <2>2, <2>3, <2>5, <2>7, <2>8 DEF MovedInv
  <2>10. QED
    BY <2>6, <2>9 DEF FifoInv
<1>6. CASE Unprepare \/ ResetDone \/ Remove \/ Drained \/ Leave \/ Deinit
  <2>1. UNCHANGED <<tre, buf, tre_rp, tre_wp, m_rp, got, returned>>
    BY <1>6 DEF Unprepare, ResetDone, Remove, Drained, Leave, Deinit, rings, modem, ledger
  <2>2. Written' = Written
    BY <1>1, <1>6 DEF Unprepare, ResetDone, Remove, Drained, Leave, Deinit, MarkStale, Written, Procs
  <2>3. Live' => Live
    BY <1>1, <1>6 DEF Unprepare, ResetDone, Remove, Drained, Leave, Deinit, MarkStale, Live, Procs
  <2>4. Dist(tre_wp)' = Dist(tre_wp)
    BY <2>1 DEF Dist
  <2>5. QED
    BY <1>1, <1>2, <1>3, <2>1, <2>2, <2>3, <2>4, NumberSame, MovedSame DEF FifoInv
<1>7. QED
  BY <1>4, <1>5, <1>6 DEF Teardown

\* The numbers from b + 1 on: what a queue is that nothing was lost of.
From1(b, n) == [i \in 1 .. n |-> b + i]

\* They are a sequence to which the next number is added behind and of which the first is taken.
LEMMA Consecutive ==
  ASSUME NEW b \in Nat, NEW n \in Nat
  PROVE  /\ From1(b, n) \in Seq(Nat) /\ Len(From1(b, n)) = n
         /\ Append(From1(b, n), b + n + 1) = From1(b, n + 1)
         /\ n # 0 => /\ From1(b, n) # <<>> /\ Head(From1(b, n)) = b + 1
                     /\ Tail(From1(b, n)) = From1(b + 1, n - 1)
         /\ n = 0 => From1(b, n) = <<>>
         /\ \A k \in 1 .. n : SubSeq(From1(b, n), 1, k) = From1(b, k)
<1> DEFINE s == From1(b, n)
<1>1. s \in Seq(Nat) /\ Len(s) = n /\ \A i \in 1 .. n : s[i] = b + i
  BY DEF From1
<1>2. Append(s, b + n + 1) = From1(b, n + 1)
  BY <1>1 DEF From1
<1>3. n # 0 => s # <<>> /\ Head(s) = b + 1
  BY <1>1
<1>4. n # 0 => Tail(s) = From1(b + 1, n - 1)
  BY <1>1 DEF From1
<1>5. \A k \in 1 .. n : SubSeq(s, 1, k) = From1(b, k)
  BY <1>1 DEF From1
<1>6. n = 0 => s = <<>>
  BY <1>1
<1>7. QED
  BY <1>1, <1>2, <1>3, <1>4, <1>5, <1>6

Waiting == InHand \o Between(buf, buf_rp, tre_wp)
Outstanding == Dist(tre_wp) + Handed

\* What is queued is what is to be returned next, in order, and what is moved the beginning of it.
QueueInv ==
  /\ Waiting = From1(Len(returned), Outstanding) /\ got = From1(Len(returned), Len(got))
  /\ Outstanding \in Nat /\ Len(got) \in Nat /\ Len(got) <= Outstanding /\ Len(returned) \in Nat
  /\ Dist(m_rp) \in Nat

\* This follows from what the slots hold.
LEMMA QueueShape ==
  ASSUME IInv, LedgerInv, FifoInv
  PROVE  QueueInv
<1>1. /\ tre_rp \in Slots /\ tre_wp \in Slots /\ Dist(tre_wp) \in 0 .. N - 1 /\ Handed \in 0 .. 1
      /\ Len(returned) \in Nat /\ Len(got) \in Nat /\ Written \in 0 .. 1 /\ N \in Nat
  BY Types, Numbers
<1>2. Outstanding \in Nat /\ Len(got) <= Outstanding
  BY <1>1 DEF FifoInv, MovedInv, Outstanding
<1>3. got = From1(Len(returned), Len(got))
  <2>1. got \in Seq(Buffers)
    BY DEF IInv, DataInv
  <2>2. QED
    BY <1>1, <2>1 DEF FifoInv, MovedInv, From1
<1>4. ASSUME NEW i \in 1 .. Dist(tre_wp)
      PROVE  Ahead(tre_rp, i - 1) \in Slots /\ buf[Ahead(tre_rp, i - 1)] = Len(returned) + Handed + i
  <2>1. Used(tre_rp, tre_rp) = 0
    BY <1>1, Distances
  <2>2. i \in Int /\ 1 <= i /\ i <= Dist(tre_wp) /\ i \in 1 .. Used(tre_rp, tre_wp)
    BY <1>1 DEF Dist
  <2>3. Ahead(tre_rp, i - 1) \in Slots /\ Dist(Ahead(tre_rp, i - 1)) = 0 + i - 1
    BY <1>1, <2>1, <2>2, AheadAt DEF Dist
  <2>4. Dist(Ahead(tre_rp, i - 1)) < Dist(tre_wp) + Written
    BY <1>1, <2>2, <2>3
  <2>5. buf[Ahead(tre_rp, i - 1)] = Len(returned) + Handed + Dist(Ahead(tre_rp, i - 1)) + 1
    BY <2>3, <2>4 DEF FifoInv, NumberInv
  <2>6. Handed \in Int /\ Len(returned) \in Int
    BY <1>1
  <2>7. QED
    BY <2>2, <2>3, <2>5, <2>6
<1>5. Waiting = From1(Len(returned), Outstanding)
  <2>1. CASE pc["task"] \notin {"del", "cb"}
    <3>1. InHand = <<>> /\ buf_rp = tre_rp /\ Handed = 0
      BY <2>1 DEF InHand, IInv, RingInv, At, Handed
    <3>2. Between(buf, buf_rp, tre_wp) = From1(Len(returned), Outstanding)
      BY <1>1, <1>4, <3>1 DEF Between, From1, Outstanding, Dist
    <3>3. From1(Len(returned), Outstanding) \in Seq(Nat)
      BY <1>1, <1>2, Consecutive
    <3>4. QED
      BY <3>1, <3>2, <3>3 DEF Waiting
  <2>2. CASE pc["task"] = "cb"
    <3>1. InHand = <<Len(returned) + 1>> /\ buf_rp = tre_rp /\ Handed = 1
      BY <2>2 DEF InHand, IInv, RingInv, At, Handed, FifoInv, NumberInv
    <3>2. Between(buf, buf_rp, tre_wp) = [i \in 1 .. Dist(tre_wp) |-> Len(returned) + 1 + i]
      BY <1>1, <1>4, <3>1 DEF Between, Dist
    <3>3. QED
      BY <1>1, <3>1, <3>2 DEF Waiting, Outstanding, From1
  <2>3. CASE pc["task"] = "del"
    <3>1. InHand = <<Len(returned) + 1>> /\ buf_rp = NextSlot(tre_rp) /\ Handed = 0 /\ tre_rp # target
      BY <2>3 DEF InHand, IInv, RingInv, At, Handed, FifoInv, NumberInv
    <3>2. tre_wp # tre_rp /\ Dist(tre_wp) >= 1
      BY <2>3, <3>1, ReleasesMoved DEF Completing
    <3>3. Used(buf_rp, tre_wp) = Dist(tre_wp) - 1
      BY <1>1, <3>1, <3>2, Distances DEF Dist
    <3>4. ASSUME NEW i \in 1 .. Dist(tre_wp) - 1
          PROVE  buf[Ahead(buf_rp, i - 1)] = Len(returned) + 1 + i
      <4>1. Ahead(buf_rp, i - 1) = Ahead(tre_rp, (i + 1) - 1)
        <5>1. tre_rp \in Int /\ 0 <= tre_rp /\ tre_rp <= N - 1 /\ N \in Int
          BY <1>1 DEF Slots
        <5>2. i \in Int /\ 1 <= i /\ i <= N - 2
          BY <1>1
        <5>3. CASE tre_rp + 1 >= N
          <6>1. tre_rp = N - 1 /\ NextSlot(tre_rp) = 0
            BY <5>1, <5>3 DEF NextSlot
          <6>2. Ahead(0, i - 1) = i - 1 /\ Ahead(N - 1, (i + 1) - 1) = i - 1
            BY <5>1, <5>2 DEF Ahead
          <6>3. QED
            BY <3>1, <6>1, <6>2
        <5>4. CASE ~(tre_rp + 1 >= N)
          <6>1. NextSlot(tre_rp) = tre_rp + 1
            BY <5>4 DEF NextSlot
          <6>2. Ahead(tre_rp + 1, i - 1) = Ahead(tre_rp, (i + 1) - 1)
            BY <5>1, <5>2 DEF Ahead
          <6>3. QED
            BY <3>1, <6>1, <6>2
        <5>5. QED
          BY <5>3, <5>4
      <4>2. i + 1 \in 1 .. Dist(tre_wp)
        BY <1>1
      <4>3. buf[Ahead(tre_rp, (i + 1) - 1)] = Len(returned) + Handed + (i + 1)
        BY <1>4, <4>2
      <4>4. QED
        BY <1>1, <3>1, <4>1, <4>3
    <3>5. Between(buf, buf_rp, tre_wp) = [i \in 1 .. Dist(tre_wp) - 1 |-> Len(returned) + 1 + i]
      BY <3>3, <3>4 DEF Between
    <3>6. QED
      BY <1>1, <3>1, <3>2, <3>5 DEF Waiting, Outstanding, From1
  <2>4. QED
    BY <2>1, <2>2, <2>3
<1>6. Dist(m_rp) \in Nat
  BY Types
<1>7. QED
  BY <1>1, <1>2, <1>3, <1>5, <1>6 DEF QueueInv

\* Nothing enters or leaves the queue.
LEMMA QueueSame ==
  ASSUME QueueInv, QueueInv',
         UNCHANGED <<returned, got, Outstanding>>, (ch_state' = "ENABLED") <=> (ch_state = "ENABLED")
  PROVE  UNCHANGED Queue!vars
<1>1. Waiting' = Waiting
  <2>1. /\ Waiting = From1(Len(returned), Outstanding)
        /\ Waiting' = From1(Len(returned)', Outstanding')
    BY DEF QueueInv
  <2>2. Len(returned)' = Len(returned) /\ Outstanding' = Outstanding
    OBVIOUS
  <2>3. QED
    BY <2>1, <2>2
<1>2. QED
  BY <1>1 DEF Queue!vars, Waiting

\* A buffer enters the queue.
LEMMA QueueSubmit ==
  ASSUME QueueInv, QueueInv',
         UNCHANGED <<returned, got, ch_state>>, Outstanding' = Outstanding + 1
  PROVE  Queue!Submit
<1>1. /\ Waiting = From1(Len(returned), Outstanding) /\ Outstanding \in Nat /\ Len(returned) \in Nat
      /\ Waiting' = From1(Len(returned), Outstanding + 1)
  <2>1. Waiting' = From1(Len(returned)', Outstanding')
    BY DEF QueueInv
  <2>2. QED
    BY <2>1 DEF QueueInv
<1>2. Waiting' = Append(Waiting, Len(returned) + Len(Waiting) + 1)
  <2>1. \A b, n \in Nat : Len(From1(b, n)) = n /\ From1(b, n + 1) = Append(From1(b, n), b + n + 1)
    BY Consecutive
  <2>2. /\ Len(From1(Len(returned), Outstanding)) = Outstanding
        /\ From1(Len(returned), Outstanding + 1)
              = Append(From1(Len(returned), Outstanding), Len(returned) + Outstanding + 1)
    BY <1>1, <2>1
  <2>3. QED
    BY <1>1, <2>2
<1>3. QED
  BY <1>2 DEF Queue!Submit, Waiting

\* The modem moves buffers.
LEMMA QueueMove ==
  ASSUME QueueInv, QueueInv',
         UNCHANGED <<returned, ch_state, Outstanding>>, Len(got') > Len(got)
  PROVE  Queue!Move
<1>1. /\ Waiting = From1(Len(returned), Outstanding) /\ Outstanding \in Nat /\ Len(returned) \in Nat
      /\ got = From1(Len(returned), Len(got)) /\ Len(got) \in Nat
  BY DEF QueueInv
<1>2. /\ Waiting' = From1(Len(returned)', Outstanding') /\ got' = From1(Len(returned)', Len(got)')
      /\ Len(got') \in Nat /\ Len(got') <= Outstanding'
  BY DEF QueueInv
<1>3. Waiting' = Waiting /\ got' = From1(Len(returned), Len(got')) /\ Len(got') <= Outstanding
  BY <1>1, <1>2
<1>4. Len(Waiting) = Outstanding
  BY <1>1, Consecutive
<1>5. Len(got') \in Len(got) + 1 .. Len(Waiting)
  BY <1>1, <1>2, <1>3, <1>4
<1>6. got' = SubSeq(Waiting, 1, Len(got'))
  <2>1. Len(got') \in 1 .. Outstanding
    BY <1>1, <1>4, <1>5
  <2>2. \A b, n \in Nat : \A k \in 1 .. n : SubSeq(From1(b, n), 1, k) = From1(b, k)
    BY Consecutive
  <2>3. SubSeq(From1(Len(returned), Outstanding), 1, Len(got')) = From1(Len(returned), Len(got'))
    BY <1>1, <2>1, <2>2
  <2>4. QED
    BY <1>1, <1>3, <2>3
<1>7. Len(got) < Len(Waiting)
  BY <1>1, <1>5
<1>8. QED
  BY <1>3, <1>5, <1>6, <1>7 DEF Queue!Move, Waiting

\* The first buffer leaves the queue, as the client is told.
LEMMA QueueReturn ==
  ASSUME IInv, FifoInv, QueueInv, QueueInv', UNCHANGED ch_state,
         NEW id \in Buffers, NEW fate \in {"done", "notconn"}, Give(id, fate), id = Len(returned) + 1,
         Outstanding' = Outstanding - 1
  PROVE  Queue!Return(fate)
<1>1. /\ Waiting = From1(Len(returned), Outstanding) /\ Outstanding \in Nat /\ Len(returned) \in Nat
  BY DEF QueueInv
<1>2. Waiting' = From1(Len(returned)', Outstanding') /\ Outstanding' \in Nat
  BY DEF QueueInv
<1>3. Len(returned)' = Len(returned) + 1
  BY GivesFirst DEF FifoInv
<1>4. Waiting # <<>> /\ Head(Waiting) = id /\ Waiting' = Tail(Waiting)
  <2>1. Outstanding \in Nat /\ Outstanding' \in Nat
    BY <1>1, <1>2
  <2>2. Outstanding # 0
    BY <2>1
  <2>3. \A b, n \in Nat : n # 0 => /\ From1(b, n) # <<>> /\ Head(From1(b, n)) = b + 1
                                   /\ From1(b + 1, n - 1) = Tail(From1(b, n))
    BY Consecutive
  <2>4. /\ From1(Len(returned), Outstanding) # <<>>
        /\ Head(From1(Len(returned), Outstanding)) = Len(returned) + 1
        /\ From1(Len(returned) + 1, Outstanding - 1) = Tail(From1(Len(returned), Outstanding))
    BY <1>1, <2>2, <2>3
  <2>5. Waiting' = From1(Len(returned) + 1, Outstanding - 1)
    BY <1>2, <1>3
  <2>6. QED
    BY <1>1, <2>4, <2>5
<1>5. returned' = Append(returned, <<Head(Waiting), fate>>) /\ got' = IF got = <<>> THEN got ELSE Tail(got)
  BY <1>4 DEF Give
<1>6. QED
  BY <1>4, <1>5 DEF Queue!Return, Waiting

\* Every step of the channel is one of the queue, or none.
LEMMA QueueStep ==
  ASSUME IInv, LedgerInv, FifoInv, FifoInv', QueueInv, QueueInv', Next
  PROVE  Queue!Next \/ UNCHANGED Queue!vars
<1> USE DEF Goto, At
<1>1. pc \in [Procs -> Places] /\ Handed \in 0 .. 1 /\ Dist(tre_wp) \in Int /\ Len(got) \in Nat
  BY Numbers, Types DEF IInv, LifeInv
<1>2. CASE Client
  <2>1. UNCHANGED <<tre_rp, ch_state, got, returned>>
    BY <1>2 DEF Client, CallGoesOn, Call, LockPm, GenTre, AdvanceTre, AdvanceBuf, Doorbell, Fill, rings, ledger
  <2>2. Handed' = Handed
    BY <1>1, <1>2 DEF Client, CallGoesOn, Call, LockPm, GenTre, AdvanceTre, AdvanceBuf, Doorbell, Fill,
                      Returns, Procs, Handed
  <2>3. CASE UNCHANGED tre_wp
    <3>1. Outstanding' = Outstanding
      BY <2>1, <2>2, <2>3 DEF Outstanding, Dist
    <3>2. QED
      BY <2>1, <3>1, QueueSame
  <2>4. CASE ~UNCHANGED tre_wp
    <3>1. pc["client"] = "adv_tre" /\ tre_wp' = NextSlot(tre_wp)
      BY <1>2, <2>4 DEF Client, CallGoesOn, Call, LockPm, GenTre, AdvanceTre, AdvanceBuf, Doorbell, Fill, rings
    <3>2. tre_rp \in Slots /\ tre_wp \in Slots /\ ~Full(tre_rp, tre_wp)
      BY <3>1, Types DEF IInv, RingInv
    <3>3. Dist(tre_wp)' = Dist(tre_wp) + 1
      BY <2>1, <3>1, <3>2, OneMoreOneLess DEF Dist
    <3>4. Outstanding' = Outstanding + 1
      BY <1>1, <2>2, <3>3 DEF Outstanding
    <3>5. QED
      BY <2>1, <3>4, QueueSubmit DEF Queue!Next
  <2>5. QED
    BY <2>3, <2>4
<1>3. CASE TaskEvent \/ TaskLoop
  <2>1. UNCHANGED <<tre_rp, tre_wp, ch_state, got, returned>>
    BY <1>3 DEF TaskEvent, TaskDrop, TaskEot, TaskOob, TaskLoop, rings, ledger
  <2>2. Handed' = Handed
    BY <1>1, <1>3 DEF TaskEvent, TaskDrop, TaskEot, TaskOob, TaskLoop, Handed, Procs
  <2>3. Outstanding' = Outstanding
    BY <2>1, <2>2 DEF Outstanding, Dist
  <2>4. QED
    BY <2>1, <2>3, QueueSame
<1>4. CASE TaskDel
  <2>1. /\ pc["task"] = "del" /\ pc'["task"] = "cb" /\ tre_rp' = NextSlot(tre_rp)
        /\ UNCHANGED <<tre_wp, ch_state, got, returned>>
    BY <1>1, <1>4 DEF TaskDel, ledger, Procs
  <2>2. Handed = 0 /\ Handed' = 1
    BY <2>1 DEF Handed
  <2>3. tre_wp # tre_rp
    BY <2>1, ReleasesMoved DEF IInv, RingInv, Completing
  <2>4. Dist(tre_wp)' = Dist(tre_wp) - 1
    BY <2>1, <2>3, Types, Distances DEF Dist
  <2>5. Outstanding' = Outstanding
    BY <1>1, <2>2, <2>4 DEF Outstanding
  <2>6. QED
    BY <2>1, <2>5, QueueSame
<1>5. CASE TaskCallback
  <2>1. /\ pc["task"] = "cb" /\ pc'["task"] = "loop" /\ UNCHANGED <<tre_rp, tre_wp, ch_state>>
        /\ Give(hand, "done")
    BY <1>1, <1>5 DEF TaskCallback, rings, Procs
  <2>2. Handed = 1 /\ Handed' = 0 /\ Dist(tre_wp)' = Dist(tre_wp)
    BY <2>1 DEF Handed, Dist
  <2>3. Outstanding' = Outstanding - 1
    BY <1>1, <2>2 DEF Outstanding
  <2>4. hand = Len(returned) + 1 /\ hand \in Buffers
    BY <2>1 DEF FifoInv, NumberInv, IInv, DataInv
  <2>5. Queue!Return("done")
    BY <2>1, <2>3, <2>4, QueueReturn
  <2>6. ch_state = "ENABLED"
    BY <2>1 DEF IInv, LifeInv, Completing
  <2>7. got # <<>>
    <3>1. Len(got) = Dist(m_rp) + 1 /\ Dist(m_rp) \in 0 .. N - 1
      BY <2>2, <2>6, Types DEF FifoInv, MovedInv, Live
    <3>2. QED
      BY <3>1, RingAssumption
  <2>8. QED
    BY <2>5, <2>6, <2>7 DEF Queue!Next, Queue!Deliver
<1>6. CASE ModemKick \/ ModemPoll \/ ModemLeave \/ Link
  <2>1. UNCHANGED <<tre_rp, tre_wp, pc, ch_state, got, returned>>
    BY <1>6 DEF ModemKick, ModemPoll, ModemLeave, Link, GoLow, WakeM0, RingM0, Crash, Recover, rings, ledger
  <2>2. Outstanding' = Outstanding
    BY <2>1 DEF Outstanding, Dist, Handed
  <2>3. QED
    BY <2>1, <2>2, QueueSame
<1>7. CASE ModemMove
  <2>1. /\ UNCHANGED <<tre_rp, tre_wp, pc, ch_state, returned>>
        /\ \E k \in 1 .. Used(m_rp, m_wp) : m_rp' = Ahead(m_rp, k)
        /\ m_rp # m_wp
    BY <1>7 DEF ModemMove, rings
  <2>2. PICK k \in 1 .. Used(m_rp, m_wp) : m_rp' = Ahead(m_rp, k)
    BY <2>1
  <2>3. Live /\ Along
    BY <1>7 DEF ModemMove, IInv, TokenInv, Quiet, OrderInv, Live
  <2>4. Len(got) = Dist(m_rp) + Handed /\ Len(got)' = Dist(m_rp)' + Handed'
    <3>1. Live'
      BY <2>1, <2>3 DEF Live
    <3>2. QED
      BY <2>3, <3>1 DEF FifoInv, MovedInv
  <2>5. Dist(m_rp)' > Dist(m_rp)
    <3>1. /\ tre_rp \in Slots /\ m_rp \in Slots /\ m_wp \in Slots /\ Used(m_rp, m_wp) \in 0 .. N - 1
          /\ Dist(m_rp) <= Dist(m_wp) /\ Dist(m_wp) \in 0 .. N - 1
      BY <2>3, Types, Accounting DEF Along
    <3>2. Used(m_rp, m_wp) = Dist(m_wp) - Dist(m_rp)
      BY <2>2, <3>1, AheadAt DEF Dist
    <3>3. Used(tre_rp, Ahead(m_rp, k)) = Used(tre_rp, m_rp) + k
      BY <2>2, <3>1, <3>2, RingAssumption DEF Slots, Ahead, Used, Dist
    <3>4. k >= 1 /\ k \in Int /\ Dist(m_rp) \in Int
      BY <2>2, Types
    <3>5. QED
      BY <2>1, <2>2, <3>3, <3>4 DEF Dist
  <2>6. Len(got') > Len(got) /\ Outstanding' = Outstanding
    <3>1. Handed' = Handed /\ Outstanding' = Outstanding
      BY <2>1 DEF Handed, Outstanding, Dist
    <3>2. Dist(m_rp) \in Int /\ Dist(m_rp)' \in Int
      BY DEF QueueInv
    <3>3. QED
      BY <1>1, <2>4, <2>5, <3>1, <3>2
  <2>7. QED
    BY <2>1, <2>6, QueueMove DEF Queue!Next
<1>8. CASE Prepare
  <2>1. /\ pc["life"] = "idle" /\ ch_state = "DISABLED" /\ ch_state' = "ENABLED"
        /\ tre_rp' = 0 /\ tre_wp' = 0 /\ UNCHANGED <<got, returned>> /\ pc'["task"] = pc["task"]
    BY <1>1, <1>8 DEF Prepare, ledger, Procs
  <2>2. Outstanding = 0 /\ Outstanding' = 0
    <3>1. tre_rp = tre_wp /\ pc["task"] = "idle"
      BY <2>1 DEF LedgerInv, DrainedInv, IInv, LifeInv, PcInv, Completing
    <3>2. Handed = 0 /\ Handed' = 0
      BY <2>1, <3>1 DEF Handed
    <3>3. Dist(tre_wp) = 0 /\ Dist(tre_wp)' = 0
      <4>1. tre_rp \in Slots /\ 0 \in Slots
        BY Types, RingAssumption DEF Slots
      <4>2. QED
        BY <2>1, <3>1, <4>1, Distances DEF Dist
    <3>4. QED
      BY <3>2, <3>3 DEF Outstanding
  <2>3. Waiting = <<>> /\ Waiting' = <<>>
    <3>1. /\ Waiting = From1(Len(returned), 0) /\ Len(returned) \in Nat
          /\ Waiting' = From1(Len(returned)', 0)
      BY <2>2 DEF QueueInv
    <3>2. Len(returned)' = Len(returned)
      BY <2>1
    <3>3. QED
      BY <3>1, <3>2, Consecutive
  <2>4. Queue!Open
    BY <2>1, <2>3 DEF Queue!Open, Waiting
  <2>5. QED
    BY <2>4 DEF Queue!Next
<1>9. CASE Drain
  <2>1. /\ pc["life"] = "drain" /\ tre_rp # tre_wp /\ tre_rp' = NextSlot(tre_rp)
        /\ Give(buf[buf_rp], "notconn") /\ UNCHANGED <<tre_wp, pc, ch_state>>
    BY <1>9 DEF Drain
  <2>2. ch_state # "ENABLED" /\ pc["task"] = "idle"
    BY <2>1 DEF IInv, LifeInv, PcInv, Completing
  <2>3. Handed = 0 /\ Handed' = 0 /\ buf_rp = tre_rp
    BY <2>1, <2>2 DEF Handed, IInv, RingInv
  <2>4. Dist(tre_wp)' = Dist(tre_wp) - 1 /\ Dist(tre_wp) >= 1 /\ Dist(tre_rp) = 0
    BY <2>1, Types, Distances DEF Dist
  <2>5. Outstanding' = Outstanding - 1
    BY <1>1, <2>3, <2>4 DEF Outstanding
  <2>6. buf[buf_rp] = Len(returned) + 1 /\ buf[buf_rp] \in Buffers
    <3>1. Dist(tre_rp) < Dist(tre_wp) + Written
      BY <1>1, <2>4, Numbers
    <3>2. buf[tre_rp] = Len(returned) + 0 + 0 + 1
      BY <2>3, <2>4, <3>1, Types DEF FifoInv, NumberInv
    <3>3. QED
      BY <2>3, <3>2, Numbers DEF IInv, DataInv
  <2>7. Queue!Return("notconn")
    BY <2>1, <2>5, <2>6, QueueReturn
  <2>8. QED
    BY <2>2, <2>7 DEF Queue!Next, Queue!Cancel
<1>10. CASE Unprepare \/ ResetDone \/ Remove \/ Drained \/ Leave \/ Deinit
  <2>1. /\ UNCHANGED <<tre_rp, tre_wp, got, returned>> /\ pc'["task"] = pc["task"]
        /\ ch_state' = "ENABLED" => ch_state = "ENABLED"
    BY <1>1, <1>10 DEF Unprepare, ResetDone, Remove, Drained, Leave, Deinit, MarkStale, rings, ledger, Procs
  <2>2. Outstanding' = Outstanding
    BY <2>1 DEF Outstanding, Dist, Handed
  <2>3. CASE ch_state = "ENABLED" /\ ch_state' # "ENABLED"
    <3>1. Waiting' = Waiting
      <4>1. /\ Waiting = From1(Len(returned), Outstanding)
            /\ Waiting' = From1(Len(returned)', Outstanding')
        BY DEF QueueInv
      <4>2. QED
        BY <2>1, <2>2, <4>1
    <3>2. Queue!Close
      BY <2>1, <2>3, <3>1 DEF Queue!Close, Waiting
    <3>3. QED
      BY <3>2 DEF Queue!Next
  <2>4. CASE (ch_state' = "ENABLED") <=> (ch_state = "ENABLED")
    BY <2>1, <2>2, <2>4, QueueSame
  <2>5. QED
    BY <2>1, <2>3, <2>4
<1>11. QED
  BY <1>2, <1>3, <1>4, <1>5, <1>6, <1>7, <1>8, <1>9, <1>10
     DEF Next, Task, TaskInside, Modem, Teardown

\* What a client is promised of its buffers (XferQueue) is kept by the rings, the event task, the
\* modem and the teardown together: moved and returned in the order of queueing, each buffer once,
\* as completed if the modem moved it and the host learnt so, whatever errors, suspends and
\* teardowns come between; as long as mhi_queue_buf is not called across an error.
THEOREM FirstInFirstOut == NoBufCrash => (Spec => QueueSpec)
<1> SUFFICES ASSUME NoBufCrash PROVE Spec => QueueSpec
  OBVIOUS
<1>1. Init => FifoInv
  <2> SUFFICES ASSUME Init PROVE FifoInv
    OBVIOUS
  <2>1. IInv
    BY StartsWell
  <2>2. Dist(tre_wp) = 0 /\ Dist(m_rp) = 0 /\ Written = 0 /\ Handed = 0 /\ Len(got) = 0
    <3>1. tre_rp \in Slots /\ tre_wp = tre_rp /\ m_rp = tre_rp
      BY <2>1, Types DEF Init
    <3>2. QED
      BY <3>1, Distances DEF Init, Dist, Written, Handed
  <2>3. \A x \in Slots : Dist(x) \in 0 .. N - 1
    BY <2>1, Numbers
  <2>4. NumberInv
    BY <2>2, <2>3 DEF Init, NumberInv
  <2>5. MovedInv
    BY <2>2 DEF MovedInv
  <2>6. QED
    BY <2>4, <2>5 DEF FifoInv
<1>2. IInv /\ LedgerInv /\ FifoInv /\ [Next]_vars => FifoInv'
  <2> SUFFICES ASSUME IInv, LedgerInv, FifoInv, [Next]_vars PROVE FifoInv'
    OBVIOUS
  <2>1. CASE UNCHANGED vars
    <3>1. UNCHANGED <<tre, buf, tre_rp, tre_wp, m_rp, pc, ch_state, got, returned, hand>>
      BY <2>1 DEF vars, rings, modem, task, ledger
    <3>2. UNCHANGED <<Written, Handed, Dist(tre_wp), Live>>
      BY <3>1 DEF Written, Handed, Dist, Live, At
    <3>3. QED
      BY <3>1, <3>2, NumberSame, MovedSame DEF FifoInv
  <2>2. CASE Next
    BY <2>2, ClientFifo, TaskFifo, ModemFifo, LinkFifo, ChannelFifo DEF Next
  <2>3. QED
    BY <2>1, <2>2
<1>3. IInv /\ LedgerInv /\ FifoInv => QueueInv
  BY QueueShape
<1>4. Init => Queue!Init
  <2> SUFFICES ASSUME Init PROVE Queue!Init
    OBVIOUS
  <2>1. InHand = <<>> /\ Used(buf_rp, tre_wp) = 0 /\ (ch_state = "ENABLED") = FALSE
    BY RingAssumption DEF Init, InHand, Used
  <2>2. Between(buf, buf_rp, tre_wp) = <<>>
    BY <2>1 DEF Between
  <2>3. InHand \o Between(buf, buf_rp, tre_wp) = <<>>
    BY <2>1, <2>2
  <2>4. QED
    BY <2>1, <2>3 DEF Init, Queue!Init
<1>5. /\ IInv /\ LedgerInv /\ FifoInv /\ FifoInv' /\ QueueInv /\ QueueInv' /\ [Next]_vars
      => [Queue!Next]_Queue!vars
  <2> SUFFICES ASSUME IInv, LedgerInv, FifoInv, FifoInv', QueueInv, QueueInv', [Next]_vars
               PROVE  Queue!Next \/ UNCHANGED Queue!vars
    OBVIOUS
  <2>1. CASE UNCHANGED vars
    <3>1. UNCHANGED <<tre_rp, tre_wp, pc, ch_state, got, returned>>
      BY <2>1 DEF vars, rings, ledger
    <3>2. Outstanding' = Outstanding
      BY <3>1 DEF Outstanding, Dist, Handed
    <3>3. QED
      BY <3>1, <3>2, QueueSame
  <2>2. CASE Next
    BY <2>2, QueueStep
  <2>3. QED
    BY <2>1, <2>2
<1>6. QED
  BY <1>1, <1>2, <1>3, <1>4, <1>5, StartsWell, StaysWell, LedgerStarts, LedgerStays, PTL
     DEF Spec, QueueSpec, Queue!Spec
=============================================================================

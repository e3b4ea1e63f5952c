---------------------------- MODULE MhiMonProofs ----------------------------
(***************************************************************************)
(* The bookkeeping of MhiMon, for any number of files, sources, events and *)
(* failures, and any EVENT_MAX.  WellFormed is inductive: what a source    *)
(* appends to a list it counts as a list element and as an object; a read  *)
(* moves an element from the list into its hand and frees it from there;   *)
(* and a release leaves r_list before the list is emptied without a lock.  *)
(* From it follows that MhiMon implements MonLog.                          *)
(***************************************************************************)
EXTENDS MhiMon, FiniteSetTheorems, SequenceTheorems, TLAPS

-----------------------------------------------------------------------------
(* Helpers.                                                                *)

\* The bounds are numbers.
LEMMA Bounds ==
  /\ IsFiniteSet(Files) /\ IsFiniteSet(Sources)
  /\ EVENT_MAX \in Nat /\ EVENT_MAX > 0
  /\ Events \in Nat /\ Opens \in Nat /\ NoMems \in Nat /\ Faults \in Nat
  BY MonAssumption

\* The sets whose sizes are counted are finite.
LEMMA Finite ==
  ASSUME WellFormed
  PROVE  /\ IsFiniteSet(r_list) /\ Cardinality(r_list) \in Nat
         /\ IsFiniteSet(looked) /\ Cardinality(looked) \in Nat
<1>1. r_list \subseteq Files /\ looked \subseteq Sources
  BY DEF WellFormed, TypeOK
<1>2. QED BY <1>1, Bounds, FS_Subset, FS_CardinalityType

\* The text of an event is two of the halves there are.
LEMMA TextType ==
  ASSUME NEW e \in 1 .. Events
  PROVE  Text(e) \in Seq(1 .. 2 * Events) /\ Len(Text(e)) = 2
  BY Bounds DEF Text

\* The buffer of a file holds at most one event.
LEMMA BufferType ==
  ASSUME NEW r \in Reader
  PROVE  r.printf_buf \in Seq(1 .. 2 * Events) /\ Len(r.printf_buf) \in 0 .. 2
<1>1. r.printf_buf = <<>> \/ \E e \in Numbers : r.printf_buf = Text(e)
  BY DEF Reader, Texts
<1>2. CASE r.printf_buf = <<>>
  BY <1>2
<1>3. CASE \E e \in Numbers : r.printf_buf = Text(e)
  BY <1>3, TextType, Bounds DEF Numbers
<1>4. QED BY <1>1, <1>2, <1>3

\* Part of a sequence is a sequence of the same elements.
LEMMA PartType ==
  ASSUME NEW S, NEW s \in Seq(S), NEW a \in Nat, NEW b \in Nat, a + b <= Len(s)
  PROVE  SubSeq(s, a + 1, a + b) \in Seq(S)
<1>1. \A i \in (a + 1) .. (a + b) : s[i] \in S
  OBVIOUS
<1>2. a + 1 \in Int /\ a + b \in Int
  OBVIOUS
<1>3. QED BY <1>1, <1>2, SubSeqProperties, Zenon

\* A new reader, and a thread outside the driver.
LEMMA FreshType == Fresh \in Reader /\ Idle \in Thread
<1>1. <<>> \in Texts /\ <<>> \in Seq(Numbers)
  BY DEF Texts
<1>2. Fresh \in Reader
  BY <1>1 DEF Fresh, Reader
<1>3. Idle \in Thread
  BY Bounds DEF Idle, Thread
<1>4. QED BY <1>2, <1>3

\* What mon_text_event makes of a reader.
LEMMA AddedType ==
  ASSUME NEW r \in Reader, NEW e \in Numbers
  PROVE  /\ Added(r, e) \in Reader
         /\ Added(r, e).nevents = r.nevents + 1 /\ Added(r, e).objs = r.objs + 1
         /\ Len(Added(r, e).e_list) = Len(r.e_list) + 1
         /\ Added(r, e).left_pos = r.left_pos /\ Added(r, e).left_size = r.left_size
         /\ Added(r, e).printf_buf = r.printf_buf
<1>1. DEFINE q == Append(r.e_list, e)
<1>2. r.e_list \in Seq(Numbers) /\ q \in Seq(Numbers) /\ Len(q) = Len(r.e_list) + 1
  BY DEF Reader
<1>3. r.nevents + 1 \in Nat /\ r.objs + 1 \in Nat
  BY DEF Reader
<1> HIDE DEF q
<1>4. Added(r, e) = [r EXCEPT !.e_list = q, !.nevents = r.nevents + 1, !.objs = r.objs + 1]
  BY DEF Added, q
<1>5. QED BY <1>2, <1>3, <1>4 DEF Reader

\* Failures that are allowed for may happen.
LEMMA BudgetType ==
  ASSUME NEW b \in Budget
  PROVE  /\ \A k \in Nat : k <= b.nomem => [b EXCEPT !.nomem = @ - k] \in Budget
         /\ b.open > 0 => [b EXCEPT !.open = @ - 1] \in Budget
         /\ b.fault > 0 => [b EXCEPT !.fault = @ - 1] \in Budget
         /\ b.open > 0 /\ b.nomem > 0 =>
              [b EXCEPT !.open = b.open - 1, !.nomem = b.nomem - 1] \in Budget
<1>1. ASSUME NEW k \in Nat, k <= b.nomem PROVE [b EXCEPT !.nomem = @ - k] \in Budget
  BY <1>1 DEF Budget
<1>2. ASSUME b.open > 0 PROVE [b EXCEPT !.open = @ - 1] \in Budget
  BY <1>2 DEF Budget
<1>3. ASSUME b.fault > 0 PROVE [b EXCEPT !.fault = @ - 1] \in Budget
  BY <1>3 DEF Budget
<1>4. ASSUME b.open > 0, b.nomem > 0
      PROVE  [b EXCEPT !.open = b.open - 1, !.nomem = b.nomem - 1] \in Budget
  <2>1. b.open - 1 \in Nat /\ b.nomem - 1 \in Nat
    BY <1>4 DEF Budget
  <2>2. ASSUME NEW x \in Nat, NEW y \in Nat PROVE [b EXCEPT !.open = x, !.nomem = y] \in Budget
    BY DEF Budget
  <2>3. QED BY <2>1, <2>2
<1>5. QED BY <1>1, <1>2, <1>3, <1>4

\* A step that leaves the reader and its thread alone leaves their bookkeeping alone.
LEMMA ReaderKept ==
  ASSUME NEW f \in Files, ReaderOK(f), rp'[f] = rp[f], rd'[f] = rd[f], file'[f] = file[f]
  PROVE  ReaderOK(f)'
  BY DEF ReaderOK

-----------------------------------------------------------------------------
\* mhi_init_debugfs.
LEMMA InitOK == Init => WellFormed
<1> SUFFICES ASSUME Init PROVE WellFormed
  OBVIOUS
<1>1. Cardinality({}) = 0
  BY FS_EmptySet
<1>2. TypeOK
  BY Bounds, FreshType DEF Init, TypeOK, Budget
<1>3. BusOK
  BY <1>1, Bounds DEF Init, BusOK
<1>4. ASSUME NEW f \in Files PROVE ReaderOK(f)
  BY Bounds DEF Init, ReaderOK, Fresh, Idle
<1>5. QED BY <1>2, <1>3, <1>4 DEF WellFormed

-----------------------------------------------------------------------------
(* One lemma for each group of actions.                                    *)

\* Look, mon_bus_submit and its kin with mon_text_event.
LEMMA SourceStep ==
  ASSUME WellFormed, NEW s \in Sources, Look(s) \/ Submit(s)
  PROVE  WellFormed'
<1> USE DEF WellFormed
<1>1. CASE Look(s)
  <2>1. Cardinality(looked') = Cardinality(looked) + 1
    BY <1>1, Finite, FS_AddElement DEF Look
  <2>2. TypeOK'
    BY <1>1 DEF Look, TypeOK, bus
  <2>3. cnt_events' + Cardinality(looked') <= Events
    BY <1>1, <2>1, Finite, Bounds DEF Look, TypeOK, bus
  <2>6. BusOK'
    BY <1>1, <2>3 DEF Look, BusOK, bus
  <2>4. ASSUME NEW f \in Files PROVE ReaderOK(f)'
    BY <1>1, ReaderKept DEF Look
  <2>5. QED BY <2>2, <2>6, <2>4
<1>2. CASE Submit(s)
  <2> DEFINE Missed(oom) == oom \cup {f \in r_list : rp[f].nevents >= EVENT_MAX}
  <2>1. PICK oom \in SUBSET r_list :
          /\ s \in looked /\ looked' = looked \ {s}
          /\ Cardinality(oom) <= budget.nomem
          /\ budget' = [budget EXCEPT !.nomem = @ - Cardinality(oom)]
          /\ cnt_events' = cnt_events + 1
          /\ cnt_text_lost' = cnt_text_lost + Cardinality(Missed(oom))
          /\ rp' = [f \in Files |-> IF f \in r_list \ Missed(oom) THEN Added(rp[f], cnt_events')
                                                                  ELSE rp[f]]
          /\ rd' = [f \in Files |-> IF f \in r_list \ Missed(oom) /\ rd[f].pc # "idle"
                                    THEN [rd[f] EXCEPT !.awake = TRUE] ELSE rd[f]]
          /\ UNCHANGED <<dir, nreaders, r_list, ref, file, copied>>
    BY <1>2 DEF Submit
  <2>2. Cardinality(looked') = Cardinality(looked) - 1 /\ Cardinality(looked') \in Nat
    BY <2>1, Finite, FS_RemoveElement, FS_CardinalityType
  <2>3. Cardinality(oom) \in Nat /\ Cardinality(Missed(oom)) \in Nat
    <3>1. Missed(oom) \in SUBSET r_list
      BY <2>1
    <3>2. QED BY <3>1, Finite, FS_Subset, FS_CardinalityType
  <2>14. /\ cnt_events + Cardinality(looked) <= Events /\ cnt_events \in Nat
         /\ Cardinality(looked) \in Nat /\ Events \in Nat
    BY Finite, Bounds DEF BusOK, TypeOK
  <2>15. cnt_events' \in 1 .. Events /\ cnt_events' + Cardinality(looked') <= Events
    <3>1. cnt_events' = cnt_events + 1
      BY <2>1
    <3>2. QED BY <2>2, <2>14, <3>1
  <2>4. cnt_events' \in Numbers
    BY <2>15 DEF Numbers
  <2>5. \A f \in r_list : file[f] = "open" /\ (f \notin Missed(oom) => rp[f].nevents < EVENT_MAX)
    BY Bounds DEF BusOK, TypeOK, Reader
  <2> HIDE DEF Missed
  <2>6. rp' \in [Files -> Reader]
    BY <2>1, <2>4, AddedType DEF TypeOK
  <2>7. rd' \in [Files -> Thread]
    <3>1. ASSUME NEW t \in Thread PROVE [t EXCEPT !.awake = TRUE] \in Thread
      BY DEF Thread
    <3>2. QED BY <2>1, <3>1 DEF TypeOK
  <2>8. budget' \in Budget
    BY <2>1, <2>3, BudgetType DEF TypeOK
  <2>9. TypeOK'
    <3>1. cnt_events' \in 0 .. Events
      BY <2>14, <2>15
    <3>2. cnt_text_lost' \in Nat
      BY <2>1, <2>3 DEF TypeOK
    <3>3. QED BY <2>1, <2>6, <2>7, <2>8, <3>1, <3>2 DEF TypeOK
  <2>10. BusOK'
    BY <2>1, <2>15 DEF BusOK
  <2>11. ASSUME NEW f \in Files PROVE ReaderOK(f)'
    <3>1. ReaderOK(f) /\ rp[f] \in Reader /\ rd[f] \in Thread
      BY DEF TypeOK
    <3>2. CASE f \in r_list \ Missed(oom)
      <4>1. rp'[f] = Added(rp[f], cnt_events') /\ file'[f] = "open"
        BY <2>1, <2>5, <3>2
      <4>2. /\ rd'[f].pc = rd[f].pc /\ rd'[f].n = rd[f].n /\ rd'[f].ep = rd[f].ep
        BY <2>1, <3>1, <3>2 DEF Thread
      <4>5. rd[f] = Idle => rd'[f] = Idle
        BY <2>1, <3>2 DEF Idle
      <4>3. rp[f].nevents < EVENT_MAX
        BY <2>5, <3>2
      <4> DEFINE a == Added(rp[f], cnt_events')
      <4>6. /\ rp[f].nevents \in Nat /\ rp[f].objs \in Nat /\ Len(rp[f].e_list) \in Nat
        BY <3>1 DEF Reader
      <4>7. /\ rp[f].nevents = Len(rp[f].e_list)
            /\ rp[f].objs = Len(rp[f].e_list) + (IF rd[f].ep = 0 THEN 0 ELSE 1)
            /\ rp[f].left_pos + rp[f].left_size <= Len(rp[f].printf_buf)
            /\ rd[f].pc # "idle" => rp[f].left_size = 0
            /\ rd[f].pc = "idle" => rd[f] = Idle
            /\ rd[f].n = 0 => rd[f].pc = "idle"
            /\ rd[f].pc = "print" <=> rd[f].ep # 0
        BY <3>1 DEF ReaderOK
      <4>8. /\ a.nevents = rp[f].nevents + 1 /\ a.objs = rp[f].objs + 1
            /\ Len(a.e_list) = Len(rp[f].e_list) + 1
            /\ a.left_pos = rp[f].left_pos /\ a.left_size = rp[f].left_size
            /\ a.printf_buf = rp[f].printf_buf
        BY <2>4, <3>1, AddedType
      <4>9. rp'[f] = a
        BY <4>1
      <4> HIDE DEF a
      <4>10. a.nevents <= EVENT_MAX /\ a.nevents = Len(a.e_list)
        BY <4>3, <4>6, <4>7, <4>8, Bounds
      <4>11. a.objs = Len(a.e_list) + (IF rd[f].ep = 0 THEN 0 ELSE 1)
        <5>1. CASE rd[f].ep = 0
          BY <4>6, <4>7, <4>8, <5>1
        <5>2. CASE rd[f].ep # 0
          BY <4>6, <4>7, <4>8, <5>2
        <5>3. QED BY <5>1, <5>2
      <4>12. a.left_pos + a.left_size <= Len(a.printf_buf)
        BY <4>7, <4>8
      <4>13. rd[f].pc # "idle" => a.left_size = 0
        BY <4>7, <4>8
      <4>14. QED BY <4>1, <4>2, <4>5, <4>7, <4>9, <4>10, <4>11, <4>12, <4>13 DEF ReaderOK
    <3>3. CASE f \notin r_list \ Missed(oom)
      BY <2>1, <3>1, <3>3, ReaderKept
    <3>4. QED BY <3>2, <3>3
  <2>12. QED BY <2>9, <2>10, <2>11
<1>3. QED BY <1>1, <1>2

\* mon_text_open and mon_text_release.
LEMMA FileStep ==
  ASSUME WellFormed, NEW f \in Files, Open(f) \/ OpenFails(f) \/ Unregister(f) \/ Drain(f)
  PROVE  WellFormed'
<1> USE DEF WellFormed
<1>1. CASE Open(f)
  <2>1. f \notin r_list
    BY <1>1 DEF Open, BusOK
  <2>2. Cardinality(r_list') = Cardinality(r_list) + 1
    BY <1>1, <2>1, Finite, FS_AddElement DEF Open
  <2>3. budget' \in Budget
    BY <1>1, BudgetType DEF Open, TypeOK
  <2>4. TypeOK'
    BY <1>1, <2>3, FreshType DEF Open, TypeOK
  <2>5. r_list' = {g \in Files : file'[g] = "open"}
    BY <1>1 DEF Open, BusOK, TypeOK
  <2>6. BusOK'
    <3>1. nreaders' = Cardinality(r_list') /\ ref' > nreaders'
      <4>1. nreaders' = nreaders + 1 /\ ref' = ref + 1
        BY <1>1 DEF Open
      <4>2. nreaders = Cardinality(r_list) /\ ref > nreaders /\ ref \in Nat /\ nreaders \in Nat
        BY DEF BusOK, TypeOK
      <4>3. QED BY <2>2, <4>1, <4>2
    <3>2. QED BY <1>1, <2>5, <3>1 DEF Open, BusOK
  <2>7. ASSUME NEW g \in Files PROVE ReaderOK(g)'
    <3>1. CASE g = f
      <4>1. rp'[f] = Fresh /\ rd'[f] = Idle /\ file'[f] = "open"
        BY <1>1 DEF Open, TypeOK, ReaderOK
      <4>2. QED BY <3>1, <4>1, Bounds DEF ReaderOK, Fresh, Idle
    <3>2. CASE g # f
      BY <1>1, <3>2, ReaderKept DEF Open, TypeOK
    <3>3. QED BY <3>1, <3>2
  <2>8. QED BY <2>4, <2>6, <2>7
<1>2. CASE OpenFails(f)
  <2>1. budget' \in Budget
    BY <1>2, BudgetType DEF OpenFails, TypeOK
  <2>2. TypeOK'
    BY <1>2, <2>1 DEF OpenFails, TypeOK, bus
  <2>3. BusOK'
    BY <1>2 DEF OpenFails, BusOK, bus
  <2>4. ASSUME NEW g \in Files PROVE ReaderOK(g)'
    BY <1>2, ReaderKept DEF OpenFails
  <2>5. QED BY <2>2, <2>3, <2>4
<1>3. CASE Unregister(f)
  <2>1. f \in r_list
    BY <1>3 DEF Unregister, BusOK
  <2>2. Cardinality(r_list') = Cardinality(r_list) - 1
    BY <1>3, <2>1, Finite, FS_RemoveElement DEF Unregister
  <2>3. ref' = ref - 1 /\ ref > nreaders /\ nreaders > 0 /\ ref \in Nat /\ nreaders \in Nat
    BY <1>3 DEF Unregister, TypeOK, BusOK
  <2>4. TypeOK'
    BY <1>3, <2>3 DEF Unregister, TypeOK
  <2>5. r_list' = {g \in Files : file'[g] = "open"}
    BY <1>3 DEF Unregister, BusOK, TypeOK
  <2>6. BusOK'
    <3>1. nreaders' = Cardinality(r_list') /\ ref' > nreaders'
      <4>1. nreaders' = nreaders - 1 /\ nreaders = Cardinality(r_list)
        BY <1>3 DEF Unregister, BusOK
      <4>2. QED BY <2>2, <2>3, <4>1
    <3>2. QED BY <1>3, <2>5, <3>1 DEF Unregister, BusOK
  <2>7. ASSUME NEW g \in Files PROVE ReaderOK(g)'
    <3>1. CASE g = f
      BY <1>3, <3>1 DEF Unregister, ReaderOK, TypeOK
    <3>2. CASE g # f
      BY <1>3, <3>2, ReaderKept DEF Unregister, TypeOK
    <3>3. QED BY <3>1, <3>2
  <2>8. QED BY <2>4, <2>6, <2>7
<1>4. CASE Drain(f)
  <2>1. rd[f] = Idle /\ rp[f].objs - Len(rp[f].e_list) = 0
    <3>1. rp[f] \in Reader /\ ReaderOK(f) /\ rd[f] = Idle /\ Idle.ep = 0
      BY <1>4 DEF Drain, TypeOK, ReaderOK, Idle
    <3>2. QED BY <3>1 DEF ReaderOK, Reader
  <2>2. rp' = [rp EXCEPT ![f] = [Fresh EXCEPT !.objs = 0]]
    BY <1>4, <2>1 DEF Drain
  <2>3. [Fresh EXCEPT !.objs = 0] = Fresh
    BY DEF Fresh
  <2>4. TypeOK'
    BY <1>4, <2>2, <2>3, FreshType DEF Drain, TypeOK, bus
  <2>5. BusOK'
    BY <1>4 DEF Drain, BusOK, TypeOK, bus
  <2>6. ASSUME NEW g \in Files PROVE ReaderOK(g)'
    <3>1. CASE g = f
      <4>1. rp'[f] = Fresh /\ rd'[f] = Idle
        BY <1>4, <2>1, <2>2, <2>3 DEF Drain, TypeOK
      <4>2. QED BY <3>1, <4>1, Bounds DEF ReaderOK, Fresh, Idle
    <3>2. CASE g # f
      BY <1>4, <3>2, ReaderKept DEF Drain, TypeOK
    <3>3. QED BY <3>1, <3>2
  <2>7. QED BY <2>4, <2>5, <2>6
<1>5. QED BY <1>1, <1>2, <1>3, <1>4

\* The part of mon_text_fetch that takes an event.
LEMMA TakenType ==
  ASSUME NEW r \in Reader, r.e_list # <<>>, r.nevents = Len(r.e_list)
  PROVE  /\ Taken(r) \in Reader /\ Head(r.e_list) \in Numbers
         /\ Taken(r).nevents = r.nevents - 1 /\ Taken(r).objs = r.objs
         /\ Len(Taken(r).e_list) = Len(r.e_list) - 1
         /\ Taken(r).left_pos = r.left_pos /\ Taken(r).left_size = r.left_size
         /\ Taken(r).printf_buf = r.printf_buf
<1>1. DEFINE q == Tail(r.e_list)
<1>2. r.e_list \in Seq(Numbers) /\ r.e_list # <<>>
  BY DEF Reader
<1>3. q \in Seq(Numbers) /\ Len(q) = Len(r.e_list) - 1 /\ Head(r.e_list) \in Numbers
  BY <1>2, HeadTailProperties
<1>4. r.nevents - 1 \in Nat
  BY <1>3, LenProperties DEF Reader
<1> HIDE DEF q
<1>5. Taken(r) = [r EXCEPT !.e_list = q, !.nevents = r.nevents - 1]
  BY DEF Taken, q
<1>6. QED BY <1>3, <1>4, <1>5 DEF Reader

\* The second half of an event is consumed.
LEMMA ConsumedType ==
  ASSUME NEW r \in Reader, r.left_size = 1, r.left_pos + 1 <= 2
  PROVE  /\ Consumed(r, 1) \in Reader
         /\ Consumed(r, 1).left_pos = r.left_pos + 1 /\ Consumed(r, 1).left_size = 0
         /\ Consumed(r, 1).e_list = r.e_list /\ Consumed(r, 1).nevents = r.nevents
         /\ Consumed(r, 1).objs = r.objs /\ Consumed(r, 1).printf_buf = r.printf_buf
<1>1. r.left_pos + 1 \in 0 .. 2 /\ r.left_size - 1 = 0
  BY DEF Reader
<1> DEFINE p == r.left_pos + 1
           s == Consumed(r, 1)
           z == r.left_size - 1
<1>5. p \in 0 .. 2 /\ s = [r EXCEPT !.left_pos = p, !.left_size = z]
  BY <1>1 DEF Consumed
<1>3. z = 0 /\ z \in 0 .. 1
  BY <1>1
<1> HIDE DEF p, s, z
<1>6. /\ s \in Reader /\ s.left_pos = p /\ s.left_size = z
      /\ s.e_list = r.e_list /\ s.nevents = r.nevents
      /\ s.objs = r.objs /\ s.printf_buf = r.printf_buf
  BY <1>3, <1>5 DEF Reader
<1>7. QED BY <1>3, <1>6 DEF p, s

\* What a reader is when an event of it has been formatted and freed.
LEMMA ShownType ==
  ASSUME NEW r \in Reader, NEW e \in Numbers, NEW n \in 1 .. 2, r.objs > 0, r.left_size = 0
  PROVE  LET s == Freed(Formatted(r, e, n)) IN
         /\ s \in Reader /\ s.e_list = r.e_list /\ s.nevents = r.nevents
         /\ s.objs = r.objs - 1 /\ s.printf_buf = Text(e)
         /\ s.left_pos + s.left_size <= Len(s.printf_buf)
<1> DEFINE p == IF n < 2 THEN n ELSE r.left_pos
           z == IF n < 2 THEN 2 - n ELSE r.left_size
<1>1. p \in 0 .. 2 /\ z \in 0 .. 1 /\ p + z <= 2
  BY DEF Reader
<1>2. Text(e) \in Texts /\ r.objs - 1 \in Nat
  BY DEF Texts, Reader
<1>3. Formatted(r, e, n) = [r EXCEPT !.printf_buf = Text(e), !.left_pos = p, !.left_size = z]
  BY DEF Formatted
<1>4. Len(Text(e)) = 2
  BY TextType DEF Numbers
<1> HIDE DEF p, z
<1>5. Freed(Formatted(r, e, n)) = [r EXCEPT !.printf_buf = Text(e), !.left_pos = p,
                                            !.left_size = z, !.objs = r.objs - 1]
  BY <1>3 DEF Freed, Reader
<1>6. QED BY <1>1, <1>2, <1>4, <1>5 DEF Reader

\* A step of one reader and its thread that keeps what ReaderOK says of them.
LEMMA OneReader ==
  ASSUME WellFormed, NEW f \in Files, NEW r \in Reader, NEW t \in Thread,
         rp' = [rp EXCEPT ![f] = r], rd' = [rd EXCEPT ![f] = t],
         UNCHANGED <<dir, bus, looked, file>>,
         budget' \in Budget, copied' \in Seq(1 .. 2 * Events),
         rp'[f] = r /\ rd'[f] = t /\ file'[f] = file[f] => ReaderOK(f)'
  PROVE  WellFormed'
<1>1. TypeOK'
  BY DEF WellFormed, TypeOK, bus
<1>2. BusOK'
  BY DEF WellFormed, BusOK, bus
<1>3. ASSUME NEW g \in Files PROVE ReaderOK(g)'
  <2>1. CASE g = f
    BY <2>1 DEF WellFormed, TypeOK
  <2>2. CASE g # f
    BY <2>2, ReaderKept DEF WellFormed, TypeOK
  <2>3. QED BY <2>1, <2>2
<1>4. QED BY <1>1, <1>2, <1>3 DEF WellFormed

-----------------------------------------------------------------------------
\* A read enters: it takes what is left over, or joins the wait queue.
LEMMA EnterStep ==
  ASSUME WellFormed, NEW f \in Files, NEW n \in 1 .. 2, ReadLeft(f, n) \/ ReadWait(f, n)
  PROVE  WellFormed'
<1>1. /\ rp[f] \in Reader /\ rd[f] \in Thread /\ ReaderOK(f)
      /\ rp = [rp EXCEPT ![f] = rp[f]] /\ rd = [rd EXCEPT ![f] = rd[f]]
      /\ budget \in Budget /\ copied \in Seq(1 .. 2 * Events)
  BY DEF WellFormed, TypeOK
<1>2. CASE ReadLeft(f, n)
  <2>1. rp[f].left_size = 1 /\ (IF rp[f].left_size > n THEN n ELSE rp[f].left_size) = 1
    BY <1>1, <1>2 DEF ReadLeft, Reader
  <2>2. UNCHANGED <<dir, bus, looked, file, rd>> /\ file[f] = "open" /\ rd[f].pc = "idle"
    BY <1>2 DEF ReadLeft, Enters
  <2>3. CASE rp' = [rp EXCEPT ![f] = Consumed(rp[f], 1)] /\ Copy(f, rp[f].left_pos, 1)
    <3>1. rp[f].left_pos + 1 <= Len(rp[f].printf_buf) /\ rp[f].left_pos \in Nat
      BY <1>1, <2>1 DEF ReaderOK, Reader
    <3>2. rp[f].left_pos + 1 <= 2
      <4>1. Len(rp[f].printf_buf) \in 0 .. 2
        BY <1>1, BufferType
      <4>2. ASSUME NEW a \in Nat, NEW b \in 0 .. 2, a + 1 <= b PROVE a + 1 <= 2
        BY <4>2
      <4>3. QED BY <3>1, <4>1, <4>2
    <3>3. /\ Consumed(rp[f], 1) \in Reader
          /\ Consumed(rp[f], 1).left_pos = rp[f].left_pos + 1
          /\ Consumed(rp[f], 1).left_size = 0
          /\ Consumed(rp[f], 1).e_list = rp[f].e_list
          /\ Consumed(rp[f], 1).nevents = rp[f].nevents
          /\ Consumed(rp[f], 1).objs = rp[f].objs
          /\ Consumed(rp[f], 1).printf_buf = rp[f].printf_buf
      BY <1>1, <2>1, <3>2, ConsumedType
    <3>4. copied' \in Seq(1 .. 2 * Events) /\ budget' = budget
      <4>1. rp'[f] = Consumed(rp[f], 1)
        BY <2>3, <1>1 DEF WellFormed, TypeOK
      <4>2. copied' = SubSeq(rp[f].printf_buf, rp[f].left_pos + 1, rp[f].left_pos + 1)
        BY <2>3, <3>3, <4>1 DEF Copy
      <4>3. rp[f].printf_buf \in Seq(1 .. 2 * Events)
        BY <1>1, BufferType
      <4>4. QED BY <2>3, <3>1, <4>2, <4>3, PartType DEF Copy
    <3>5. ASSUME rp'[f] = Consumed(rp[f], 1), rd'[f] = rd[f], file'[f] = file[f]
          PROVE  ReaderOK(f)'
      <4>1. rp[f].left_pos + 1 + 0 <= Len(rp[f].printf_buf)
        BY <3>1
      <4>2. QED BY <1>1, <2>2, <3>3, <3>5, <4>1 DEF ReaderOK
    <3>6. QED BY <1>1, <2>2, <2>3, <3>3, <3>4, <3>5, OneReader
  <2>4. CASE CopyFaults /\ UNCHANGED rp
    <3>1. budget' \in Budget
      BY <1>1, <2>4, BudgetType DEF CopyFaults
    <3>3. copied' \in Seq(1 .. 2 * Events)
      BY <2>4 DEF CopyFaults
    <3>2. QED BY <1>1, <2>2, <2>4, <3>1, <3>3, ReaderKept, OneReader
  <2>5. QED BY <1>2, <2>1, <2>3, <2>4 DEF ReadLeft
<1>3. CASE ReadWait(f, n)
  <2> DEFINE t == [Idle EXCEPT !.pc = "fetch", !.n = n, !.awake = FALSE]
  <2>5. t = [Idle EXCEPT !.pc = "fetch", !.n = n, !.awake = FALSE]
    OBVIOUS
  <2> HIDE DEF t
  <2>1. t \in Thread /\ t.pc = "fetch" /\ t.n = n /\ t.ep = 0
    <3>1. n \in 0 .. 2 /\ Idle.ep = 0
      BY DEF Idle
    <3>2. QED BY <2>5, <3>1, FreshType DEF Thread
  <2>2. /\ rd' = [rd EXCEPT ![f] = t] /\ rp' = rp /\ UNCHANGED <<dir, bus, looked, file>>
        /\ UNCHANGED <<budget, copied>>
        /\ rd[f].pc = "idle" /\ file[f] = "open" /\ rp[f].left_size = 0
    BY <1>3, <2>5 DEF ReadWait, Step, Enters
  <2>3. ASSUME rp'[f] = rp[f], rd'[f] = t, file'[f] = file[f]
        PROVE  ReaderOK(f)'
    <3>1. rd[f].ep = 0 /\ t.n # 0
      BY <1>1, <2>1, <2>2 DEF ReaderOK, Idle
    <3>2. QED BY <1>1, <2>1, <2>2, <2>3, <3>1 DEF ReaderOK
  <2>4. QED BY <1>1, <2>1, <2>2, <2>3, OneReader
<1>4. QED BY <1>2, <1>3

\* mon_text_read_wait and the rest of mon_text_read_u, and a signal for the thread.
LEMMA InsideStep ==
  ASSUME WellFormed, NEW f \in Files, Inside(f) \/ Signal(f)
  PROVE  WellFormed'
<1>1. /\ rp[f] \in Reader /\ rd[f] \in Thread /\ ReaderOK(f)
      /\ rp = [rp EXCEPT ![f] = rp[f]] /\ rd = [rd EXCEPT ![f] = rd[f]]
      /\ budget \in Budget /\ copied \in Seq(1 .. 2 * Events)
  BY DEF WellFormed, TypeOK
<1>2. Idle \in Thread /\ Idle.pc = "idle" /\ Idle.ep = 0 /\ Idle.n = 0
  BY FreshType DEF Idle
\* A thread inside that has no event in hand, before and after.
<1>3. ASSUME NEW t \in Thread, rd[f].pc # "idle", t.pc \in {"fetch", "empty", "sleep"},
             t.n = rd[f].n, rd[f].ep = 0, t.ep = 0,
             rp' = rp, rd' = [rd EXCEPT ![f] = t], UNCHANGED <<dir, bus, looked, file>>,
             UNCHANGED <<budget, copied>>
      PROVE  WellFormed'
  <2>1. ASSUME rp'[f] = rp[f], rd'[f] = t, file'[f] = file[f] PROVE ReaderOK(f)'
    BY <1>1, <1>3, <2>1 DEF ReaderOK
  <2>2. QED BY <1>1, <1>3, <2>1, OneReader
\* A thread inside that has no event in hand and leaves.
<1>4. ASSUME rd[f].pc # "idle", rd[f].ep = 0,
             rp' = rp, rd' = [rd EXCEPT ![f] = Idle], UNCHANGED <<dir, bus, looked, file>>,
             UNCHANGED <<budget, copied>>
      PROVE  WellFormed'
  <2>1. ASSUME rp'[f] = rp[f], rd'[f] = Idle, file'[f] = file[f] PROVE ReaderOK(f)'
    BY <1>1, <1>2, <1>4, <2>1 DEF ReaderOK
  <2>2. QED BY <1>1, <1>2, <1>4, <2>1, OneReader
<1>5. CASE Fetch(f)
  <2>1. rd[f].pc = "fetch" /\ rd[f].ep = 0 /\ file[f] = "open"
    BY <1>1, <1>5 DEF Fetch, Step, ReaderOK
  <2>2. CASE rp[f].e_list = <<>>
    <3> DEFINE t == [rd[f] EXCEPT !.pc = "empty"]
    <3>1. t \in Thread /\ t.pc = "empty" /\ t.n = rd[f].n /\ t.ep = rd[f].ep
      BY <1>1 DEF Thread
    <3>2. /\ rp' = rp /\ rd' = [rd EXCEPT ![f] = t] /\ UNCHANGED <<dir, bus, looked, file>>
          /\ UNCHANGED <<budget, copied>>
      BY <1>5, <2>2 DEF Fetch, Step
    <3> HIDE DEF t
    <3>3. QED BY <1>3, <2>1, <3>1, <3>2
  <2>3. CASE rp[f].e_list # <<>>
    <3> DEFINE e == Head(rp[f].e_list)
               t == [rd[f] EXCEPT !.pc = "print", !.ep = e, !.awake = TRUE]
               r == Taken(rp[f])
    <3>1. /\ r \in Reader /\ e \in Numbers
          /\ r.nevents = rp[f].nevents - 1 /\ r.objs = rp[f].objs
          /\ Len(r.e_list) = Len(rp[f].e_list) - 1
          /\ r.left_pos = rp[f].left_pos /\ r.left_size = rp[f].left_size
          /\ r.printf_buf = rp[f].printf_buf
      BY <1>1, <2>3, TakenType DEF ReaderOK
    <3>2. /\ rp' = [rp EXCEPT ![f] = r] /\ rd' = [rd EXCEPT ![f] = t]
          /\ UNCHANGED <<dir, bus, looked, file>> /\ UNCHANGED <<budget, copied>>
      BY <1>5, <2>3 DEF Fetch, Step
    <3>3. t = [rd[f] EXCEPT !.pc = "print", !.ep = e, !.awake = TRUE]
      OBVIOUS
    <3>4. e \in 0 .. Events /\ e # 0
      BY <3>1, Bounds DEF Numbers
    <3> HIDE DEF e, t, r
    <3>5. t \in Thread /\ t.pc = "print" /\ t.n = rd[f].n /\ t.ep = e
      BY <1>1, <3>3, <3>4 DEF Thread
    <3>6. /\ rp[f].nevents \in Nat /\ rp[f].objs \in Nat /\ Len(rp[f].e_list) \in Nat
          /\ rp[f].nevents = Len(rp[f].e_list) /\ rp[f].nevents <= EVENT_MAX
          /\ rp[f].objs = Len(rp[f].e_list)
      BY <1>1, <2>1 DEF ReaderOK, Reader
    <3>7. /\ r.nevents = Len(r.e_list) /\ r.nevents <= EVENT_MAX
          /\ r.objs = Len(r.e_list) + 1
      BY <3>1, <3>6, Bounds
    <3>8. ASSUME rp'[f] = r, rd'[f] = t, file'[f] = file[f] PROVE ReaderOK(f)'
      BY <1>1, <2>1, <3>1, <3>4, <3>5, <3>7, <3>8 DEF ReaderOK
    <3>9. QED BY <1>1, <3>1, <3>2, <3>5, <3>8, OneReader
  <2>4. QED BY <2>2, <2>3
<1>6. CASE Nothing(f)
  <2>1. rd[f].pc = "empty" /\ rd[f].ep = 0
    BY <1>1, <1>6 DEF Nothing, Step, ReaderOK
  <2>2. rp' = rp /\ UNCHANGED <<dir, bus, looked, file>> /\ UNCHANGED <<budget, copied>>
    BY <1>6 DEF Nothing, Step
  <2>3. CASE f \in Impatient
    <3>1. rd' = [rd EXCEPT ![f] = Idle]
      BY <1>6, <2>3 DEF Nothing, Step
    <3>2. QED BY <1>4, <2>1, <2>2, <3>1
  <2>4. CASE f \notin Impatient
    <3> DEFINE t == [rd[f] EXCEPT !.pc = "sleep"]
    <3>1. t \in Thread /\ t.pc = "sleep" /\ t.n = rd[f].n /\ t.ep = rd[f].ep
      BY <1>1 DEF Thread
    <3>2. rd' = [rd EXCEPT ![f] = t]
      BY <1>6, <2>4 DEF Nothing, Step
    <3> HIDE DEF t
    <3>3. QED BY <1>3, <2>1, <2>2, <3>1, <3>2
  <2>5. QED BY <2>3, <2>4
<1>7. CASE Wake(f)
  <2>1. rd[f].pc = "sleep" /\ rd[f].ep = 0
    BY <1>1, <1>7 DEF Wake, Step, ReaderOK
  <2>2. rp' = rp /\ UNCHANGED <<dir, bus, looked, file>> /\ UNCHANGED <<budget, copied>>
    BY <1>7 DEF Wake, Step
  <2>3. CASE rd[f].signal
    <3>1. rd' = [rd EXCEPT ![f] = Idle]
      BY <1>7, <2>3 DEF Wake, Step
    <3>2. QED BY <1>4, <2>1, <2>2, <3>1
  <2>4. CASE ~rd[f].signal
    <3> DEFINE t == [rd[f] EXCEPT !.pc = "fetch", !.awake = FALSE]
    <3>1. t \in Thread /\ t.pc = "fetch" /\ t.n = rd[f].n /\ t.ep = rd[f].ep
      BY <1>1 DEF Thread
    <3>2. rd' = [rd EXCEPT ![f] = t]
      BY <1>7, <2>4 DEF Wake, Step
    <3> HIDE DEF t
    <3>3. QED BY <1>3, <2>1, <2>2, <3>1, <3>2
  <2>5. QED BY <2>3, <2>4
<1>8. CASE Show(f)
  <2>1. /\ rd[f].pc = "print" /\ rd' = [rd EXCEPT ![f] = Idle]
        /\ UNCHANGED <<dir, bus, looked, file>>
        /\ Copy(f, 0, rd[f].n) \/ CopyFaults
    BY <1>8 DEF Show
  <2>2. rd[f].ep \in Numbers /\ rd[f].n \in 1 .. 2
    BY <1>1, <2>1 DEF ReaderOK, Thread, Numbers
  <2>3. /\ rp[f].nevents \in Nat /\ rp[f].objs \in Nat /\ Len(rp[f].e_list) \in Nat
        /\ rp[f].nevents = Len(rp[f].e_list) /\ rp[f].nevents <= EVENT_MAX
        /\ rp[f].objs = Len(rp[f].e_list) + 1 /\ rp[f].left_size = 0
    BY <1>1, <2>1 DEF ReaderOK, Reader
  <2> DEFINE r == Freed(Shown(f))
  <2>4. rp' = [rp EXCEPT ![f] = r]
    BY <1>8 DEF Show
  <2>5. r = Freed(Formatted(rp[f], rd[f].ep, rd[f].n))
    BY DEF Shown
  <2> HIDE DEF r
  <2>6. rp[f].objs > 0
    BY <2>3
  <2>7. /\ r \in Reader /\ r.e_list = rp[f].e_list /\ r.nevents = rp[f].nevents
        /\ r.objs = rp[f].objs - 1 /\ r.printf_buf = Text(rd[f].ep)
        /\ r.left_pos + r.left_size <= Len(r.printf_buf)
    BY <1>1, <2>2, <2>3, <2>5, <2>6, ShownType
  <2>8. /\ r.nevents = Len(r.e_list) /\ r.nevents <= EVENT_MAX /\ r.objs = Len(r.e_list)
    BY <2>3, <2>7
  <2>9. budget' \in Budget
    BY <1>1, <2>1, BudgetType DEF Copy, CopyFaults
  <2>10. copied' \in Seq(1 .. 2 * Events)
    <3>1. CASE Copy(f, 0, rd[f].n)
      <4>1. rp'[f].printf_buf = Text(rd[f].ep)
        BY <2>4, <2>7 DEF WellFormed, TypeOK
      <4>2. copied' = SubSeq(Text(rd[f].ep), 0 + 1, 0 + rd[f].n)
        BY <3>1, <4>1 DEF Copy
      <4>3. Text(rd[f].ep) \in Seq(1 .. 2 * Events) /\ Len(Text(rd[f].ep)) = 2
        BY <2>2, TextType DEF Numbers
      <4>4. rd[f].n \in Nat /\ 0 + rd[f].n <= 2
        BY <2>2
      <4>5. QED BY <4>2, <4>3, <4>4, PartType
    <3>2. CASE CopyFaults
      BY <3>2 DEF CopyFaults
    <3>3. QED BY <2>1, <3>1, <3>2
  <2>11. ASSUME rp'[f] = r, rd'[f] = Idle, file'[f] = file[f] PROVE ReaderOK(f)'
    <3>1. file[f] = "open"
      BY <1>1, <2>1 DEF ReaderOK, WellFormed, TypeOK
    <3>2. r.objs = Len(r.e_list) + 0
      BY <2>3, <2>7
    <3>3. QED BY <1>2, <2>7, <2>8, <2>11, <3>1, <3>2 DEF ReaderOK
  <2>12. QED BY <1>1, <1>2, <2>1, <2>4, <2>7, <2>9, <2>10, <2>11, OneReader
<1>9. CASE Signal(f)
  <2> DEFINE t == [rd[f] EXCEPT !.signal = TRUE]
  <2>1. rd[f].pc = "sleep" /\ rd[f].ep = 0
    BY <1>1, <1>9 DEF Signal, ReaderOK
  <2>2. rp' = rp /\ UNCHANGED <<dir, bus, looked, file>> /\ UNCHANGED <<budget, copied>>
    BY <1>9 DEF Signal
  <2>3. t \in Thread /\ t.pc = "sleep" /\ t.n = rd[f].n /\ t.ep = rd[f].ep
    BY <1>1, <2>1 DEF Thread
  <2>4. rd' = [rd EXCEPT ![f] = t]
    BY <1>9 DEF Signal
  <2> HIDE DEF t
  <2>5. QED BY <1>3, <2>1, <2>2, <2>3, <2>4
<1>10. QED BY <1>5, <1>6, <1>7, <1>8, <1>9 DEF Inside

-----------------------------------------------------------------------------
\* Every step keeps the bookkeeping.
LEMMA NextOK == WellFormed /\ [Next]_vars => WellFormed'
<1> SUFFICES ASSUME WellFormed, [Next]_vars PROVE WellFormed'
  OBVIOUS
<1>1. CASE \E s \in Sources : Look(s) \/ Submit(s)
  BY <1>1, SourceStep
<1>2. ASSUME NEW f \in Files,
             \/ Open(f) \/ OpenFails(f) \/ Unregister(f) \/ Drain(f)
             \/ \E n \in 1 .. 2 : ReadLeft(f, n) \/ ReadWait(f, n)
             \/ Inside(f) \/ Signal(f)
      PROVE  WellFormed'
  BY <1>2, FileStep, EnterStep, InsideStep
<1>3. CASE RemoveStart \/ RemoveEnd \/ UNCHANGED vars
  <2>1. dir' \in {"up", "going", "gone"} /\ UNCHANGED <<bus, looked, file, rp, rd, copied, budget>>
    BY <1>3 DEF RemoveStart, RemoveEnd, vars, WellFormed, TypeOK
  <2>2. TypeOK' /\ BusOK'
    BY <2>1 DEF WellFormed, TypeOK, BusOK, bus
  <2>3. ASSUME NEW f \in Files PROVE ReaderOK(f)'
    BY <2>1, ReaderKept DEF WellFormed
  <2>4. QED BY <2>2, <2>3 DEF WellFormed
<1>4. QED BY <1>1, <1>2, <1>3 DEF Next

\* Whatever sources, readers, releases and the removal do, sources see the count of the linked
\* readers, no list outgrows EVENT_MAX, and every event object is listed or in the hand of its
\* reader, so that a release frees them all (mhi_init.c:349, 392, 411, 489, 538, 601).
THEOREM BookkeepingKept == Spec => []WellFormed
BY InitOK, NextOK, PTL DEF Spec

-----------------------------------------------------------------------------
(***************************************************************************)
(* Each event once: the text that a file is still to be given lies in its  *)
(* left-over, in the hand of its thread and in its list, in this order.    *)
(* The list is written out in halves, so that putting an event at its end, *)
(* taking one from its front and cutting the front are equations between   *)
(* sequences.                                                              *)
(***************************************************************************)

\* The halves of texts there are.
Halves == 1 .. 2 * Events

\* The texts of the events of a list, one after the other.
ListText(l) == [i \in 1 .. 2 * Len(l) |-> Text(l[(i + 1) \div 2])[IF i % 2 = 1 THEN 1 ELSE 2]]

\* A half of a text is named by its event and its place.
LEMMA HalfOf ==
  ASSUME NEW e \in Nat, NEW i \in Nat
  PROVE  Text(e)[IF i % 2 = 1 THEN 1 ELSE 2] = IF i % 2 = 1 THEN 2 * e - 1 ELSE 2 * e
  BY DEF Text

\* Halves of a list go in pairs.
LEMMA Pairs ==
  ASSUME NEW n \in Nat, NEW i \in 1 .. 2 * n
  PROVE  (i + 1) \div 2 \in 1 .. n
  OBVIOUS

\* The i-th half of a list of texts is of the event in place (i + 1) \div 2.
LEMMA ListTextElement ==
  ASSUME NEW l \in Seq(Numbers), NEW i \in 1 .. 2 * Len(l)
  PROVE  /\ l[(i + 1) \div 2] \in Numbers
         /\ ListText(l)[i] = IF i % 2 = 1 THEN 2 * l[(i + 1) \div 2] - 1 ELSE 2 * l[(i + 1) \div 2]
<1>1. Len(l) \in Nat /\ (i + 1) \div 2 \in 1 .. Len(l)
  BY Pairs
<1>2. l[(i + 1) \div 2] \in Numbers
  BY <1>1
<1>3. l[(i + 1) \div 2] \in Nat /\ i \in Nat
  BY <1>1, <1>2, Bounds DEF Numbers
<1>4. QED BY <1>2, <1>3, HalfOf DEF ListText

\* Two halves for each event.
LEMMA ListTextType ==
  ASSUME NEW l \in Seq(Numbers)
  PROVE  ListText(l) \in Seq(Halves) /\ Len(ListText(l)) = 2 * Len(l)
<1>1. 2 * Len(l) \in Nat
  OBVIOUS
<1>2. ASSUME NEW i \in 1 .. 2 * Len(l) PROVE ListText(l)[i] \in Halves
  <2>1. ASSUME NEW e \in Numbers PROVE 2 * e - 1 \in Halves /\ 2 * e \in Halves
    BY Bounds DEF Numbers, Halves
  <2>2. QED BY <2>1, ListTextElement
<1>3. ListText(l) = [i \in 1 .. 2 * Len(l) |-> ListText(l)[i]]
  BY DEF ListText
<1>4. QED BY <1>1, <1>2, <1>3

\* The halves of one event.
LEMMA TextHalves ==
  ASSUME NEW e \in Numbers
  PROVE  /\ Text(e) \in Seq(Halves) /\ Len(Text(e)) = 2
         /\ Text(e)[1] = 2 * e - 1 /\ Text(e)[2] = 2 * e
<1>1. 2 * e - 1 \in Halves /\ 2 * e \in Halves
  BY Bounds DEF Numbers, Halves
<1>2. QED BY <1>1 DEF Text

\* No event, no text.
LEMMA EmptyText ==
  ASSUME NEW l \in Seq(Numbers), l = <<>>
  PROVE  ListText(l) = <<>>
<1>1. Len(l) = 0
  OBVIOUS
<1>2. ListText(l) \in Seq(Halves) /\ Len(ListText(l)) = 2 * Len(l)
  BY ListTextType
<1>3. Len(ListText(l)) = 0
  BY <1>1, <1>2
<1>4. QED BY <1>2, <1>3, EmptySeq

\* A text before, or behind, those of n events.
LEMMA TextBeside ==
  ASSUME NEW n \in Nat, NEW s \in Seq(Halves), Len(s) = 2 * n, NEW t \in Seq(Halves), Len(t) = 2
  PROVE  /\ s \o t \in Seq(Halves) /\ Len(s \o t) = 2 * n + 2
         /\ \A i \in 1 .. 2 * n : (s \o t)[i] = s[i]
         /\ (s \o t)[2 * n + 1] = t[1] /\ (s \o t)[2 * n + 2] = t[2]
         /\ t \o s \in Seq(Halves) /\ Len(t \o s) = 2 * n + 2
         /\ (t \o s)[1] = t[1] /\ (t \o s)[2] = t[2]
         /\ \A i \in 3 .. 2 * n + 2 : (t \o s)[i] = s[i - 2]
<1>1. PICK u \in Seq(Halves) :
        /\ u = s \o t /\ Len(u) = Len(s) + Len(t)
        /\ \A i \in 1 .. Len(s) + Len(t) : u[i] = IF i <= Len(s) THEN s[i] ELSE t[i - Len(s)]
  <2>1. /\ s \o t \in Seq(Halves) /\ Len(s \o t) = Len(s) + Len(t)
        /\ \A i \in 1 .. Len(s) + Len(t) : (s \o t)[i] = IF i <= Len(s) THEN s[i] ELSE t[i - Len(s)]
    BY ConcatProperties, Zenon
  <2>2. QED BY <2>1, Zenon
<1>2. PICK v \in Seq(Halves) :
        /\ v = t \o s /\ Len(v) = Len(t) + Len(s)
        /\ \A i \in 1 .. Len(t) + Len(s) : v[i] = IF i <= Len(t) THEN t[i] ELSE s[i - Len(t)]
  <2>1. /\ t \o s \in Seq(Halves) /\ Len(t \o s) = Len(t) + Len(s)
        /\ \A i \in 1 .. Len(t) + Len(s) : (t \o s)[i] = IF i <= Len(t) THEN t[i] ELSE s[i - Len(t)]
    BY ConcatProperties, Zenon
  <2>2. QED BY <2>1, Zenon
<1>3. /\ Len(u) = 2 * n + 2 /\ \A i \in 1 .. 2 * n : u[i] = s[i]
      /\ u[2 * n + 1] = t[1] /\ u[2 * n + 2] = t[2]
  <2>1. /\ 2 * n + 1 \in 1 .. 2 * n + 2 /\ 2 * n + 2 \in 1 .. 2 * n + 2
        /\ ~(2 * n + 1 <= 2 * n) /\ ~(2 * n + 2 <= 2 * n)
        /\ 2 * n + 1 - 2 * n = 1 /\ 2 * n + 2 - 2 * n = 2
        /\ \A i \in 1 .. 2 * n : i \in 1 .. 2 * n + 2 /\ i <= 2 * n
    OBVIOUS
  <2>2. /\ Len(u) = 2 * n + 2
        /\ \A i \in 1 .. 2 * n + 2 : u[i] = IF i <= 2 * n THEN s[i] ELSE t[i - 2 * n]
    BY <1>1
  <2>3. \A i \in 1 .. 2 * n : u[i] = s[i]
    BY <2>1, <2>2
  <2>4. u[2 * n + 1] = t[1]
    BY <2>1, <2>2
  <2>5. u[2 * n + 2] = t[2]
    BY <2>1, <2>2
  <2>6. QED BY <2>2, <2>3, <2>4, <2>5
<1>4. /\ Len(v) = 2 * n + 2 /\ v[1] = t[1] /\ v[2] = t[2]
      /\ \A i \in 3 .. 2 * n + 2 : v[i] = s[i - 2]
  <2>1. Len(v) = 2 * n + 2 /\ Len(t) = 2 /\ Len(t) + Len(s) = 2 * n + 2
    BY <1>2
  <2>2. 1 \in 1 .. 2 * n + 2 /\ 2 \in 1 .. 2 * n + 2
    OBVIOUS
  <2>3. \A i \in 1 .. 2 * n + 2 : v[i] = IF i <= 2 THEN t[i] ELSE s[i - 2]
    BY <1>2, <2>1
  <2>4. v[1] = t[1] /\ v[2] = t[2]
    BY <2>2, <2>3
  <2>5. ASSUME NEW i \in 3 .. 2 * n + 2 PROVE v[i] = s[i - 2]
    <3>1. i \in 1 .. 2 * n + 2 /\ ~(i <= 2)
      OBVIOUS
    <3>2. QED BY <2>3, <3>1
  <2>6. QED BY <2>1, <2>4, <2>5
<1>5. QED BY <1>1, <1>2, <1>3, <1>4

\* One more event.
LEMMA AppendText ==
  ASSUME NEW l \in Seq(Numbers), NEW e \in Numbers
  PROVE  ListText(Append(l, e)) = ListText(l) \o Text(e)
<1>1. PICK m \in Seq(Numbers) :
        /\ m = Append(l, e) /\ Len(m) = Len(l) + 1 /\ m[Len(l) + 1] = e
        /\ \A k \in 1 .. Len(l) : m[k] = l[k]
  <2>1. /\ Append(l, e) \in Seq(Numbers) /\ Len(Append(l, e)) = Len(l) + 1
        /\ Append(l, e)[Len(l) + 1] = e /\ \A k \in 1 .. Len(l) : Append(l, e)[k] = l[k]
    OBVIOUS
  <2>2. QED BY <2>1
<1>2. PICK n \in Nat : n = Len(l)
  OBVIOUS
<1>3. ListText(l) \in Seq(Halves) /\ Len(ListText(l)) = 2 * n
  BY <1>2, ListTextType
<1>4. ListText(m) \in Seq(Halves) /\ Len(ListText(m)) = 2 * n + 2
  <2>1. 2 * Len(m) = 2 * n + 2
    BY <1>1, <1>2
  <2>2. QED BY <2>1, ListTextType
<1>5. PICK b \in Seq(Halves) :
        /\ b = ListText(l) \o Text(e) /\ Len(b) = 2 * n + 2
        /\ \A i \in 1 .. 2 * n : b[i] = ListText(l)[i]
        /\ b[2 * n + 1] = 2 * e - 1 /\ b[2 * n + 2] = 2 * e
  <2>1. /\ Text(e) \in Seq(Halves) /\ Len(Text(e)) = 2
        /\ Text(e)[1] = 2 * e - 1 /\ Text(e)[2] = 2 * e
    BY TextHalves
  <2>2. /\ ListText(l) \o Text(e) \in Seq(Halves) /\ Len(ListText(l) \o Text(e)) = 2 * n + 2
        /\ \A i \in 1 .. 2 * n : (ListText(l) \o Text(e))[i] = ListText(l)[i]
        /\ (ListText(l) \o Text(e))[2 * n + 1] = Text(e)[1]
        /\ (ListText(l) \o Text(e))[2 * n + 2] = Text(e)[2]
    BY <1>3, <2>1, TextBeside, Zenon
  <2>3. QED BY <2>1, <2>2, Zenon
<1>6. ASSUME NEW i \in 1 .. 2 * n + 2 PROVE ListText(m)[i] = b[i]
  <2>1. ListText(m)[i] = IF i % 2 = 1 THEN 2 * m[(i + 1) \div 2] - 1 ELSE 2 * m[(i + 1) \div 2]
    <3>1. i \in 1 .. 2 * Len(m)
      BY <1>1, <1>2
    <3>2. QED BY <3>1, ListTextElement
  <2>2. CASE i <= 2 * n
    <3>1. i \in 1 .. 2 * n /\ (i + 1) \div 2 \in 1 .. n
      <4>1. i \in 1 .. 2 * n
        BY <2>2
      <4>2. QED BY <4>1, Pairs
    <3>2. ListText(l)[i] = IF i % 2 = 1 THEN 2 * l[(i + 1) \div 2] - 1 ELSE 2 * l[(i + 1) \div 2]
      BY <1>2, <3>1, ListTextElement
    <3>3. QED BY <1>1, <1>2, <1>5, <2>1, <3>1, <3>2
  <2>3. CASE i = 2 * n + 1
    <3>1. (i + 1) \div 2 = n + 1 /\ i % 2 = 1
      BY <2>3
    <3>2. QED BY <1>1, <1>2, <1>5, <2>1, <2>3, <3>1
  <2>4. CASE i = 2 * n + 2
    <3>1. (i + 1) \div 2 = n + 1 /\ i % 2 = 0
      BY <2>4
    <3>2. QED BY <1>1, <1>2, <1>5, <2>1, <2>4, <3>1
  <2>5. QED BY <2>2, <2>3, <2>4
<1>7. ListText(m) = b
  BY <1>4, <1>5, <1>6, SeqEqual
<1>8. QED BY <1>1, <1>5, <1>7

\* The first event is taken off.
LEMMA TailText ==
  ASSUME NEW l \in Seq(Numbers), l # <<>>
  PROVE  ListText(l) = Text(Head(l)) \o ListText(Tail(l))
<1>1. PICK m \in Seq(Numbers), n \in Nat, h \in Numbers :
        /\ m = Tail(l) /\ n = Len(m) /\ Len(l) = n + 1 /\ h = Head(l) /\ l[1] = h
        /\ \A k \in 1 .. n : m[k] = l[k + 1]
  <2>1. Head(l) = l[1]
    OBVIOUS
  <2>2. Len(l) \in Nat /\ Len(Tail(l)) \in Nat
    BY HeadTailProperties, LenProperties
  <2>3. /\ Head(l) \in Numbers /\ Tail(l) \in Seq(Numbers) /\ Len(l) = Len(Tail(l)) + 1
        /\ \A k \in 1 .. Len(Tail(l)) : Tail(l)[k] = l[k + 1]
    BY <2>2, HeadTailProperties
  <2>4. QED BY <2>1, <2>2, <2>3
<1>2. ListText(m) \in Seq(Halves) /\ Len(ListText(m)) = 2 * n
  BY <1>1, ListTextType
<1>3. ListText(l) \in Seq(Halves) /\ Len(ListText(l)) = 2 * n + 2
  <2>1. 2 * Len(l) = 2 * n + 2
    BY <1>1
  <2>2. QED BY <2>1, ListTextType
<1>4. PICK b \in Seq(Halves) :
        /\ b = Text(h) \o ListText(m) /\ Len(b) = 2 * n + 2
        /\ b[1] = 2 * h - 1 /\ b[2] = 2 * h
        /\ \A i \in 3 .. 2 * n + 2 : b[i] = ListText(m)[i - 2]
  <2>1. /\ Text(h) \in Seq(Halves) /\ Len(Text(h)) = 2
        /\ Text(h)[1] = 2 * h - 1 /\ Text(h)[2] = 2 * h
    BY TextHalves
  <2>2. /\ Text(h) \o ListText(m) \in Seq(Halves) /\ Len(Text(h) \o ListText(m)) = 2 * n + 2
        /\ (Text(h) \o ListText(m))[1] = Text(h)[1] /\ (Text(h) \o ListText(m))[2] = Text(h)[2]
        /\ \A i \in 3 .. 2 * n + 2 : (Text(h) \o ListText(m))[i] = ListText(m)[i - 2]
    BY <1>2, <2>1, TextBeside, Zenon
  <2>3. QED BY <2>1, <2>2, Zenon
<1>5. ASSUME NEW i \in 1 .. 2 * n + 2 PROVE ListText(l)[i] = b[i]
  <2>1. ListText(l)[i] = IF i % 2 = 1 THEN 2 * l[(i + 1) \div 2] - 1 ELSE 2 * l[(i + 1) \div 2]
    <3>1. i \in 1 .. 2 * Len(l)
      BY <1>1
    <3>2. QED BY <3>1, ListTextElement
  <2>2. CASE i > 2
    <3>1. PICK j \in 1 .. 2 * n : j = i - 2
      BY <2>2
    <3>2. PICK k \in 1 .. n : k = (j + 1) \div 2
      BY Pairs
    <3>3. (i + 1) \div 2 = k + 1 /\ i % 2 = j % 2
      BY <3>1, <3>2
    <3>4. ListText(m)[j] = IF j % 2 = 1 THEN 2 * m[k] - 1 ELSE 2 * m[k]
      BY <1>1, <3>2, ListTextElement
    <3>5. m[k] = l[k + 1]
      BY <1>1
    <3>6. b[i] = ListText(m)[j]
      BY <1>4, <2>2, <3>1
    <3>7. QED BY <2>1, <3>3, <3>4, <3>5, <3>6
  <2>3. CASE i = 1
    <3>1. (i + 1) \div 2 = 1 /\ i % 2 = 1
      BY <2>3
    <3>2. QED BY <1>1, <1>4, <2>1, <2>3, <3>1
  <2>4. CASE i = 2
    <3>1. (i + 1) \div 2 = 1 /\ i % 2 = 0
      BY <2>4
    <3>2. QED BY <1>1, <1>4, <2>1, <2>4, <3>1
  <2>5. QED BY <2>2, <2>3, <2>4
<1>6. ListText(l) = b
  BY <1>3, <1>4, <1>5, SeqEqual
<1>7. QED BY <1>1, <1>4, <1>6

\* What a reader has left over, what its thread holds, and all that it is still to be given.
Left(r) == SubSeq(r.printf_buf, r.left_pos + 1, r.left_pos + r.left_size)
Hand(t) == IF t.ep = 0 THEN <<>> ELSE Text(t.ep)
Held(r, t) == Left(r) \o Hand(t) \o ListText(r.e_list)

\* A listed file is still to be given what its reader and its thread hold.
LEMMA UnreadIsHeld ==
  ASSUME NEW f \in Files
  PROVE  /\ Unread(f) = IF f \notin r_list THEN <<>> ELSE Held(rp[f], rd[f])
         /\ Unread(f)' = IF f \notin r_list' THEN <<>> ELSE Held(rp'[f], rd'[f])
  BY DEF Unread, Held, Left, Hand, ListText

\* Taking from the front of two sequences what lies in the first.
LEMMA CutFront ==
  ASSUME NEW S, NEW s \in Seq(S), NEW t \in Seq(S), NEW k \in 1 .. Len(s)
  PROVE  /\ k \in 1 .. Len(s \o t)
         /\ SubSeq(s \o t, 1, k) = SubSeq(s, 1, k)
         /\ SubSeq(s \o t, k + 1, Len(s \o t)) = SubSeq(s, k + 1, Len(s)) \o t
<1> DEFINE u == s \o t
<1>1. PICK n \in Nat, m \in Nat : n = Len(s) /\ m = Len(t)
  OBVIOUS
<1>2. /\ u \in Seq(S) /\ Len(u) = n + m
      /\ \A i \in 1 .. n + m : u[i] = IF i <= n THEN s[i] ELSE t[i - n]
  BY <1>1, ConcatProperties
<1> HIDE DEF u
<1>3. SubSeq(u, 1, k) = SubSeq(s, 1, k)
  <2>1. SubSeq(u, 1, k) \in Seq(S) /\ Len(SubSeq(u, 1, k)) = k
    BY <1>1, <1>2
  <2>2. SubSeq(s, 1, k) \in Seq(S) /\ Len(SubSeq(s, 1, k)) = k
    BY <1>1
  <2>3. ASSUME NEW i \in 1 .. k PROVE SubSeq(u, 1, k)[i] = SubSeq(s, 1, k)[i]
    BY <1>1, <1>2
  <2>4. QED BY <2>1, <2>2, <2>3, SeqEqual
<1>4. SubSeq(u, k + 1, n + m) = SubSeq(s, k + 1, n) \o t
  <2> DEFINE a == SubSeq(u, k + 1, n + m)
             c == SubSeq(s, k + 1, n)
  <2>1. /\ a \in Seq(S) /\ Len(a) = n + m - k
        /\ \A i \in 1 .. n + m - k : a[i] = u[i + k]
    BY <1>1, <1>2
  <2>2. /\ c \in Seq(S) /\ Len(c) = n - k
        /\ \A i \in 1 .. n - k : c[i] = s[i + k]
    BY <1>1
  <2> HIDE DEF a, c
  <2>3. c \o t \in Seq(S) /\ Len(c \o t) = n + m - k
    <3>1. c \o t \in Seq(S) /\ Len(c \o t) = Len(c) + Len(t)
      BY <2>2, ConcatProperties, Zenon
    <3>2. QED BY <1>1, <2>2, <3>1
  <2>4. ASSUME NEW i \in 1 .. n + m - k PROVE a[i] = (c \o t)[i]
    <3>1. (c \o t)[i] = IF i <= n - k THEN c[i] ELSE t[i - (n - k)]
      <4>1. /\ c \o t \in Seq(S)
            /\ \A j \in 1 .. Len(c) + Len(t) :
                 (c \o t)[j] = IF j <= Len(c) THEN c[j] ELSE t[j - Len(c)]
        BY <2>2, ConcatProperties, Zenon
      <4>2. Len(c) = n - k /\ Len(t) = m /\ i \in 1 .. (n - k) + m
        BY <1>1, <2>2
      <4>3. QED BY <4>1, <4>2
    <3>2. i + k \in 1 .. n + m /\ (i + k <= n <=> i <= n - k) /\ i + k - n = i - (n - k)
      BY <1>1
    <3>3. u[i + k] = IF i <= n - k THEN s[i + k] ELSE t[i - (n - k)]
      BY <1>2, <3>2
    <3>4. a[i] = u[i + k]
      BY <2>1
    <3>5. CASE i <= n - k
      <4>1. i \in 1 .. n - k
        BY <1>1, <3>5
      <4>2. c[i] = s[i + k]
        BY <2>2, <4>1
      <4>3. QED BY <3>1, <3>3, <3>4, <3>5, <4>2
    <3>6. CASE ~(i <= n - k)
      BY <3>1, <3>3, <3>4, <3>6
    <3>7. QED BY <3>5, <3>6
  <2>5. a = c \o t
    BY <2>1, <2>3, <2>4, SeqEqual
  <2>6. QED BY <2>5 DEF a, c
<1>5. k \in 1 .. Len(u)
  BY <1>1, <1>2
<1>6. QED BY <1>1, <1>2, <1>3, <1>4, <1>5 DEF u

\* The parts of what a reader holds are sequences of halves.
LEMMA HeldParts ==
  ASSUME NEW r \in Reader, NEW t \in Thread, r.left_pos + r.left_size <= Len(r.printf_buf)
  PROVE  /\ Left(r) \in Seq(Halves) /\ Len(Left(r)) = r.left_size
         /\ r.left_size = 0 => Left(r) = <<>>
         /\ Hand(t) \in Seq(Halves) /\ (t.ep = 0 => Hand(t) = <<>>)
         /\ t.ep # 0 => Hand(t) = Text(t.ep) /\ t.ep \in Numbers
         /\ ListText(r.e_list) \in Seq(Halves)
         /\ Held(r, t) \in Seq(Halves)
<1>1. /\ r.left_pos \in Nat /\ r.left_size \in Nat /\ r.e_list \in Seq(Numbers)
      /\ t.ep \in 0 .. Events
  BY DEF Reader, Thread
<1>2. Left(r) \in Seq(Halves)
  BY <1>1, BufferType, PartType DEF Left, Halves
<1>3. Len(Left(r)) = r.left_size
  <2>1. PICK b \in Seq(Halves) : b = r.printf_buf
    BY BufferType DEF Halves
  <2>2. ASSUME NEW p \in Nat, NEW n \in Nat, p + n <= Len(b) PROVE Len(SubSeq(b, p + 1, p + n)) = n
    BY <2>2
  <2>3. QED BY <1>1, <2>1, <2>2 DEF Left
<1>4. r.left_size = 0 => Left(r) = <<>>
  BY <1>2, <1>3, EmptySeq
<1>5. t.ep # 0 => t.ep \in Numbers
  BY <1>1, Bounds DEF Numbers
<1>6. Hand(t) \in Seq(Halves)
  BY <1>5, TextHalves, EmptySeq DEF Hand
<1>7. ListText(r.e_list) \in Seq(Halves)
  BY <1>1, ListTextType
<1>8. Held(r, t) \in Seq(Halves)
  BY <1>2, <1>6, <1>7, ConcatProperties DEF Held
<1>9. QED BY <1>2, <1>3, <1>4, <1>5, <1>6, <1>7, <1>8 DEF Hand

\* mon_text_event puts the text of an event behind what the reader holds.
LEMMA HeldAdded ==
  ASSUME NEW r \in Reader, NEW t \in Thread, NEW v, NEW e \in Numbers,
         r.left_pos + r.left_size <= Len(r.printf_buf), v.ep = t.ep
  PROVE  Held(Added(r, e), v) = Held(r, t) \o Text(e)
<1>1. PICK a \in Seq(Halves) : a = Left(r) \o Hand(t)
  BY HeldParts, ConcatProperties
<1>2. r.e_list \in Seq(Numbers)
  BY DEF Reader
<1>3. Left(Added(r, e)) = Left(r) /\ Hand(v) = Hand(t)
  BY AddedType DEF Left, Hand
<1>4. Added(r, e).e_list = Append(r.e_list, e)
  BY DEF Added, Reader
<1>5. Held(Added(r, e), v) = a \o (ListText(r.e_list) \o Text(e))
  BY <1>1, <1>2, <1>3, <1>4, AppendText DEF Held
<1>6. ListText(r.e_list) \in Seq(Halves) /\ Text(e) \in Seq(Halves)
  BY <1>2, ListTextType, TextHalves
<1>7. a \o (ListText(r.e_list) \o Text(e)) = (a \o ListText(r.e_list)) \o Text(e)
  BY <1>6, ConcatAssociative
<1>8. QED BY <1>1, <1>5, <1>7 DEF Held

\* mon_text_fetch takes an event from the list into the hand, and nothing is lost or doubled.
LEMMA HeldTaken ==
  ASSUME NEW r \in Reader, NEW t \in Thread, NEW v, r.e_list # <<>>,
         r.left_pos + r.left_size <= Len(r.printf_buf), r.nevents = Len(r.e_list),
         t.ep = 0, v.ep = Head(r.e_list)
  PROVE  Held(Taken(r), v) = Held(r, t)
<1>1. /\ r.e_list \in Seq(Numbers) /\ Head(r.e_list) \in Numbers
      /\ Tail(r.e_list) \in Seq(Numbers)
  BY HeadTailProperties DEF Reader
<1>2. Left(r) \in Seq(Halves) /\ Hand(t) = <<>>
  BY HeldParts
<1>3. PICK x \in Seq(Halves), y \in Seq(Halves) :
        x = Text(Head(r.e_list)) /\ y = ListText(Tail(r.e_list))
  BY <1>1, TextHalves, ListTextType
<1>4. Held(r, t) = Left(r) \o (x \o y)
  BY <1>1, <1>2, <1>3, TailText, ConcatEmptySeq DEF Held
<1>5. Head(r.e_list) # 0
  BY <1>1, Bounds DEF Numbers
<1>6. Left(Taken(r)) = Left(r) /\ Hand(v) = x
  BY <1>3, <1>5, TakenType DEF Left, Hand
<1>7. Taken(r).e_list = Tail(r.e_list)
  BY DEF Taken, Reader
<1>8. Held(Taken(r), v) = (Left(r) \o x) \o y
  BY <1>3, <1>6, <1>7 DEF Held
<1>9. QED BY <1>2, <1>4, <1>8, ConcatAssociative

\* The left-over is what is given first, and without it the hand and the list are held.
LEMMA HeldConsumed ==
  ASSUME NEW r \in Reader, NEW t \in Thread, r.left_size = 1, t.ep = 0,
         r.left_pos + r.left_size <= Len(r.printf_buf), r.left_pos + 1 <= 2
  PROVE  /\ 1 \in 1 .. Len(Held(r, t))
         /\ SubSeq(r.printf_buf, r.left_pos + 1, r.left_pos + 1) = SubSeq(Held(r, t), 1, 1)
         /\ Held(Consumed(r, 1), t) = SubSeq(Held(r, t), 1 + 1, Len(Held(r, t)))
<1>1. PICK x \in Seq(Halves), y \in Seq(Halves) :
        x = Left(r) /\ y = ListText(r.e_list) /\ Len(x) = 1
  BY HeldParts
<1>2. Held(r, t) = x \o y
  BY <1>1, HeldParts, ConcatEmptySeq DEF Held
<1>3. /\ Consumed(r, 1) \in Reader /\ Consumed(r, 1).left_pos = r.left_pos + 1
      /\ Consumed(r, 1).left_size = 0 /\ Consumed(r, 1).e_list = r.e_list
      /\ Consumed(r, 1).printf_buf = r.printf_buf
  BY ConsumedType
<1>4. r.left_pos + 1 + 0 <= Len(r.printf_buf)
  <2>1. r.left_pos \in Nat /\ Len(r.printf_buf) \in 0 .. 2
    BY BufferType DEF Reader
  <2>2. QED BY <2>1
<1>5. Left(Consumed(r, 1)) = <<>> /\ Hand(t) = <<>>
  BY <1>3, <1>4, HeldParts
<1>6. Held(Consumed(r, 1), t) = y
  BY <1>1, <1>3, <1>5, EmptySeq, ConcatEmptySeq DEF Held
<1>7. 1 \in 1 .. Len(x) /\ Len(x \o y) = 1 + Len(y) /\ Len(y) \in Nat
  BY <1>1, ConcatProperties
<1>8. SubSeq(x \o y, 1, 1) = SubSeq(x, 1, 1) /\ SubSeq(x, 1, 1) = x
  BY <1>1, <1>7, CutFront, SubSeqFull
<1>9. SubSeq(x \o y, 1 + 1, Len(x \o y)) = y
  <2>1. SubSeq(x, 1 + 1, Len(x)) = <<>>
    BY <1>1, SubSeqEmpty
  <2>2. SubSeq(x \o y, 1 + 1, Len(x \o y)) = SubSeq(x, 1 + 1, Len(x)) \o y
    BY <1>7, CutFront
  <2>3. QED BY <2>1, <2>2, ConcatEmptySeq
<1>10. x = SubSeq(r.printf_buf, r.left_pos + 1, r.left_pos + 1)
  BY <1>1 DEF Left
<1>11. 1 \in 1 .. Len(x \o y)
  BY <1>7
<1>12. QED BY <1>2, <1>6, <1>8, <1>9, <1>10, <1>11

\* What is shown of an event is given first, and the rest of it is left over.
LEMMA HeldShown ==
  ASSUME NEW r \in Reader, NEW t \in Thread, NEW v \in Thread, r.left_size = 0, r.objs > 0,
         t.ep # 0, t.n \in 1 .. 2, v.ep = 0,
         r.left_pos + r.left_size <= Len(r.printf_buf)
  PROVE  /\ t.n \in 1 .. Len(Held(r, t))
         /\ SubSeq(Text(t.ep), 1, t.n) = SubSeq(Held(r, t), 1, t.n)
         /\ Held(Freed(Formatted(r, t.ep, t.n)), v)
              = SubSeq(Held(r, t), t.n + 1, Len(Held(r, t)))
<1>1. PICK x \in Seq(Halves), y \in Seq(Halves) :
        x = Text(t.ep) /\ y = ListText(r.e_list) /\ Len(x) = 2
  BY HeldParts, TextHalves
<1>2. Held(r, t) = x \o y
  BY <1>1, HeldParts, ConcatEmptySeq DEF Held
<1>3. t.n \in 1 .. Len(x)
  BY <1>1
<1>4. PICK s \in Reader :
        /\ s = Freed(Formatted(r, t.ep, t.n)) /\ s.e_list = r.e_list /\ s.printf_buf = x
        /\ s.left_pos + s.left_size <= Len(s.printf_buf)
  BY <1>1, HeldParts, ShownType
<1>5. Left(s) = SubSeq(x, t.n + 1, Len(x))
  <2>1. CASE t.n = 1
    <3>1. s.left_pos = 1 /\ s.left_size = 1
      BY <1>4, <2>1 DEF Freed, Formatted, Reader
    <3>2. Left(s) = SubSeq(x, 1 + 1, 1 + 1)
      BY <1>4, <3>1 DEF Left
    <3>3. t.n + 1 = 1 + 1 /\ Len(x) = 1 + 1
      BY <1>1, <2>1
    <3>4. QED BY <3>2, <3>3
  <2>2. CASE t.n = 2
    <3>1. s.left_size = 0
      BY <1>4, <2>2 DEF Freed, Formatted, Reader
    <3>2. Left(s) = <<>>
      BY <1>4, <3>1, HeldParts
    <3>3. SubSeq(x, t.n + 1, Len(x)) = <<>>
      BY <1>1, <2>2, SubSeqEmpty
    <3>4. QED BY <3>2, <3>3
  <2>3. QED BY <2>1, <2>2
<1>6. Held(s, v) = Left(s) \o y
  BY <1>1, <1>4, HeldParts, ConcatEmptySeq DEF Held
<1>7. /\ t.n \in 1 .. Len(x \o y)
      /\ SubSeq(x \o y, 1, t.n) = SubSeq(x, 1, t.n)
      /\ SubSeq(x \o y, t.n + 1, Len(x \o y)) = SubSeq(x, t.n + 1, Len(x)) \o y
  BY <1>3, CutFront
<1>8. QED BY <1>1, <1>2, <1>3, <1>4, <1>5, <1>6, <1>7

-----------------------------------------------------------------------------
(* The steps of the log.                                                   *)

\* A file is still to be given the same when nobody touches what it holds.
LEMMA UnreadKept ==
  ASSUME NEW f \in Files, f \in r_list' <=> f \in r_list,
         f \in r_list => Held(rp'[f], rd'[f]) = Held(rp[f], rd[f])
  PROVE  Unread(f)' = Unread(f)
  BY UnreadIsHeld

\* The same reader, and a thread with the same event in hand or none.
LEMMA SameHeld ==
  ASSUME NEW f \in Files, f \in r_list' <=> f \in r_list, rp'[f] = rp[f], rd'[f].ep = rd[f].ep
  PROVE  Unread(f)' = Unread(f)
<1>1. Held(rp'[f], rd'[f]) = Held(rp[f], rd[f])
  BY DEF Held, Hand
<1>2. QED BY <1>1, UnreadKept

\* A step that gives no file anything and takes nothing from it is none of the log.
LEMMA LogStutters ==
  ASSUME UNCHANGED <<r_list, copied, cnt_events, cnt_text_lost>>,
         \A f \in Files : Unread(f)' = Unread(f)
  PROVE  UNCHANGED Log!vars
<1>1. UNCHANGED [f \in Files |-> Unread(f)]
  OBVIOUS
<1>2. QED BY <1>1 DEF Log!vars

\* The files that are listed are open ones, and a thread inside has an open file.
LEMMA Listed ==
  ASSUME WellFormed, NEW f \in Files
  PROVE  /\ f \in r_list <=> file[f] = "open"
         /\ rd[f].pc # "idle" => f \in r_list
         /\ rp[f] \in Reader /\ rd[f] \in Thread /\ ReaderOK(f)
         /\ rp[f].left_pos + rp[f].left_size <= Len(rp[f].printf_buf)
  BY DEF WellFormed, TypeOK, BusOK, ReaderOK

\* Another file's step.
LEMMA OthersKept ==
  ASSUME WellFormed, NEW f \in Files, NEW r, NEW t,
         rp' = [rp EXCEPT ![f] = r], rd' = [rd EXCEPT ![f] = t], r_list' = r_list
  PROVE  /\ rp'[f] = r /\ rd'[f] = t
         /\ \A g \in Files : g # f => Unread(g)' = Unread(g)
<1>1. rp'[f] = r /\ rd'[f] = t
  BY DEF WellFormed, TypeOK
<1>2. ASSUME NEW g \in Files, g # f PROVE Unread(g)' = Unread(g)
  <2>1. rp'[g] = rp[g] /\ rd'[g] = rd[g]
    BY <1>2 DEF WellFormed, TypeOK
  <2>2. QED BY <2>1, SameHeld
<1>3. QED BY <1>1, <1>2

\* What one file is given is cut from the front of what it is still to get.
LEMMA OneGiven ==
  ASSUME WellFormed, NEW f \in r_list, NEW r, NEW t, NEW k,
         rp' = [rp EXCEPT ![f] = r], rd' = [rd EXCEPT ![f] = t],
         UNCHANGED <<r_list, cnt_events, cnt_text_lost>>,
         k \in 1 .. Len(Held(rp[f], rd[f])),
         Held(r, t) = SubSeq(Held(rp[f], rd[f]), k + 1, Len(Held(rp[f], rd[f]))),
         copied' \in {<<>>, SubSeq(Held(rp[f], rd[f]), 1, k)}
  PROVE  Log!Deliver(f) \/ Log!Fault(f)
<1>1. f \in Files
  BY DEF WellFormed, TypeOK
<1>2. Unread(f) = Held(rp[f], rd[f])
  BY <1>1, UnreadIsHeld
<1>3. Unread(f)' = SubSeq(Unread(f), k + 1, Len(Unread(f)))
  <2>1. rp'[f] = r /\ rd'[f] = t
    BY <1>1, OthersKept
  <2>2. QED BY <1>1, <1>2, <2>1, UnreadIsHeld
<1>4. \A g \in Files : g # f => Unread(g)' = Unread(g)
  BY <1>1, OthersKept
<1>5. [g \in Files |-> Unread(g)]'
        = [[g \in Files |-> Unread(g)] EXCEPT ![f] = SubSeq(@, k + 1, Len(@))]
  BY <1>1, <1>3, <1>4
<1>6. k \in 1 .. Len(Unread(f)) /\ [g \in Files |-> Unread(g)][f] = Unread(f)
  BY <1>1, <1>2
<1>7. CASE copied' = SubSeq(Held(rp[f], rd[f]), 1, k)
  <2>1. copied' = SubSeq(Unread(f), 1, k)
    BY <1>2, <1>7
  <2>2. Log!Deliver(f)
    BY <1>5, <1>6, <2>1 DEF Log!Deliver, Log!Cut
  <2>3. QED BY <2>2
<1>8. CASE copied' = <<>>
  <2>1. k \in 0 .. Len(Unread(f))
    BY <1>6
  <2>2. Log!Fault(f)
    BY <1>5, <1>6, <1>8, <2>1 DEF Log!Fault, Log!Cut
  <2>3. QED BY <2>2
<1>9. QED BY <1>7, <1>8

\* MonLog counts as MhiMon does.
LEMMA SameCount ==
  ASSUME NEW S
  PROVE  Log!Cardinality(S) = Cardinality(S)
  BY DEF Log!Cardinality, Cardinality

\* mhi_init_debugfs: nobody listens.
LEMMA LogInit == Init => Log!Init
<1> SUFFICES ASSUME Init PROVE Log!Init
  OBVIOUS
<1>1. \A f \in Files : Unread(f) = <<>>
  BY UnreadIsHeld DEF Init
<1>2. [f \in Files |-> Unread(f)] = [f \in Files |-> <<>>]
  BY <1>1
<1>3. QED BY <1>2 DEF Init, Log!Init

\* A source's event reaches every reader but those that are full or get no object.
LEMMA SubmitIsEvent ==
  ASSUME WellFormed, NEW s \in Sources, Submit(s)
  PROVE  Log!Event
<1>1. PICK oom \in SUBSET r_list, missed \in SUBSET r_list :
        /\ missed = oom \cup {f \in r_list : rp[f].nevents >= EVENT_MAX}
        /\ looked' = looked \ {s} /\ s \in looked
        /\ cnt_events' = cnt_events + 1
        /\ cnt_text_lost' = cnt_text_lost + Cardinality(missed)
        /\ rp' = [f \in Files |-> IF f \in r_list \ missed THEN Added(rp[f], cnt_events')
                                                           ELSE rp[f]]
        /\ rd' = [f \in Files |-> IF f \in r_list \ missed /\ rd[f].pc # "idle"
                                  THEN [rd[f] EXCEPT !.awake = TRUE] ELSE rd[f]]
        /\ UNCHANGED <<r_list, copied>>
  <2> DEFINE Missed(oom) == oom \cup {f \in r_list : rp[f].nevents >= EVENT_MAX}
  <2>1. PICK oom \in SUBSET r_list :
          /\ looked' = looked \ {s} /\ s \in looked
          /\ cnt_events' = cnt_events + 1
          /\ cnt_text_lost' = cnt_text_lost + Cardinality(Missed(oom))
          /\ rp' = [f \in Files |-> IF f \in r_list \ Missed(oom)
                                    THEN Added(rp[f], cnt_events') ELSE rp[f]]
          /\ rd' = [f \in Files |-> IF f \in r_list \ Missed(oom) /\ rd[f].pc # "idle"
                                    THEN [rd[f] EXCEPT !.awake = TRUE] ELSE rd[f]]
          /\ UNCHANGED <<r_list, copied>>
    BY DEF Submit
  <2>2. Missed(oom) \in SUBSET r_list
    BY <2>1
  <2>3. QED BY <2>1, <2>2, Zenon
<1>2. missed \in SUBSET r_list
  BY <1>1
<1>3. cnt_events' \in Numbers
  <2>1. WellFormed'
    BY SourceStep
  <2>2. cnt_events' \in 0 .. Events /\ cnt_events \in Nat
    BY <2>1, Bounds DEF WellFormed, TypeOK
  <2>3. QED BY <1>1, <2>2, Bounds DEF Numbers
<1>4. PICK e \in Numbers : e = cnt_events'
  BY <1>3
<1>5. ASSUME NEW f \in Files
      PROVE  Unread(f)' = IF f \in r_list \ missed THEN Unread(f) \o Text(e) ELSE Unread(f)
  <2>1. rd'[f].ep = rd[f].ep
    <3>1. rd[f] \in Thread
      BY Listed
    <3>2. rd'[f] = rd[f] \/ rd'[f] = [rd[f] EXCEPT !.awake = TRUE]
      BY <1>1
    <3>3. QED BY <3>1, <3>2 DEF Thread
  <2>2. CASE f \in r_list \ missed
    <3>1. rp'[f] = Added(rp[f], e) /\ f \in r_list /\ f \in r_list'
      BY <1>1, <1>4, <2>2
    <3>2. /\ rp[f] \in Reader /\ rd[f] \in Thread
          /\ rp[f].left_pos + rp[f].left_size <= Len(rp[f].printf_buf)
      BY Listed
    <3>3. Held(rp'[f], rd'[f]) = Held(rp[f], rd[f]) \o Text(e)
      BY <1>4, <2>1, <3>1, <3>2, HeldAdded
    <3>4. QED BY <2>2, <3>1, <3>3, UnreadIsHeld
  <2>3. CASE f \notin r_list \ missed
    <3>1. rp'[f] = rp[f] /\ (f \in r_list' <=> f \in r_list)
      BY <1>1, <2>3
    <3>2. QED BY <2>1, <2>3, <3>1, SameHeld
  <2>4. QED BY <2>2, <2>3
<1>6. [f \in Files |-> Unread(f)]'
        = [f \in Files |-> IF f \in r_list \ missed
                           THEN [g \in Files |-> Unread(g)][f] \o Text(cnt_events')
                           ELSE [g \in Files |-> Unread(g)][f]]
  BY <1>4, <1>5
<1>7. /\ cnt_events' = cnt_events + 1
      /\ cnt_text_lost' = cnt_text_lost + Cardinality(missed)
      /\ UNCHANGED <<r_list, copied>>
  BY <1>1
<1>8. QED BY <1>2, <1>6, <1>7, SameCount, Zenon DEF Log!Event

\* mon_text_open: a new reader holds nothing.
LEMMA OpenIsJoin ==
  ASSUME WellFormed, NEW f \in Files, Open(f)
  PROVE  Log!Join(f)
<1>1. /\ rp' = [rp EXCEPT ![f] = Fresh] /\ rd' = rd /\ r_list' = r_list \cup {f}
      /\ UNCHANGED <<copied, cnt_events, cnt_text_lost>> /\ f \notin r_list
  BY Listed DEF Open
<1>2. rd[f] = Idle
  BY Listed DEF Open, ReaderOK
<1>3. Held(Fresh, Idle) = <<>>
  <2>1. Fresh \in Reader /\ Idle \in Thread
    BY FreshType
  <2>2. /\ Fresh.left_pos = 0 /\ Fresh.left_size = 0 /\ Fresh.e_list = <<>>
        /\ Fresh.printf_buf = <<>> /\ Idle.ep = 0
    BY DEF Fresh, Idle
  <2>3. Fresh.left_pos + Fresh.left_size <= Len(Fresh.printf_buf)
    BY <2>2
  <2>4. Left(Fresh) = <<>> /\ Hand(Idle) = <<>>
    BY <2>1, <2>2, <2>3, HeldParts
  <2>5. ListText(Fresh.e_list) = <<>>
    BY <2>1, <2>2, EmptyText DEF Reader
  <2>6. <<>> \in Seq(Halves)
    BY EmptySeq
  <2>7. QED BY <2>4, <2>5, <2>6, ConcatEmptySeq DEF Held
<1>4. ASSUME NEW g \in Files PROVE Unread(g)' = Unread(g)
  <2>1. CASE g = f
    <3>1. rp'[f] = Fresh /\ rd'[f] = Idle
      BY <1>1, <1>2 DEF WellFormed, TypeOK
    <3>2. QED BY <1>1, <1>3, <2>1, <3>1, UnreadIsHeld
  <2>2. CASE g # f
    <3>1. rp'[g] = rp[g] /\ rd'[g] = rd[g] /\ (g \in r_list' <=> g \in r_list)
      BY <1>1, <2>2 DEF WellFormed, TypeOK
    <3>2. QED BY <3>1, SameHeld
  <2>3. QED BY <2>1, <2>2
<1>5. UNCHANGED [g \in Files |-> Unread(g)]
  BY <1>4
<1>6. QED BY <1>1, <1>5 DEF Log!Join

\* mon_reader_del: what the reader was still to be given is gone.
LEMMA UnregisterIsLeave ==
  ASSUME WellFormed, NEW f \in Files, Unregister(f)
  PROVE  Log!Leave(f)
<1>1. /\ rp' = rp /\ rd' = rd /\ r_list' = r_list \ {f} /\ f \in r_list
      /\ UNCHANGED <<copied, cnt_events, cnt_text_lost>>
  BY Listed DEF Unregister
<1>2. ASSUME NEW g \in Files PROVE Unread(g)' = IF g = f THEN <<>> ELSE Unread(g)
  <2>1. CASE g = f
    BY <1>1, <2>1, UnreadIsHeld
  <2>2. CASE g # f
    <3>1. rp'[g] = rp[g] /\ rd'[g].ep = rd[g].ep /\ (g \in r_list' <=> g \in r_list)
      BY <1>1, <2>2
    <3>2. QED BY <2>2, <3>1, SameHeld
  <2>3. QED BY <2>1, <2>2
<1>3. [g \in Files |-> Unread(g)]' = [[g \in Files |-> Unread(g)] EXCEPT ![f] = <<>>]
  BY <1>2
<1>4. QED BY <1>1, <1>3 DEF Log!Leave

\* An open that fails, and the end of a release.
LEMMA FileStutters ==
  ASSUME WellFormed, NEW f \in Files, OpenFails(f) \/ Drain(f)
  PROVE  UNCHANGED Log!vars
<1>1. CASE OpenFails(f)
  <2>1. UNCHANGED <<r_list, copied, cnt_events, cnt_text_lost, rp, rd>>
    BY <1>1 DEF OpenFails, bus
  <2>2. \A g \in Files : Unread(g)' = Unread(g)
    BY <2>1, SameHeld
  <2>3. QED BY <2>1, <2>2, LogStutters
<1>2. CASE Drain(f)
  <2>1. /\ UNCHANGED <<r_list, copied, cnt_events, cnt_text_lost, rd>>
        /\ f \notin r_list
    BY <1>2, Listed DEF Drain, bus
  <2>2. ASSUME NEW g \in Files PROVE Unread(g)' = Unread(g)
    <3>1. CASE g = f
      BY <2>1, <3>1, UnreadKept
    <3>2. CASE g # f
      <4>1. rp'[g] = rp[g]
        BY <1>2, <3>2 DEF Drain, WellFormed, TypeOK
      <4>2. QED BY <2>1, <4>1, SameHeld
    <3>3. QED BY <3>1, <3>2
  <2>3. QED BY <2>1, <2>2, LogStutters
<1>3. QED BY <1>1, <1>2

\* A read that leaves what its file is still to get: it waits, fetches, or gives up.
LEMMA WaitStutters ==
  ASSUME WellFormed, NEW f \in Files, NEW n \in 1 .. 2,
         ReadWait(f, n) \/ Fetch(f) \/ Nothing(f) \/ Wake(f) \/ Signal(f)
  PROVE  UNCHANGED Log!vars
<1>1. /\ rp[f] \in Reader /\ rd[f] \in Thread /\ ReaderOK(f)
      /\ rp[f].left_pos + rp[f].left_size <= Len(rp[f].printf_buf)
  BY Listed
<1>2. UNCHANGED <<r_list, copied, cnt_events, cnt_text_lost>>
  BY DEF ReadWait, Fetch, Nothing, Wake, Signal, Step, bus
<1>3. ASSUME NEW r, NEW t, rp' = [rp EXCEPT ![f] = r], rd' = [rd EXCEPT ![f] = t],
             Held(r, t) = Held(rp[f], rd[f])
      PROVE  UNCHANGED Log!vars
  <2>1. Unread(f)' = Unread(f)
    <3>1. rp'[f] = r /\ rd'[f] = t
      BY <1>2, <1>3, OthersKept
    <3>2. QED BY <1>2, <1>3, <3>1, UnreadKept
  <2>2. \A g \in Files : g # f => Unread(g)' = Unread(g)
    BY <1>2, <1>3, OthersKept
  <2>3. QED BY <1>2, <2>1, <2>2, LogStutters
\* The reader stays, and the thread has the same event in hand or none.
<1>4. ASSUME NEW t, rp' = rp, rd' = [rd EXCEPT ![f] = t], t.ep = rd[f].ep
      PROVE  UNCHANGED Log!vars
  <2>1. rp' = [rp EXCEPT ![f] = rp[f]]
    BY <1>4 DEF WellFormed, TypeOK
  <2>2. Held(rp[f], t) = Held(rp[f], rd[f])
    BY <1>4 DEF Held, Hand
  <2>3. QED BY <1>3, <1>4, <2>1, <2>2
<1>5. CASE ReadWait(f, n)
  <2>1. rd[f].ep = 0
    BY <1>1, <1>5 DEF ReadWait, Enters, ReaderOK, Idle
  <2> DEFINE t == [Idle EXCEPT !.pc = "fetch", !.n = n, !.awake = FALSE]
  <2>2. t.ep = 0
    BY DEF Idle
  <2>3. rp' = rp /\ rd' = [rd EXCEPT ![f] = t]
    BY <1>5 DEF ReadWait, Step
  <2> HIDE DEF t
  <2>4. QED BY <1>4, <2>1, <2>2, <2>3
<1>6. CASE Fetch(f)
  <2>1. CASE rp[f].e_list = <<>>
    <3> DEFINE t == [rd[f] EXCEPT !.pc = "empty"]
    <3>1. t.ep = rd[f].ep
      BY <1>1 DEF Thread
    <3>2. rp' = rp /\ rd' = [rd EXCEPT ![f] = t]
      BY <1>6, <2>1 DEF Fetch, Step
    <3> HIDE DEF t
    <3>3. QED BY <1>4, <3>1, <3>2
  <2>2. CASE rp[f].e_list # <<>>
    <3> DEFINE t == [rd[f] EXCEPT !.pc = "print", !.ep = Head(rp[f].e_list), !.awake = TRUE]
    <3>1. t.ep = Head(rp[f].e_list)
      BY <1>1 DEF Thread
    <3>2. rp' = [rp EXCEPT ![f] = Taken(rp[f])] /\ rd' = [rd EXCEPT ![f] = t]
      BY <1>6, <2>2 DEF Fetch, Step
    <3>3. rd[f].ep = 0 /\ rp[f].nevents = Len(rp[f].e_list)
      BY <1>1, <1>6 DEF Fetch, Step, ReaderOK
    <3> HIDE DEF t
    <3>4. Held(Taken(rp[f]), t) = Held(rp[f], rd[f])
      BY <1>1, <2>2, <3>1, <3>3, HeldTaken
    <3>5. QED BY <1>3, <3>2, <3>4
  <2>3. QED BY <2>1, <2>2
<1>7. CASE Nothing(f)
  <2>1. rd[f].ep = 0
    BY <1>1, <1>7 DEF Nothing, Step, ReaderOK
  <2> DEFINE t == IF f \in Impatient THEN Idle ELSE [rd[f] EXCEPT !.pc = "sleep"]
  <2>2. t.ep = rd[f].ep
    BY <1>1, <2>1 DEF Thread, Idle
  <2>3. rp' = rp /\ rd' = [rd EXCEPT ![f] = t]
    BY <1>7 DEF Nothing, Step
  <2> HIDE DEF t
  <2>4. QED BY <1>4, <2>2, <2>3
<1>8. CASE Wake(f)
  <2>1. rd[f].ep = 0
    BY <1>1, <1>8 DEF Wake, Step, ReaderOK
  <2> DEFINE t == IF rd[f].signal THEN Idle ELSE [rd[f] EXCEPT !.pc = "fetch", !.awake = FALSE]
  <2>2. t.ep = rd[f].ep
    BY <1>1, <2>1 DEF Thread, Idle
  <2>3. rp' = rp /\ rd' = [rd EXCEPT ![f] = t]
    BY <1>8 DEF Wake, Step
  <2> HIDE DEF t
  <2>4. QED BY <1>4, <2>2, <2>3
<1>9. CASE Signal(f)
  <2> DEFINE t == [rd[f] EXCEPT !.signal = TRUE]
  <2>1. t.ep = rd[f].ep
    BY <1>1 DEF Thread
  <2>2. rp' = rp /\ rd' = [rd EXCEPT ![f] = t]
    BY <1>9 DEF Signal
  <2> HIDE DEF t
  <2>3. QED BY <1>4, <2>1, <2>2
<1>10. QED BY <1>5, <1>6, <1>7, <1>8, <1>9

\* A read that copies what the last one left, or faults at it.
LEMMA ReadLeftGives ==
  ASSUME WellFormed, NEW f \in Files, NEW n \in 1 .. 2, ReadLeft(f, n)
  PROVE  Log!Deliver(f) \/ Log!Fault(f)
<1>1. /\ rp[f] \in Reader /\ rd[f] \in Thread /\ ReaderOK(f)
      /\ rp[f].left_pos + rp[f].left_size <= Len(rp[f].printf_buf)
      /\ file[f] = "open" /\ rd[f].pc = "idle" /\ f \in r_list
  BY Listed DEF ReadLeft, Enters
<1>2. rp[f].left_size = 1 /\ (IF rp[f].left_size > n THEN n ELSE rp[f].left_size) = 1
  BY <1>1 DEF ReadLeft, Reader
<1>3. rd[f].ep = 0 /\ rd = [rd EXCEPT ![f] = rd[f]] /\ rp = [rp EXCEPT ![f] = rp[f]]
  BY <1>1 DEF ReaderOK, Idle, WellFormed, TypeOK
<1>4. UNCHANGED <<r_list, cnt_events, cnt_text_lost, rd>>
  BY DEF ReadLeft, bus
<1>5. rp[f].left_pos + 1 <= 2
  <2>1. rp[f].left_pos \in Nat /\ Len(rp[f].printf_buf) \in 0 .. 2
    BY <1>1, BufferType DEF Reader
  <2>2. ASSUME NEW p \in Nat, NEW b \in 0 .. 2, p + 1 <= b PROVE p + 1 <= 2
    BY <2>2
  <2>3. QED BY <1>1, <1>2, <2>1, <2>2
<1> DEFINE h == Held(rp[f], rd[f])
<1>6. CASE rp' = [rp EXCEPT ![f] = Consumed(rp[f], 1)] /\ Copy(f, rp[f].left_pos, 1)
  <2>1. /\ 1 \in 1 .. Len(h)
        /\ SubSeq(rp[f].printf_buf, rp[f].left_pos + 1, rp[f].left_pos + 1) = SubSeq(h, 1, 1)
        /\ Held(Consumed(rp[f], 1), rd[f]) = SubSeq(h, 1 + 1, Len(h))
    BY <1>1, <1>2, <1>3, <1>5, HeldConsumed
  <2>2. rp'[f].printf_buf = rp[f].printf_buf
    <3>1. rp'[f] = Consumed(rp[f], 1)
      BY <1>6 DEF WellFormed, TypeOK
    <3>2. QED BY <1>1, <1>2, <1>5, <3>1, ConsumedType
  <2>3. copied' = SubSeq(h, 1, 1)
    BY <1>6, <2>1, <2>2 DEF Copy
  <2> HIDE DEF h
  <2>4. rd' = [rd EXCEPT ![f] = rd[f]]
    BY <1>3, <1>4
  <2>5. QED BY <1>1, <1>4, <1>6, <2>1, <2>3, <2>4, OneGiven DEF h
<1>7. CASE CopyFaults /\ UNCHANGED rp
  <2>1. Unread(f) \in Seq(Halves)
    BY <1>1, HeldParts, UnreadIsHeld
  <2>2. \A g \in Files : Unread(g)' = Unread(g)
    BY <1>4, <1>7, SameHeld
  <2>3. SubSeq(Unread(f), 0 + 1, Len(Unread(f))) = Unread(f)
    BY <2>1, SubSeqFull
  <2>4. [g \in Files |-> Unread(g)]'
          = [[g \in Files |-> Unread(g)] EXCEPT ![f] = SubSeq(@, 0 + 1, Len(@))]
    BY <2>2, <2>3
  <2>5. 0 \in 0 .. Len([g \in Files |-> Unread(g)][f]) /\ copied' = <<>>
    BY <1>7, <2>1 DEF CopyFaults
  <2>6. Log!Fault(f)
    BY <1>4, <2>4, <2>5 DEF Log!Fault, Log!Cut
  <2>7. QED BY <2>6
<1>8. QED BY <1>2, <1>6, <1>7 DEF ReadLeft

\* A read that shows an event, or faults at it.
LEMMA ShowGives ==
  ASSUME WellFormed, NEW f \in Files, Show(f)
  PROVE  Log!Deliver(f) \/ Log!Fault(f)
<1>1. /\ rp[f] \in Reader /\ rd[f] \in Thread /\ ReaderOK(f)
      /\ rp[f].left_pos + rp[f].left_size <= Len(rp[f].printf_buf)
      /\ rd[f].pc = "print" /\ f \in r_list
  BY Listed DEF Show
<1>2. /\ rp[f].left_size = 0 /\ rd[f].ep # 0 /\ rd[f].n \in 1 .. 2 /\ rp[f].objs > 0
  <2>1. rp[f].objs = Len(rp[f].e_list) + 1 /\ Len(rp[f].e_list) \in Nat
    BY <1>1 DEF ReaderOK, Reader
  <2>2. QED BY <1>1, <2>1 DEF ReaderOK, Thread
<1> DEFINE h == Held(rp[f], rd[f])
           r == Freed(Shown(f))
           k == rd[f].n
<1>3. /\ rp' = [rp EXCEPT ![f] = r] /\ rd' = [rd EXCEPT ![f] = Idle]
      /\ UNCHANGED <<r_list, cnt_events, cnt_text_lost>>
      /\ Copy(f, 0, rd[f].n) \/ CopyFaults
  BY DEF Show, bus
<1>4. Idle \in Thread /\ Idle.ep = 0
  BY FreshType DEF Idle
<1>5. r = Freed(Formatted(rp[f], rd[f].ep, k))
  BY DEF Shown
<1> HIDE DEF r
<1>6. /\ k \in 1 .. Len(h) /\ SubSeq(Text(rd[f].ep), 1, k) = SubSeq(h, 1, k)
      /\ Held(r, Idle) = SubSeq(h, k + 1, Len(h))
  BY <1>1, <1>2, <1>4, <1>5, HeldShown
<1>7. copied' \in {<<>>, SubSeq(h, 1, k)}
  <2>1. CASE Copy(f, 0, rd[f].n)
    <3>1. rp'[f] = r
      BY <1>3 DEF WellFormed, TypeOK
    <3>2. r.printf_buf = Text(rd[f].ep)
      BY <1>1, <1>5 DEF Freed, Formatted, Reader
    <3>3. copied' = SubSeq(Text(rd[f].ep), 0 + 1, 0 + k)
      BY <2>1, <3>1, <3>2 DEF Copy
    <3>4. 0 + 1 = 1 /\ 0 + k = k
      BY <1>2
    <3>5. QED BY <1>6, <3>3, <3>4
  <2>2. CASE CopyFaults
    BY <2>2 DEF CopyFaults
  <2>3. QED BY <1>3, <2>1, <2>2
<1> HIDE DEF h, k
<1>8. QED BY <1>1, <1>3, <1>6, <1>7, OneGiven DEF h

\* Each step is one of the log, or none.
LEMMA LogNext == WellFormed /\ [Next]_vars => [Log!Next]_(Log!vars)
<1> SUFFICES ASSUME WellFormed, [Next]_vars PROVE Log!Next \/ UNCHANGED Log!vars
  OBVIOUS
<1>1. ASSUME NEW s \in Sources, Look(s) PROVE UNCHANGED Log!vars
  <2>1. UNCHANGED <<r_list, copied, cnt_events, cnt_text_lost, rp, rd>>
    BY <1>1 DEF Look, bus
  <2>2. \A g \in Files : Unread(g)' = Unread(g)
    BY <2>1, SameHeld
  <2>3. QED BY <2>1, <2>2, LogStutters
<1>2. ASSUME NEW s \in Sources, Submit(s) PROVE Log!Next
  BY <1>2, SubmitIsEvent DEF Log!Next
<1>3. ASSUME NEW f \in Files, OpenFails(f) \/ Drain(f) PROVE UNCHANGED Log!vars
  BY <1>3, FileStutters
<1>4. ASSUME NEW f \in Files, Open(f) \/ Unregister(f) PROVE Log!Next
  BY <1>4, OpenIsJoin, UnregisterIsLeave DEF Log!Next
<1>5. ASSUME NEW f \in Files, NEW n \in 1 .. 2, ReadLeft(f, n) PROVE Log!Next
  BY <1>5, ReadLeftGives DEF Log!Next
<1>6. ASSUME NEW f \in Files, Show(f) PROVE Log!Next
  BY <1>6, ShowGives DEF Log!Next
<1>7. ASSUME NEW f \in Files, NEW n \in 1 .. 2,
             ReadWait(f, n) \/ Fetch(f) \/ Nothing(f) \/ Wake(f) \/ Signal(f)
      PROVE  UNCHANGED Log!vars
  BY <1>7, WaitStutters
<1>8. CASE RemoveStart \/ RemoveEnd \/ UNCHANGED vars
  <2>1. UNCHANGED <<r_list, copied, cnt_events, cnt_text_lost, rp, rd>>
    BY <1>8 DEF RemoveStart, RemoveEnd, vars, bus
  <2>2. \A g \in Files : Unread(g)' = Unread(g)
    BY <2>1, SameHeld
  <2>3. QED BY <2>1, <2>2, LogStutters
<1>9. \A f \in Files : Fetch(f) \/ Nothing(f) \/ Wake(f) \/ Signal(f) => UNCHANGED Log!vars
  BY <1>7
<1>10. CASE Next
  <2>1. CASE \E s \in Sources : Look(s) \/ Submit(s)
    BY <1>1, <1>2, <2>1
  <2>2. ASSUME NEW f \in Files,
               \/ Open(f) \/ OpenFails(f) \/ Unregister(f) \/ Drain(f)
               \/ \E n \in 1 .. 2 : ReadLeft(f, n) \/ ReadWait(f, n)
               \/ Inside(f) \/ Signal(f)
        PROVE  Log!Next \/ UNCHANGED Log!vars
    <3>1. CASE Open(f) \/ OpenFails(f) \/ Unregister(f) \/ Drain(f)
      BY <1>3, <1>4, <3>1
    <3>2. CASE \E n \in 1 .. 2 : ReadLeft(f, n) \/ ReadWait(f, n)
      BY <1>5, <1>7, <3>2
    <3>3. CASE Inside(f) \/ Signal(f)
      BY <1>6, <1>9, <3>3 DEF Inside
    <3>4. QED BY <2>2, <3>1, <3>2, <3>3
  <2>3. QED BY <1>8, <1>10, <2>1, <2>2 DEF Next
<1>11. QED BY <1>8, <1>10

\* From its open to its release a reader is given the text of each event once, whole and in order,
\* but for the events in cnt_text_lost and what a failed copy_to_user was to carry, for any number
\* of sources, readers and events and whatever they do in between (mhi_init.c:349, 489, 538;
\* mhi_main.c:381).
THEOREM EachEventOnce == Spec => LogSpec
<1>1. WellFormed /\ [Next]_vars => [Log!Next]_(Log!vars)
  BY LogNext
<1>2. QED BY LogInit, BookkeepingKept, <1>1, PTL DEF Spec, LogSpec, Log!Spec

=============================================================================

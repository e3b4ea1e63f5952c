---------------------------- MODULE MhiUciProofs ----------------------------
(***************************************************************************)
(* A character device and its channels, for every number of threads,       *)
(* descriptors, packets, opens and errors.                                 *)
(*                                                                         *)
(*   Core        types and locks, who is inside and how often the device   *)
(*               is counted, when the modem is in error                    *)
(*               (DeviceOutlivesUse);                                      *)
(*   StageInv    how far the first open has come and what it has done of   *)
(*               the channels (QueuedIntoAllocated);                       *)
(*   RestartInv and AgreeInv                                               *)
(*               the commands under way, and whose answer has come         *)
(*               (NeverRestarted, EnabledIsStarted);                       *)
(*   DataInv     where every receive buffer is, counted round from nr_trb  *)
(*               (BuffersInPlace);                                         *)
(*   PktInv      which packets are in the ring (PacketsInOrder).           *)
(*                                                                         *)
(* For channels and packets the steps are first sorted by what they do to  *)
(* them (BoundSteps, DataSteps); the invariants are proved of those sorts. *)
(***************************************************************************)
EXTENDS MhiUci, FiniteSetTheorems, SequenceTheorems, TLAPS

-----------------------------------------------------------------------------
(* Where a thread is.                                                      *)

\* It is opening the device and no buffers are allocated yet, or they are; it has the file open.
Bare == {<<"prepare", "ul">>, <<"prepare", "dl">>, <<"starting", "ul">>, <<"starting", "dl">>,
         <<"unprepare", "ul", "prepare">>, <<"resetting", "ul", "prepare">>, <<"fill", 0>>}
Failing == {<<"unprepare", "dl", "fill">>, <<"unprepare", "ul", "fill">>}
Stocked == ({"fill"} \X (1 .. N - 1)) \cup Failing
Opening == Bare \cup Stocked
Reading == {<<"read">>, <<"copy">>}
Files == Reading \cup {Opened, <<"write">>, <<"queue">>}

\* Which label is what.
LEMMA Labels ==
  /\ Bare \cap Stocked = {} /\ Opening \cap Files = {}
  /\ Out \notin Files /\ Out \notin Opening
  /\ \A c \in Chans : /\ <<"prepare", c>> \in Bare /\ <<"starting", c>> \in Bare
                      /\ <<"unprepare", c, "fill">> \in Failing
  /\ Failing \subseteq Stocked /\ \A i \in Nat : <<"fill", i>> \notin Failing
  /\ <<"unprepare", "ul", "prepare">> \in Bare /\ <<"resetting", "ul", "prepare">> \in Bare
  /\ <<"fill", 0>> \in Bare /\ \A i \in 1 .. N - 1 : <<"fill", i>> \in Stocked
  /\ <<"read">> \in Reading /\ <<"copy">> \in Reading
  /\ Opened \in Files \ Reading /\ <<"write">> \in Files \ Reading /\ <<"queue">> \in Files \ Reading
  BY DEF Bare, Failing, Stocked, Opening, Reading, Files, Out, Opened, Chans

Inside == {u \in Users : pc[u] # Out}
Kept == uci_buf # "none" /\ drv_lock = NoOne

\* The thread that opens the device first is alone in it until it has done.
LockInv ==
  /\ mutex = drv_lock
  /\ \A u \in Users : /\ pc[u] \in {Out} \cup Files \cup Opening
                      /\ pc[u] \in Opening <=> drv_lock = u
                      /\ pc[u] \in Reading <=> r_mutex = u
                      /\ pc[u] \in Bare => uci_buf = "none"
                      /\ pc[u] \in Stocked => uci_buf = "there"
  /\ drv_lock # NoOne => Inside = {drv_lock} /\ node = "listed"
  /\ uci_buf = "none" /\ drv_lock = NoOne => Inside = {}

\* The device counts its files, and while it is listed and has buffers one more.
RefInv ==
  /\ enabled <=> node = "listed"
  /\ ref_count = Cardinality(Inside) + (IF node = "listed" /\ Kept THEN 1 ELSE 0)
  /\ node = "freed" => ref_count = 0

\* The modem is in error while the device is being removed, from which the removal takes it off
\* the list half way through; the first open fills an empty ring, and stops only in an error.
ErrInv ==
  /\ pm = "ok" <=> life \in {"bound", "gone"}
  /\ node = "listed" <=> life \notin {"deinit", "gone"}
  /\ \A u \in Users : pc[u] \in Failing => pm = "err"
  /\ uci_buf = "none" => dl = <<>>
  /\ \A u \in Users : \A i \in 0 .. N - 1 : At(u, <<"fill", i>>) => Len(dl) <= i

\* A thread that moves moves alone.
LEMMA Moves ==
  ASSUME TypeOK
  PROVE  \A u \in Users : \A l : Goto(u, l) => /\ pc'[u] = l /\ \A v \in Users : v # u => pc'[v] = pc[v]
                                               /\ Inside' = IF l = Out THEN Inside \ {u} ELSE Inside \cup {u}
  BY DEF TypeOK, Goto, Inside

\* How many are inside, and when one enters or leaves.
LEMMA Heads0 == IsFiniteSet(Inside) /\ Cardinality(Inside) \in Nat /\ (Cardinality(Inside) = 0 <=> Inside = {})
<1>1. Inside \in SUBSET Users /\ IsFiniteSet(Users)
  BY UciAssumption DEF Inside
<1>2. IsFiniteSet(Inside)
  BY <1>1, FS_Subset
<1>3. QED BY <1>2, FS_CardinalityType, FS_EmptySet

\* How many there are when one has entered or left.
LEMMA Count ==
  ASSUME NEW u \in Users
  PROVE  /\ Cardinality(Inside) \in Nat /\ (Cardinality(Inside) = 0 <=> Inside = {})
         /\ Cardinality(Inside \ {u}) = IF u \in Inside THEN Cardinality(Inside) - 1 ELSE Cardinality(Inside)
         /\ Cardinality(Inside \cup {u}) = IF u \in Inside THEN Cardinality(Inside) ELSE Cardinality(Inside) + 1
  BY Heads0, FS_RemoveElement, FS_AddElement

\* Only three of the ways to give channels up are taken.
LEMMA Ways ==
  ASSUME LockInv
  PROVE  \A u \in Users, c \in Chans, why \in Whys :
           /\ At(u, <<"unprepare", c, why>>) => \/ (c = "ul" /\ why = "prepare")
                                                \/ why = "fill"
           /\ At(u, <<"resetting", c, why>>) => c = "ul" /\ why = "prepare"
  BY DEF LockInv, At, Opening, Bare, Failing, Stocked, Files, Reading, Chans, Whys, Out, Opened

\* Where a failed step of an open leads.
LEMMA Undo ==
  ASSUME NEW u \in Users, NEW c \in Chans, NEW why \in Whys, Unprepared(u, c, why),
         (c = "ul" /\ why = "prepare") \/ why = "fill"
  PROVE  \/ /\ why = "prepare" /\ OpenLeave(u, Out) /\ ref_count' = ref_count - 1
            /\ UNCHANGED <<uci_buf, cur_buf>>
         \/ /\ why = "fill" /\ c = "dl"
            /\ Goto(u, <<"unprepare", "ul", "fill">>) /\ UNCHANGED <<locks, ref_count, uci_buf, cur_buf>>
         \/ /\ why = "fill" /\ c = "ul" /\ OpenLeave(u, Out) /\ FreeBuffers
            /\ UNCHANGED <<ref_count, cur_buf>>
  BY DEF Unprepared, Chans, Whys

\* A close finds nobody opening; the last one finds the device removed.
LEMMA Closes ==
  ASSUME TypeOK, LockInv, RefInv, NEW u \in Users, Close(u)
  PROVE  /\ drv_lock = NoOne /\ uci_buf # "none" /\ u \in Inside
         /\ \/ Goto(u, Out) /\ UNCHANGED <<mutex, node, uci_buf, cur_buf>> /\ ref_count # 1
            \/ /\ FreeBuffers /\ cur_buf' = Nothing /\ node' = "freed" /\ Goto(u, Out)
               /\ mutex' = mutex /\ ref_count = 1 /\ ~enabled
<1>1. u \in Inside /\ drv_lock = NoOne /\ uci_buf # "none"
  BY Labels DEF Close, At, LockInv, Inside
<1>2. Cardinality(Inside) # 0 /\ Cardinality(Inside) \in Nat
  BY <1>1, Count
<1>3. ~(ref_count = 1 /\ enabled)
  BY <1>1, <1>2 DEF RefInv, Kept
<1>4. QED
  BY <1>1, <1>3 DEF Close

\* A thread of the device that moves keeps the discipline if the locks and its place go together.
LEMMA Settles ==
  ASSUME TypeOK, LockInv, NEW u \in Users, NEW l \in {Out} \cup Files \cup Opening, Goto(u, l),
         mutex' = drv_lock', drv_lock \in {u, NoOne}, drv_lock' \in {u, NoOne},
         l \in Opening <=> drv_lock' = u,
         \/ r_mutex' = r_mutex /\ (l \in Reading <=> pc[u] \in Reading)
         \/ r_mutex = NoOne /\ r_mutex' = u /\ l \in Reading
         \/ r_mutex = u /\ r_mutex' = NoOne /\ l \notin Reading,
         l \in Bare => uci_buf' = "none", l \in Stocked => uci_buf' = "there",
         l \in Opening => node' = "listed" /\ (pc[u] \in Opening \/ Inside = {}),
         l \in Files => uci_buf' # "none",
         l = Out => uci_buf' # "none" \/ Inside = {u}
  PROVE  LockInv'
<1>1. /\ pc'[u] = l /\ \A v \in Users : v # u => pc'[v] = pc[v]
      /\ Inside' = IF l = Out THEN Inside \ {u} ELSE Inside \cup {u}
  BY Moves
<1>2. NoOne \notin Users
  BY UciAssumption
<1>3. mutex' = drv_lock'
  OBVIOUS
<1>4. ASSUME NEW v \in Users, v # u
      PROVE  /\ pc'[v] \in {Out} \cup Files \cup Opening
             /\ pc'[v] \in Opening <=> drv_lock' = v
             /\ pc'[v] \in Reading <=> r_mutex' = v
             /\ pc'[v] \in Bare => uci_buf' = "none"
             /\ pc'[v] \in Stocked => uci_buf' = "there"
  <2>1. pc'[v] = pc[v] /\ drv_lock # v /\ drv_lock' # v
    BY <1>1, <1>2, <1>4
  <2>2. pc[v] \in {Out} \cup Files \cup Opening /\ pc[v] \notin Opening
    BY <2>1 DEF LockInv
  <2>3. pc[v] \in Reading <=> r_mutex = v
    BY DEF LockInv
  <2>4. r_mutex = v <=> r_mutex' = v
    BY <1>2, <1>4
  <2>5. pc[v] \notin Bare /\ pc[v] \notin Stocked
    BY <2>2 DEF Opening
  <2>6. QED BY <2>1, <2>2, <2>3, <2>4, <2>5
<1>5. /\ pc'[u] \in {Out} \cup Files \cup Opening
      /\ pc'[u] \in Opening <=> drv_lock' = u
      /\ pc'[u] \in Bare => uci_buf' = "none"
      /\ pc'[u] \in Stocked => uci_buf' = "there"
  BY <1>1
<1>6. pc'[u] \in Reading <=> r_mutex' = u
  <2>1. pc[u] \in Reading <=> r_mutex = u
    BY DEF LockInv
  <2>2. QED BY <1>1, <1>2, <2>1
<1>7. ASSUME drv_lock' # NoOne PROVE Inside' = {drv_lock'} /\ node' = "listed"
  <2>1. drv_lock' = u /\ l \in Opening /\ l # Out
    BY <1>7, Labels
  <2>2. Inside = {} \/ Inside = {u}
    BY <2>1, <1>2 DEF LockInv
  <2>3. QED BY <1>1, <2>1, <2>2
<1>8. ASSUME uci_buf' = "none", drv_lock' = NoOne PROVE Inside' = {}
  <2>1. l = Out
    BY <1>2, <1>8
  <2>2. Inside = {u}
    BY <1>8, <2>1
  <2>3. QED BY <1>1, <2>1, <2>2
<1>9. QED BY <1>3, <1>4, <1>5, <1>6, <1>7, <1>8 DEF LockInv

\* Nobody moves.
LEMMA LockRests ==
  ASSUME LockInv, UNCHANGED <<pc, drv_lock, mutex, r_mutex, uci_buf>>, drv_lock = NoOne \/ node' = node
  PROVE  LockInv'
  BY DEF LockInv, Inside

\* Where a thread with a place in the device is.
LEMMA Stands ==
  ASSUME LockInv
  PROVE  \A u \in Users :
         /\ pc[u] \in Opening => drv_lock = u /\ Inside = {u} /\ node = "listed" /\ mutex = u
         /\ pc[u] \in Bare => uci_buf = "none"
         /\ pc[u] \in Stocked => uci_buf = "there"
         /\ pc[u] \in Files => drv_lock = NoOne /\ uci_buf # "none" /\ u \in Inside
         /\ pc[u] \in Reading <=> r_mutex = u
<1>1. NoOne \notin Users
  BY UciAssumption
<1>2. ASSUME NEW u \in Users, pc[u] \in Opening PROVE drv_lock = u /\ Inside = {u} /\ node = "listed" /\ mutex = u
  BY <1>1, <1>2 DEF LockInv
<1>3. ASSUME NEW u \in Users, pc[u] \in Files PROVE drv_lock = NoOne /\ uci_buf # "none" /\ u \in Inside
  <2>1. u \in Inside /\ pc[u] \notin Opening
    BY <1>3, Labels DEF Inside
  <2>2. drv_lock = NoOne
    BY <2>1 DEF LockInv
  <2>3. QED BY <2>1, <2>2 DEF LockInv
<1>4. QED BY <1>2, <1>3 DEF LockInv, Opening

\* Every step keeps the locks.
LEMMA LockStays ==
  ASSUME TypeOK, LockInv, RefInv, ErrInv, [Next]_vars
  PROVE  LockInv'
<1> USE DEF At
<1>n. NoOne \notin Users /\ N \in Nat \ {0}
  BY UciAssumption
<1>o. Out \notin Opening /\ Out \notin Files /\ Out \notin Reading /\ Out \notin Bare /\ Out \notin Stocked
  BY Labels DEF Opening, Files
<1>p. Opened \notin Opening /\ Opened \in Files /\ Opened \notin Reading /\ Opened \notin Bare /\ Opened \notin Stocked
  BY Labels DEF Opening
<1>1. ASSUME NEW u \in Users, OpenEnter(u) PROVE LockInv'
  <2>1. /\ drv_lock = NoOne /\ mutex = NoOne /\ node = "listed" /\ node' = node /\ pc[u] = Out
        /\ r_mutex' = r_mutex /\ uci_buf' = uci_buf
        /\ \/ ref_count = 0 /\ drv_lock' = u /\ mutex' = u /\ Goto(u, <<"prepare", "ul">>)
           \/ ref_count # 0 /\ Goto(u, Opened) /\ drv_lock' = NoOne /\ mutex' = NoOne
    BY <1>1 DEF OpenEnter, locks, files
  <2>2. Cardinality(Inside) \in Nat /\ (Cardinality(Inside) = 0 <=> Inside = {})
    BY Count
  <2>3. ref_count = Cardinality(Inside) + (IF Kept THEN 1 ELSE 0)
    BY <2>1 DEF RefInv
  <2>4. ref_count = 0 => Inside = {} /\ uci_buf = "none"
    BY <2>1, <2>2, <2>3 DEF Kept
  <2>5. ref_count # 0 => uci_buf # "none"
    BY <2>1, <2>2, <2>3 DEF Kept, LockInv
  <2>6. CASE ref_count = 0
    <3> DEFINE l == <<"prepare", "ul">>
    <3>1. l \in Bare /\ l \in Opening /\ l \notin Reading /\ l \notin Files /\ l # Out /\ l \notin Stocked
      BY Labels DEF Opening, Files, Chans
    <3>2. Goto(u, l)
      BY <2>1, <2>6
    <3> HIDE DEF l
    <3>3. QED BY <1>n, <1>o, <2>1, <2>4, <2>6, <3>1, <3>2, Settles
  <2>7. CASE ref_count # 0
    BY <1>n, <1>o, <1>p, <2>1, <2>5, <2>7, Settles
  <2>8. QED BY <2>6, <2>7
<1>2. ASSUME NEW u \in Users, NEW c \in Chans, Prepare(u, c) \/ Started(u, c) \/ StartExpires(u, c) PROVE LockInv'
  <2>1. /\ pc[u] \in {<<"prepare", c>>, <<"starting", c>>} /\ UNCHANGED <<node, r_mutex, uci_buf>>
        /\ \/ OpenLeave(u, Out)
           \/ /\ UNCHANGED <<drv_lock, mutex>>
              /\ \/ Goto(u, <<"starting", c>>) \/ Goto(u, <<"unprepare", "ul", "prepare">>)
                 \/ Goto(u, <<"prepare", "dl">>) \/ Goto(u, <<"fill", 0>>)
    BY <1>2 DEF Prepare, Started, StartExpires, PrepareFailed, files, locks
  <2>2. pc[u] \in Bare /\ pc[u] \in Opening
    BY <2>1, Labels DEF Opening
  <2>3. drv_lock = u /\ mutex = u /\ Inside = {u} /\ node = "listed" /\ uci_buf = "none" /\ pc[u] \notin Reading
    BY <2>2, Stands, Labels DEF Files
  <2>4. CASE OpenLeave(u, Out)
    BY <1>n, <1>o, <2>1, <2>2, <2>3, <2>4, Settles DEF OpenLeave
  <2>5. CASE \E l \in Bare : Goto(u, l) /\ UNCHANGED <<drv_lock, mutex>>
    <3>1. PICK l \in Bare : Goto(u, l) /\ UNCHANGED <<drv_lock, mutex>>
      BY <2>5
    <3>2. l \in Opening /\ l \notin Reading /\ l \notin Files /\ l # Out /\ l \notin Stocked
      BY Labels DEF Opening, Files
    <3>3. QED BY <1>n, <2>1, <2>2, <2>3, <3>1, <3>2, Settles
  <2>6. QED BY <2>1, <2>4, <2>5, Labels DEF Chans
<1>3. ASSUME NEW u \in Users, Fill(u) PROVE LockInv'
  <2>1. PICK i \in 0 .. N - 1 :
             /\ pc[u] = <<"fill", i>> /\ UNCHANGED <<node, r_mutex>>
             /\ uci_buf' = IF uci_buf = "none" THEN "there" ELSE uci_buf
             /\ \/ OpenLeave(u, Opened)
                \/ /\ UNCHANGED <<drv_lock, mutex>>
                   /\ \/ Goto(u, <<"unprepare", "dl", "fill">>)
                      \/ i # N - 1 /\ Goto(u, <<"fill", i + 1>>)
    BY <1>3 DEF Fill, Filled, files, locks
  <2>2. (pc[u] \in Bare \/ pc[u] \in Stocked) /\ pc[u] \in Opening
    <3>1. i = 0 \/ i \in 1 .. N - 1
      BY <1>n
    <3>2. QED BY <2>1, <3>1, Labels DEF Opening
  <2>3. drv_lock = u /\ mutex = u /\ Inside = {u} /\ node = "listed" /\ uci_buf' = "there" /\ pc[u] \notin Reading
    BY <2>1, <2>2, Stands, Labels DEF Files
  <2>4. CASE OpenLeave(u, Opened)
    <3>1. Opened \in Files /\ Opened \notin Reading /\ Opened \notin Opening /\ Opened # Out /\ Opened \notin Bare
          /\ Opened \notin Stocked
      BY Labels DEF Opening
    <3>2. QED BY <1>n, <2>1, <2>2, <2>3, <2>4, <3>1, Settles DEF OpenLeave
  <2>5. CASE \E l \in Stocked : Goto(u, l) /\ UNCHANGED <<drv_lock, mutex>>
    <3>1. PICK l \in Stocked : Goto(u, l) /\ UNCHANGED <<drv_lock, mutex>>
      BY <2>5
    <3>2. l \in Opening /\ l \notin Reading /\ l \notin Files /\ l # Out /\ l \notin Bare
      BY Labels DEF Opening, Files
    <3>3. QED BY <1>n, <2>1, <2>2, <2>3, <3>1, <3>2, Settles
  <2>6. i # N - 1 => i + 1 \in 1 .. N - 1
    BY <1>n
  <2>7. QED BY <2>1, <2>4, <2>5, <2>6, Labels DEF Chans
<1>4. ASSUME NEW u \in Users, NEW c \in Chans, NEW why \in Whys,
             At(u, <<"unprepare", c, why>>) \/ At(u, <<"resetting", c, why>>), Unprepared(u, c, why),
             UNCHANGED <<r_mutex, node>>
      PROVE  LockInv'
  <2>1. (c = "ul" /\ why = "prepare") \/ why = "fill"
    BY <1>4, Ways
  <2>2. (why = "prepare" => pc[u] \in Bare) /\ (why = "fill" => pc[u] \in Stocked)
    <3>1. why = "prepare" => pc[u] \in {<<"unprepare", "ul", "prepare">>, <<"resetting", "ul", "prepare">>}
      BY <1>4, <2>1
    <3>2. why = "fill" => pc[u] = <<"unprepare", c, "fill">>
      BY <1>4, <2>1, Ways
    <3>3. QED BY <3>1, <3>2, Labels
  <2>3. /\ drv_lock = u /\ mutex = u /\ Inside = {u} /\ node = "listed" /\ pc[u] \notin Reading
        /\ pc[u] \in Opening /\ uci_buf = IF why = "prepare" THEN "none" ELSE "there"
    BY <2>1, <2>2, Stands, Labels DEF Opening, Files
  <2>4. \/ OpenLeave(u, Out)
        \/ why = "fill" /\ UNCHANGED <<drv_lock, mutex, uci_buf>> /\ Goto(u, <<"unprepare", "ul", "fill">>)
    BY <1>4, <2>1, Undo DEF locks
  <2>5. CASE OpenLeave(u, Out)
    <3>1. uci_buf' # "none" \/ Inside = {u}
      BY <2>3
    <3>2. QED BY <1>n, <1>o, <1>4, <2>3, <2>5, <3>1, Settles DEF OpenLeave
  <2>6. CASE why = "fill" /\ UNCHANGED <<drv_lock, mutex, uci_buf>> /\ Goto(u, <<"unprepare", "ul", "fill">>)
    <3> DEFINE l == <<"unprepare", "ul", "fill">>
    <3>1. l \in Stocked /\ l \in Opening /\ l \notin Reading /\ l \notin Files /\ l # Out /\ l \notin Bare
      BY Labels DEF Opening, Files, Chans
    <3> HIDE DEF l
    <3>2. Goto(u, l)
      BY <2>6 DEF l
    <3>3. QED BY <1>n, <1>4, <2>3, <2>6, <3>1, <3>2, Settles
  <2>7. QED BY <2>4, <2>5, <2>6
<1>5. ASSUME NEW u \in Users, NEW c \in Chans, NEW why \in Whys,
             Unprepare(u, c, why) \/ ResetEnds(u, c, why) \/ ResetExpires(u, c, why)
      PROVE  LockInv'
  <2>1. CASE Unprepared(u, c, why)
    BY <1>4, <1>5, <2>1 DEF Unprepare, ResetEnds, ResetExpires, ResetOver, files
  <2>2. CASE ~Unprepared(u, c, why)
    <3>1. /\ At(u, <<"unprepare", c, why>>) /\ Goto(u, <<"resetting", c, why>>) /\ pm # "err"
          /\ UNCHANGED <<drv_lock, mutex, uci_buf, r_mutex, node>>
      BY <1>5, <2>2 DEF Unprepare, ResetEnds, ResetExpires, ResetOver, locks, files
    <3>2. c = "ul" /\ why = "prepare"
      BY <3>1, Ways, Labels DEF ErrInv
    <3> DEFINE l == <<"resetting", "ul", "prepare">>
    <3>3. l \in Bare /\ l \in Opening /\ l \notin Reading /\ l \notin Files /\ l # Out /\ l \notin Stocked
      BY Labels DEF Opening, Files
    <3>4. Goto(u, l) /\ pc[u] \in Bare /\ pc[u] \in Opening /\ pc[u] \notin Reading
      BY <3>1, <3>2, Labels DEF Opening, Files
    <3> HIDE DEF l
    <3>5. drv_lock = u /\ mutex = u /\ Inside = {u} /\ node = "listed" /\ uci_buf = "none"
      BY <3>4, Stands
    <3>6. QED BY <1>n, <3>1, <3>3, <3>4, <3>5, Settles
  <2>3. QED BY <2>1, <2>2
<1>6. ASSUME NEW u \in Users, Close(u) PROVE LockInv'
  <2>1. /\ drv_lock = NoOne /\ uci_buf # "none" /\ u \in Inside /\ Goto(u, Out) /\ mutex' = mutex
        /\ uci_buf' \in {uci_buf, "freed", "twice"} /\ UNCHANGED <<drv_lock, r_mutex>> /\ pc[u] = Opened
    BY <1>6, Closes DEF Close, FreeBuffers, files
  <2>2. mutex = drv_lock /\ uci_buf' # "none" /\ Out \notin Reading /\ Opened \notin Reading
    BY <2>1, Labels DEF LockInv, Files
  <2>3. QED BY <1>n, <2>1, <2>2, Labels, Settles DEF Opening
<1>7. ASSUME NEW u \in Users, ReadEnter(u) \/ ReadWake(u) \/ ReadStops(u) \/ ReadEnds(u) PROVE LockInv'
  <2>1. /\ UNCHANGED <<drv_lock, mutex, uci_buf>>
        /\ \/ /\ pc[u] = Opened /\ r_mutex = NoOne /\ r_mutex' = u
              /\ Goto(u, <<"read">>) \/ Goto(u, <<"copy">>)
           \/ /\ pc[u] \in Reading /\ r_mutex' = r_mutex /\ Goto(u, <<"copy">>)
           \/ /\ pc[u] \in Reading /\ r_mutex' = NoOne /\ Goto(u, Opened)
    BY <1>7 DEF ReadEnter, ReadWake, ReadStops, ReadEnds, ReadLeave, locks, device, files, Reading
  <2>2. pc[u] \in Files
    BY <2>1, Labels DEF Files
  <2>3. drv_lock = NoOne /\ mutex = NoOne /\ uci_buf # "none" /\ u \in Inside /\ (pc[u] \in Reading => r_mutex = u)
    BY <2>2, Stands DEF LockInv
  <2>4. \A l \in Files : l \notin Opening /\ l \notin Bare /\ l \notin Stocked /\ l # Out
    BY Labels DEF Opening
  <2>5. Opened \notin Reading /\ <<"read">> \in Reading /\ <<"copy">> \in Reading /\ Reading \subseteq Files /\ Opened \in Files
    BY Labels DEF Files
  <2>6. QED BY <1>n, <2>1, <2>2, <2>3, <2>4, <2>5, Settles
<1>8. ASSUME NEW u \in Users, WriteEnter(u) \/ WriteWake(u) \/ WriteStops(u) \/ WriteQueue(u) PROVE LockInv'
  <2>1. /\ UNCHANGED <<drv_lock, mutex, uci_buf, r_mutex>>
        /\ pc[u] \in {Opened, <<"write">>, <<"queue">>}
        /\ \E l \in {Opened, <<"write">>, <<"queue">>} : Goto(u, l)
    BY <1>8 DEF WriteEnter, WriteWake, WriteStops, WriteQueue, WriteLeave, locks, device, files
  <2>2. pc[u] \in Files /\ pc[u] \notin Reading
    BY <2>1, Labels DEF Files
  <2>3. drv_lock = NoOne /\ mutex = NoOne /\ uci_buf # "none" /\ u \in Inside
    BY <2>2, Stands DEF LockInv
  <2>4. \A l \in Files : l \notin Opening /\ l \notin Bare /\ l \notin Stocked /\ l # Out
    BY Labels DEF Opening
  <2>5. \A l \in {Opened, <<"write">>, <<"queue">>} : l \in Files /\ l \notin Reading
    BY Labels DEF Files
  <2>6. QED BY <1>n, <2>1, <2>2, <2>3, <2>4, <2>5, Settles
<1>9. ASSUME Answer \/ Receive \/ Received \/ Transmit \/ Crash \/ Removal PROVE LockInv'
  <2>1. UNCHANGED <<pc, drv_lock, mutex, r_mutex, uci_buf>> /\ (drv_lock = NoOne \/ node' = node)
    BY <1>9 DEF Answer, Receive, Received, Transmit, Crash, Removal, RemoveWake, RemoveReset, RemoveDevice,
       RemoveDeinit, locks, files, device
  <2>2. QED BY <2>1, LockRests
<1>10. CASE UNCHANGED vars
  BY <1>10, LockRests DEF vars, locks, files, device
<1>11. QED
  BY <1>1, <1>2, <1>3, <1>5, <1>6, <1>7, <1>8, <1>9, <1>10 DEF Next, User, OpenGoesOn, WaitExpires, FileGoesOn

\* How many are inside after a move.
LEMMA Heads ==
  ASSUME TypeOK, NEW u \in Users
  PROVE  /\ Cardinality(Inside) \in Nat /\ (u \in Inside => Cardinality(Inside) # 0)
         /\ \A l : Goto(u, l) => Cardinality(Inside)' =
              Cardinality(Inside) + (IF l = Out THEN 0 ELSE 1) - (IF pc[u] = Out THEN 0 ELSE 1)
<1>1. u \in Inside <=> pc[u] # Out
  BY DEF Inside
<1>2. ASSUME NEW l, Goto(u, l)
      PROVE  Cardinality(Inside)' =
              Cardinality(Inside) + (IF l = Out THEN 0 ELSE 1) - (IF pc[u] = Out THEN 0 ELSE 1)
  <2>1. Inside' = IF l = Out THEN Inside \ {u} ELSE Inside \cup {u}
    BY <1>2, Moves
  <2>2. CASE l = Out
    <3>1. Cardinality(Inside)' = Cardinality(Inside \ {u})
      BY <2>1, <2>2
    <3>2. /\ Cardinality(Inside) \in Nat
          /\ Cardinality(Inside \ {u}) = IF u \in Inside THEN Cardinality(Inside) - 1 ELSE Cardinality(Inside)
      BY Count
    <3>3. QED BY <1>1, <2>2, <3>1, <3>2
  <2>3. CASE l # Out
    <3>1. Cardinality(Inside)' = Cardinality(Inside \cup {u})
      BY <2>1, <2>3
    <3>2. /\ Cardinality(Inside) \in Nat
          /\ Cardinality(Inside \cup {u}) = IF u \in Inside THEN Cardinality(Inside) ELSE Cardinality(Inside) + 1
      BY Count
    <3>3. QED BY <1>1, <2>3, <3>1, <3>2
  <2>4. QED BY <2>2, <2>3
<1>3. QED BY <1>1, <1>2, Count

Extra == IF node = "listed" /\ Kept THEN 1 ELSE 0

\* A thread moves, and the references move with it.
LEMMA RefMoves ==
  ASSUME TypeOK, RefInv, NEW u \in Users, NEW l, Goto(u, l), UNCHANGED <<node, enabled>>, node # "freed",
         ref_count' = ref_count + (IF l = Out THEN 0 ELSE 1) - (IF pc[u] = Out THEN 0 ELSE 1) + Extra' - Extra
  PROVE  RefInv'
<1>1. Cardinality(Inside) \in Nat
  BY Count
<1>2. ref_count = Cardinality(Inside) + Extra /\ Extra \in 0 .. 1 /\ Extra' \in 0 .. 1
  BY DEF RefInv, Extra
<1>3. Cardinality(Inside)' = Cardinality(Inside) + (IF l = Out THEN 0 ELSE 1) - (IF pc[u] = Out THEN 0 ELSE 1)
  BY Heads
<1>4. ref_count' = Cardinality(Inside)' + Extra'
  BY <1>1, <1>2, <1>3
<1>5. QED BY <1>4 DEF RefInv, Extra

\* Every step keeps the count of references.
LEMMA RefStays ==
  ASSUME TypeOK, LockInv, RefInv, ErrInv, [Next]_vars
  PROVE  RefInv'
<1> USE DEF At
<1>n. NoOne \notin Users /\ N \in Nat \ {0}
  BY UciAssumption
<1>o. Out # Opened /\ \A l \in Files \cup Opening : l # Out
  BY Labels DEF Opened, Out
<1>r. ref_count = Cardinality(Inside) + Extra /\ ref_count \in Nat
  BY DEF RefInv, Extra, TypeOK
<1>c. Cardinality(Inside) \in Nat
  BY Heads0
<1>1. ASSUME NEW u \in Users, OpenEnter(u) PROVE RefInv'
  <2>1. /\ drv_lock = NoOne /\ UNCHANGED <<node, enabled, uci_buf>> /\ node = "listed" /\ pc[u] = Out
        /\ ref_count' = ref_count + 1
        /\ \/ ref_count = 0 /\ drv_lock' = u /\ Goto(u, <<"prepare", "ul">>)
           \/ ref_count # 0 /\ Goto(u, Opened) /\ drv_lock' = NoOne
    BY <1>1 DEF OpenEnter, locks
  <2>2. ref_count = 0 => Extra = 0
    BY <1>c, <1>r DEF Extra
  <2>3. ref_count = 0 => Extra' = 0
    BY <1>n, <2>1 DEF Extra, Kept
  <2>4. ref_count # 0 => Extra' = Extra
    BY <2>1 DEF Extra, Kept
  <2>5. \E l : Goto(u, l) /\ l # Out
    BY <1>o, <2>1, Labels DEF Opening, Chans
  <2>6. Extra' = Extra
    BY <2>2, <2>3, <2>4
  <2>7. QED BY <1>r, <2>1, <2>5, <2>6, RefMoves DEF Extra
<1>2. ASSUME NEW u \in Users, NEW c \in Chans, Prepare(u, c) \/ Started(u, c) \/ StartExpires(u, c) PROVE RefInv'
  <2>1. /\ pc[u] \in {<<"prepare", c>>, <<"starting", c>>} /\ UNCHANGED <<node, enabled, uci_buf>>
        /\ \/ OpenLeave(u, Out) /\ ref_count' = ref_count - 1
           \/ /\ UNCHANGED <<drv_lock, ref_count>>
              /\ \/ Goto(u, <<"starting", c>>) \/ Goto(u, <<"unprepare", "ul", "prepare">>)
                 \/ Goto(u, <<"prepare", "dl">>) \/ Goto(u, <<"fill", 0>>)
    BY <1>2 DEF Prepare, Started, StartExpires, PrepareFailed, files, locks
  <2>2. pc[u] \in Opening /\ uci_buf = "none" /\ node = "listed"
    BY <2>1, Stands, Labels DEF Opening
  <2>3. Extra = 0 /\ Extra' = 0 /\ pc[u] # Out
    BY <1>o, <2>1, <2>2 DEF Extra, Kept
  <2>4. CASE OpenLeave(u, Out) /\ ref_count' = ref_count - 1
    BY <1>r, <2>1, <2>2, <2>3, <2>4, RefMoves DEF OpenLeave
  <2>5. CASE ref_count' = ref_count /\ \E l : l # Out /\ Goto(u, l)
    BY <1>r, <2>1, <2>2, <2>3, <2>5, RefMoves
  <2>6. QED BY <1>o, <2>1, <2>4, <2>5, Labels DEF Opening, Chans
<1>3. ASSUME NEW u \in Users, Fill(u) PROVE RefInv'
  <2>1. PICK i \in 0 .. N - 1 :
             /\ pc[u] = <<"fill", i>> /\ UNCHANGED <<node, enabled>>
             /\ uci_buf' = IF uci_buf = "none" THEN "there" ELSE uci_buf
             /\ \/ OpenLeave(u, Opened) /\ ref_count' = ref_count + 1
                \/ /\ UNCHANGED <<drv_lock, ref_count>>
                   /\ \/ Goto(u, <<"unprepare", "dl", "fill">>)
                      \/ i # N - 1 /\ Goto(u, <<"fill", i + 1>>)
    BY <1>3 DEF Fill, Filled, files, locks
  <2>2. pc[u] \in Opening
    <3>1. i = 0 \/ i \in 1 .. N - 1
      BY <1>n
    <3>2. QED BY <2>1, <3>1, Labels DEF Opening
  <2>3. drv_lock = u /\ node = "listed" /\ uci_buf' = "there" /\ pc[u] # Out
    BY <1>o, <2>1, <2>2, Stands DEF Opening
  <2>4. Extra = 0 /\ Extra' = IF drv_lock' = NoOne THEN 1 ELSE 0
    BY <1>n, <2>1, <2>3 DEF Extra, Kept
  <2>5. CASE OpenLeave(u, Opened) /\ ref_count' = ref_count + 1
    <3>1. Extra' = 1 /\ Goto(u, Opened)
      BY <2>4, <2>5 DEF OpenLeave
    <3>2. /\ ref_count' = ref_count + 1 - 1 + Extra' - Extra
          /\ UNCHANGED <<node, enabled>> /\ node # "freed"
      BY <1>r, <2>1, <2>3, <2>4, <2>5, <3>1
    <3>3. QED BY <1>o, <2>3, <3>1, <3>2, RefMoves
  <2>6. CASE drv_lock' = u /\ ref_count' = ref_count /\ \E l : l # Out /\ Goto(u, l)
    BY <1>n, <1>r, <2>1, <2>3, <2>4, <2>6, RefMoves
  <2>7. i # N - 1 => i + 1 \in 1 .. N - 1
    BY <1>n
  <2>8. QED BY <1>o, <2>1, <2>3, <2>5, <2>6, <2>7, Labels DEF Opening, Chans
<1>4. ASSUME NEW u \in Users, NEW c \in Chans, NEW why \in Whys,
             At(u, <<"unprepare", c, why>>) \/ At(u, <<"resetting", c, why>>), Unprepared(u, c, why),
             UNCHANGED <<enabled, node>>
      PROVE  RefInv'
  <2>1. (c = "ul" /\ why = "prepare") \/ why = "fill"
    BY <1>4, Ways
  <2>2. (why = "prepare" => pc[u] \in Bare) /\ (why = "fill" => pc[u] \in Stocked)
    <3>1. why = "prepare" => pc[u] \in {<<"unprepare", "ul", "prepare">>, <<"resetting", "ul", "prepare">>}
      BY <1>4, <2>1
    <3>2. why = "fill" => pc[u] = <<"unprepare", c, "fill">>
      BY <1>4, <2>1, Ways
    <3>3. QED BY <3>1, <3>2, Labels
  <2>3. /\ drv_lock = u /\ node = "listed" /\ pc[u] # Out
        /\ uci_buf = IF why = "prepare" THEN "none" ELSE "there"
    BY <1>o, <2>1, <2>2, Stands DEF Opening
  <2>4. Extra = 0
    BY <1>n, <2>3 DEF Extra, Kept
  <2>5. CASE why = "prepare"
    <3>1. OpenLeave(u, Out) /\ ref_count' = ref_count - 1 /\ uci_buf' = uci_buf
      BY <1>4, <2>1, <2>5, Undo
    <3>2. Extra' = 0
      BY <2>3, <2>5, <3>1 DEF Extra, Kept
    <3>3. QED BY <1>4, <1>r, <2>3, <2>4, <3>1, <3>2, RefMoves DEF OpenLeave
  <2>6. CASE why = "fill" /\ c = "dl"
    <3>1. Goto(u, <<"unprepare", "ul", "fill">>) /\ drv_lock' = drv_lock /\ ref_count' = ref_count
      BY <1>4, <2>6, Undo DEF locks
    <3>2. Extra' = 0 /\ <<"unprepare", "ul", "fill">> # Out
      BY <1>n, <1>o, <2>3, <3>1, Labels DEF Extra, Kept, Opening, Chans
    <3>3. QED BY <1>4, <1>r, <2>3, <2>4, <3>1, <3>2, RefMoves
  <2>7. CASE why = "fill" /\ c = "ul"
    <3>1. OpenLeave(u, Out) /\ FreeBuffers /\ ref_count' = ref_count
      BY <1>4, <2>7, Undo
    <3>2. uci_buf' = "freed" /\ drv_lock' = NoOne /\ node' = "listed"
      BY <1>4, <2>3, <2>7, <3>1 DEF OpenLeave, FreeBuffers
    <3>3. Extra' = 1
      BY <3>2 DEF Extra, Kept
    <3>4. QED BY <1>4, <1>r, <2>3, <2>4, <3>1, <3>3, RefMoves DEF OpenLeave
  <2>8. QED BY <2>1, <2>5, <2>6, <2>7 DEF Chans
<1>5. ASSUME NEW u \in Users, NEW c \in Chans, NEW why \in Whys,
             Unprepare(u, c, why) \/ ResetEnds(u, c, why) \/ ResetExpires(u, c, why)
      PROVE  RefInv'
  <2>1. CASE Unprepared(u, c, why)
    BY <1>4, <1>5, <2>1 DEF Unprepare, ResetEnds, ResetExpires, ResetOver
  <2>2. CASE ~Unprepared(u, c, why)
    <3>1. /\ At(u, <<"unprepare", c, why>>) /\ Goto(u, <<"resetting", c, why>>) /\ pm # "err"
          /\ UNCHANGED <<drv_lock, uci_buf, enabled, ref_count, node>>
      BY <1>5, <2>2 DEF Unprepare, ResetEnds, ResetExpires, ResetOver, locks
    <3>2. c = "ul" /\ why = "prepare"
      BY <3>1, Ways, Labels DEF ErrInv
    <3>3. pc[u] \in Opening /\ <<"resetting", "ul", "prepare">> \in Opening
      BY <3>1, <3>2, Labels DEF Opening
    <3>4. node = "listed" /\ Extra' = Extra /\ Extra \in Nat
      BY <3>1, <3>3, Stands DEF Extra, Kept
    <3>5. QED BY <1>o, <1>r, <3>1, <3>2, <3>3, <3>4, RefMoves
  <2>3. QED BY <2>1, <2>2
<1>6. ASSUME NEW u \in Users, Close(u) PROVE RefInv'
  <2>1. /\ drv_lock = NoOne /\ uci_buf # "none" /\ u \in Inside /\ Goto(u, Out) /\ pc[u] # Out
        /\ ref_count' = ref_count - 1 /\ UNCHANGED <<drv_lock, enabled>> /\ uci_buf' # "none"
        /\ \/ node' = node /\ ref_count # 1
           \/ node' = "freed" /\ ref_count = 1 /\ ~enabled
    BY <1>6, Closes DEF Close, FreeBuffers, Inside
  <2>2. ref_count # 0
    BY <1>r, <2>1, Heads DEF Extra
  <2>3. node # "freed"
    BY <2>2 DEF RefInv
  <2>4. CASE node' = node
    BY <1>r, <2>1, <2>3, <2>4, RefMoves DEF Extra, Kept
  <2>5. CASE node' = "freed"
    <3>1. node # "listed" /\ Extra = 0 /\ Extra' = 0 /\ ref_count' = 0
      BY <2>1, <2>3, <2>5 DEF RefInv, Extra
    <3>2. Cardinality(Inside)' = Cardinality(Inside) - 1
      BY <2>1, Heads
    <3>3. ref_count' = Cardinality(Inside)'
      BY <1>c, <1>r, <2>1, <3>1, <3>2
    <3>4. QED BY <2>1, <2>5, <3>1, <3>3 DEF RefInv
  <2>6. QED BY <2>1, <2>4, <2>5
<1>7. ASSUME NEW u \in Users,
             \/ ReadEnter(u) \/ ReadWake(u) \/ ReadStops(u) \/ ReadEnds(u)
             \/ WriteEnter(u) \/ WriteWake(u) \/ WriteStops(u) \/ WriteQueue(u)
      PROVE  RefInv'
  <2>1. UNCHANGED <<drv_lock, node, enabled, ref_count, uci_buf>> /\ pc[u] \in Files /\ \E l \in Files : Goto(u, l)
    BY <1>7 DEF ReadEnter, ReadWake, ReadStops, ReadEnds, ReadLeave, WriteEnter, WriteWake, WriteStops, WriteQueue,
       WriteLeave, locks, device, Files, Reading
  <2>2. Extra' = Extra /\ Extra \in Nat
    BY <2>1 DEF Extra, Kept
  <2>3. node # "freed"
    <3>1. u \in Inside
      BY <2>1, Stands
    <3>2. ref_count # 0
      BY <1>r, <2>2, <3>1, Heads
    <3>3. QED BY <3>2 DEF RefInv
  <2>4. QED BY <1>o, <1>r, <2>1, <2>2, <2>3, RefMoves
<1>8. CASE RemoveDevice
  <2>1. /\ drv_lock = NoOne /\ ~enabled' /\ Released /\ node' = IF ref_count' = 0 THEN "freed" ELSE "unlisted"
        /\ Inside' = Inside /\ node = "listed"
    BY <1>8 DEF RemoveDevice, Inside, ErrInv, Removing
  <2>2. CASE Kept
    <3>1. ref_count' = Cardinality(Inside)
      BY <1>c, <1>r, <2>1, <2>2 DEF Extra, Released
    <3>2. Cardinality(Inside)' = Cardinality(Inside) /\ node' # "listed" /\ (node' = "freed" => ref_count' = 0)
      BY <2>1
    <3>3. ref_count' = Cardinality(Inside)' + (IF (node = "listed")' /\ Kept' THEN 1 ELSE 0)
      BY <1>c, <3>1, <3>2
    <3>4. (enabled <=> node = "listed")' /\ (node = "freed" => ref_count = 0)'
      BY <2>1, <3>2
    <3>5. QED BY <3>3, <3>4 DEF RefInv
  <2>3. CASE ~Kept
    <3>1. Inside = {} /\ Extra = 0
      BY <2>1, <2>3 DEF Kept, LockInv, Extra
    <3>2. Cardinality(Inside) = 0
      BY <3>1, FS_EmptySet
    <3>3. QED BY <1>r, <2>1, <3>1, <3>2 DEF RefInv, Released
  <2>4. QED BY <2>2, <2>3
<1>9. ASSUME UNCHANGED <<pc, drv_lock, device>> PROVE RefInv'
  BY <1>9 DEF RefInv, device, Inside, Kept
<1>10. ASSUME Answer \/ Receive \/ Received \/ Transmit \/ Crash \/ (Removal /\ ~RemoveDevice) PROVE RefInv'
  <2>1. UNCHANGED <<pc, drv_lock, device>>
    BY <1>10 DEF Answer, Receive, Received, Transmit, Crash, Removal, RemoveWake, RemoveReset, RemoveDeinit, locks
  <2>2. QED BY <1>9, <2>1
<1>11. CASE UNCHANGED vars
  BY <1>9, <1>11 DEF vars, locks
<1>12. QED
  BY <1>1, <1>2, <1>3, <1>5, <1>6, <1>7, <1>8, <1>10, <1>11 DEF Next, User, OpenGoesOn, WaitExpires, FileGoesOn

Slots == [buf : Buffers, pkt : 0 .. Packets]

\* What a step does to the receive ring.
LEMMA RingStep ==
  ASSUME TypeOK, [Next]_vars
  PROVE  /\ dl' \in Seq(Slots)
         /\ \/ Len(dl') <= Len(dl)
            \/ \E u \in Users : (Fill(u) \/ ReadEnds(u)) /\ Queued(dl) /\ Len(dl') = Len(dl) + 1
<1>t. dl \in Seq(Slots) /\ Len(dl) \in Nat /\ N \in Nat \ {0} /\ 0 \in 0 .. Packets /\ cur_buf \in Items
  BY UciAssumption DEF TypeOK, Slots
<1>b. \A b \in Buffers : Before(b) \in Buffers
  BY <1>t DEF Before, Buffers
<1>1. ASSUME NEW u \in Users, Fill(u)
      PROVE  dl' \in Seq(Slots) /\ (Len(dl') <= Len(dl) \/ (Queued(dl) /\ Len(dl') = Len(dl) + 1))
  <2>1. PICK i \in 0 .. N - 1 : dl' = dl \/ (Queued(dl) /\ dl' = Append(dl, [buf |-> i, pkt |-> 0]))
    BY <1>1 DEF Fill
  <2>2. [buf |-> i, pkt |-> 0] \in Slots
    BY <1>t DEF Slots, Buffers
  <2>3. QED BY <1>t, <2>1, <2>2
<1>2. ASSUME NEW u \in Users, ReadEnds(u)
      PROVE  dl' \in Seq(Slots) /\ (Len(dl') <= Len(dl) \/ (Queued(dl) /\ Len(dl') = Len(dl) + 1))
  <2>1. \/ dl' = dl
        \/ cur_buf.buf # NoBuf /\ Queued(dl) /\ dl' = Append(dl, [buf |-> Before(cur_buf.buf), pkt |-> 0])
    BY <1>2 DEF ReadEnds
  <2>2. cur_buf.buf # NoBuf => [buf |-> Before(cur_buf.buf), pkt |-> 0] \in Slots
    BY <1>t, <1>b DEF Slots, Items
  <2>3. QED BY <1>t, <2>1, <2>2
<1>3. ASSUME Receive PROVE dl' \in Seq(Slots) /\ Len(dl') = Len(dl)
  <2>1. PICK k \in DOMAIN dl : dl' = [dl EXCEPT ![k].pkt = sent + 1]
    BY <1>3 DEF Receive
  <2>2. sent + 1 \in 0 .. Packets
    <3>1. sent \in 0 .. Packets /\ Packets \in Nat
      BY UciAssumption DEF TypeOK
    <3>2. sent < Packets
      BY <1>3 DEF Receive
    <3>3. QED BY <3>1, <3>2
  <2>3. dl[k] \in Slots /\ k \in 1 .. Len(dl)
    BY <1>t, <2>1
  <2>4. [dl[k] EXCEPT !.pkt = sent + 1] \in Slots
    BY <2>2, <2>3 DEF Slots
  <2>5. QED BY <1>t, <2>1, <2>3, <2>4
<1>4. ASSUME Received PROVE dl' \in Seq(Slots) /\ Len(dl') <= Len(dl)
  <2>1. dl # <<>> /\ Len(dl) > 0 /\ Head(dl) \in Slots /\ Tail(dl) \in Seq(Slots) /\ Len(Tail(dl)) = Len(dl) - 1
    BY <1>4, <1>t DEF Received
  <2>2. dl' = Tail(dl) \/ dl' = Append(Tail(dl), [buf |-> Before(Head(dl).buf), pkt |-> 0])
    BY <1>4 DEF Received
  <2>3. [buf |-> Before(Head(dl).buf), pkt |-> 0] \in Slots
    BY <1>t, <1>b, <2>1 DEF Slots
  <2>4. QED BY <1>t, <2>1, <2>2, <2>3
<1>5. ASSUME dl' = dl \/ \E c \in Chans : ResetChan(c) PROVE dl' \in Seq(Slots) /\ Len(dl') <= Len(dl)
  <2>1. dl' = dl \/ dl' = <<>>
    BY <1>5 DEF ResetChan
  <2>2. <<>> \in Seq(Slots) /\ Len(<<>>) = 0
    BY EmptySeq
  <2>3. CASE dl' = <<>>
    <3>1. dl' \in Seq(Slots) /\ Len(dl') = 0
      BY <2>2, <2>3
    <3>2. QED BY <1>t, <3>1
  <2>4. CASE dl' = dl
    BY <1>t, <2>4
  <2>5. QED BY <2>1, <2>3, <2>4
<1>6. CASE \E u \in Users, c \in Chans : Prepare(u, c) \/ Started(u, c) \/ StartExpires(u, c)
  BY <1>5, <1>6 DEF Prepare, Started, StartExpires
<1>7. CASE \E u \in Users, c \in Chans, why \in Whys :
             Unprepare(u, c, why) \/ ResetEnds(u, c, why) \/ ResetExpires(u, c, why)
  BY <1>5, <1>7 DEF Unprepare, ResetEnds, ResetExpires, ResetOver
<1>8. CASE \E u \in Users : OpenEnter(u) \/ Close(u) \/ ReadEnter(u) \/ WriteEnter(u) \/ ReadStops(u) \/ WriteStops(u)
                            \/ ReadWake(u) \/ WriteWake(u) \/ WriteQueue(u)
  BY <1>5, <1>8 DEF OpenEnter, Close, ReadEnter, WriteEnter, ReadStops, WriteStops, ReadWake, WriteWake, WriteQueue
<1>9. CASE Answer \/ Transmit \/ Crash \/ Removal \/ UNCHANGED vars
  BY <1>5, <1>9 DEF Answer, Transmit, Crash, Removal, RemoveWake, RemoveReset, RemoveDevice, RemoveDeinit, vars
<1>10. QED
  BY <1>1, <1>2, <1>3, <1>4, <1>6, <1>7, <1>8, <1>9 DEF Next, User, OpenGoesOn, WaitExpires, FileGoesOn

\* The parts of the types that hold of a field alone.
SmallOK ==
  /\ {drv_lock, mutex, r_mutex, w_mutex} \subseteq Users \cup {NoOne}
  /\ node \in {"listed", "unlisted", "freed"}
  /\ {copying, enabled} \subseteq BOOLEAN
  /\ uci_buf \in {"none", "there", "freed", "twice"}
  /\ ul \in 0 .. N
  /\ pm \in {"ok", "err"}
  /\ life \in {"bound", "wake_dl", "reset_dl", "wake_ul", "reset_ul", "remove", "deinit", "gone"}
StateOK == ch_state \in [Chans -> {"DISABLED", "ENABLED", "SUSPENDED"}]
BaseOK == base \in [Chans -> BOOLEAN]
DoneOK == done \in [Chans -> BOOLEAN]
HoldOK == ch_mutex \in [Chans -> Users \cup {NoOne}]
CodeOK == ccs \in [Chans -> {"ok", "invalid"}]
ModemOK == started \in [Chans -> {"never", "yes", "reset"}]
ChanOK == StateOK /\ BaseOK /\ DoneOK /\ HoldOK /\ CodeOK /\ ModemOK

\* They are kept by the start of a channel,
LEMMA PrepareTyped ==
  ASSUME TypeOK, SmallOK, ChanOK, NEW u \in Users, NEW c \in Chans, Prepare(u, c) \/ Started(u, c) \/ StartExpires(u, c)
  PROVE  SmallOK' /\ ChanOK'
<1> USE DEF files, locks, device, inbox, order, channels, modem
<1>1. SmallOK'
  BY DEF Prepare, Started, StartExpires, PrepareFailed, OpenLeave, SmallOK
<1>2. StateOK'
  BY DEF Prepare, Started, StartExpires, StateOK, ChanOK
<1>3. BaseOK'
  BY DEF Prepare, Started, StartExpires, BaseOK, ChanOK
<1>4. DoneOK'
  BY DEF Prepare, Started, StartExpires, Reinit, DoneOK, ChanOK
<1>5. HoldOK'
  BY DEF Prepare, Started, StartExpires, HoldOK, ChanOK
<1>6. CodeOK' /\ ModemOK'
  BY DEF Prepare, Started, StartExpires, CodeOK, ModemOK, ChanOK
<1>7. QED BY <1>1, <1>2, <1>3, <1>4, <1>5, <1>6 DEF ChanOK

\* by a reset,
LEMMA UnprepareTyped ==
  ASSUME TypeOK, SmallOK, ChanOK, NEW u \in Users, NEW c \in Chans, NEW why \in Whys,
         Unprepare(u, c, why) \/ ResetEnds(u, c, why) \/ ResetExpires(u, c, why)
  PROVE  SmallOK' /\ ChanOK'
<1> USE DEF files, locks, device, inbox, order, channels, modem
<1>n. N \in Nat \ {0}
  BY UciAssumption
<1>u. ASSUME Unprepared(u, c, why)
      PROVE  drv_lock' \in {drv_lock, NoOne} /\ mutex' \in {mutex, NoOne} /\ uci_buf' \in {uci_buf, "freed", "twice"}
  BY <1>u DEF Unprepared, OpenLeave, FreeBuffers, Whys, Chans
<1>v. drv_lock' \in {drv_lock, NoOne} /\ mutex' \in {mutex, NoOne} /\ uci_buf' \in {uci_buf, "freed", "twice"}
  BY <1>u DEF Unprepare, ResetEnds, ResetExpires, ResetOver
<1>w. UNCHANGED <<r_mutex, w_mutex, node, copying, enabled, pm, life>> /\ ul' \in {ul, 0}
  BY DEF Unprepare, ResetEnds, ResetExpires, ResetOver, ResetChan
<1>1. SmallOK'
  BY <1>n, <1>v, <1>w DEF SmallOK
<1>2. StateOK'
  BY DEF Unprepare, ResetEnds, ResetExpires, ResetOver, StateOK, ChanOK
<1>3. BaseOK'
  BY DEF Unprepare, ResetEnds, ResetExpires, ResetOver, BaseOK, ChanOK
<1>4. DoneOK'
  BY DEF Unprepare, ResetEnds, ResetExpires, ResetOver, Reinit, DoneOK, ChanOK
<1>5. HoldOK'
  BY DEF Unprepare, ResetEnds, ResetExpires, ResetOver, HoldOK, ChanOK
<1>6. CodeOK' /\ ModemOK'
  BY DEF Unprepare, ResetEnds, ResetExpires, ResetOver, CodeOK, ModemOK, ChanOK
<1>7. QED BY <1>1, <1>2, <1>3, <1>4, <1>5, <1>6 DEF ChanOK

\* by the calls on a file,
LEMMA FileTyped ==
  ASSUME TypeOK, SmallOK, ChanOK, NEW u \in Users,
         \/ OpenEnter(u) \/ Fill(u) \/ Close(u) \/ ReadEnter(u) \/ WriteEnter(u) \/ FileGoesOn(u)
         \/ ReadStops(u) \/ WriteStops(u)
  PROVE  SmallOK' /\ ChanOK'
<1> USE DEF files, locks, device, inbox, order, channels, modem
<1>n. N \in Nat \ {0}
  BY UciAssumption
<1>1. CASE OpenEnter(u)
  BY <1>1 DEF OpenEnter, SmallOK, ChanOK, StateOK, BaseOK, DoneOK, HoldOK, CodeOK, ModemOK
<1>2. CASE Fill(u)
  BY <1>2 DEF Fill, Filled, OpenLeave, SmallOK, ChanOK, StateOK, BaseOK, DoneOK, HoldOK, CodeOK, ModemOK
<1>3. CASE Close(u)
  BY <1>3 DEF Close, FreeBuffers, SmallOK, ChanOK, StateOK, BaseOK, DoneOK, HoldOK, CodeOK, ModemOK
<1>4. CASE ReadEnter(u) \/ ReadWake(u) \/ ReadStops(u) \/ ReadEnds(u)
  BY <1>4 DEF ReadEnter, ReadWake, ReadStops, ReadEnds, ReadLeave, SmallOK, ChanOK, StateOK, BaseOK, DoneOK, HoldOK, CodeOK, ModemOK
<1>5. CASE WriteEnter(u) \/ WriteWake(u) \/ WriteStops(u)
  BY <1>5 DEF WriteEnter, WriteWake, WriteStops, WriteLeave, SmallOK, ChanOK, StateOK, BaseOK, DoneOK, HoldOK, CodeOK, ModemOK
<1>6. CASE WriteQueue(u)
  BY <1>6, <1>n DEF WriteQueue, WriteLeave, SmallOK, ChanOK, StateOK, BaseOK, DoneOK, HoldOK, CodeOK, ModemOK
<1>7. QED BY <1>1, <1>2, <1>3, <1>4, <1>5, <1>6 DEF FileGoesOn

\* and by the modem, the event task and the removal.
LEMMA ModemTyped ==
  ASSUME TypeOK, SmallOK, ChanOK, Answer \/ Receive \/ Received \/ Transmit \/ Crash \/ Removal
  PROVE  SmallOK' /\ ChanOK'
<1> USE DEF files, locks, device, inbox, order, channels, modem
<1>n. N \in Nat \ {0}
  BY UciAssumption
<1>1. CASE Answer
  BY <1>1 DEF Answer, SmallOK, ChanOK, StateOK, BaseOK, DoneOK, HoldOK, CodeOK, ModemOK
<1>2. CASE Receive \/ Received
  BY <1>2 DEF Receive, Received, SmallOK, ChanOK, StateOK, BaseOK, DoneOK, HoldOK, CodeOK, ModemOK
<1>3. CASE Transmit
  BY <1>3, <1>n DEF Transmit, SmallOK, ChanOK, StateOK, BaseOK, DoneOK, HoldOK, CodeOK, ModemOK
<1>4. CASE Crash
  BY <1>4 DEF Crash, SmallOK, ChanOK, StateOK, BaseOK, DoneOK, HoldOK, CodeOK, ModemOK
<1>5. ASSUME NEW c \in Chans, RemoveWake(c) PROVE SmallOK' /\ ChanOK'
  BY <1>5 DEF RemoveWake, Removing, Wake, SmallOK, ChanOK, StateOK, BaseOK, DoneOK, HoldOK, CodeOK, ModemOK
<1>6. ASSUME NEW c \in Chans, RemoveReset(c) PROVE SmallOK' /\ ChanOK'
  BY <1>6, <1>n DEF RemoveReset, Removing, ResetChan, SmallOK, ChanOK, StateOK, BaseOK, DoneOK, HoldOK, CodeOK, ModemOK
<1>7. CASE RemoveDevice \/ RemoveDeinit
  BY <1>7 DEF RemoveDevice, RemoveDeinit, Removing, SmallOK, ChanOK, StateOK, BaseOK, DoneOK, HoldOK, CodeOK, ModemOK
<1>8. QED BY <1>1, <1>2, <1>3, <1>4, <1>5, <1>6, <1>7 DEF Removal

\* One thread moves, or none.
LEMMA PcMoves ==
  ASSUME Next
  PROVE  pc' = pc \/ \E u \in Users : \E l : Goto(u, l)
<1>1. ASSUME NEW u \in Users, NEW c \in Chans, Prepare(u, c) \/ Started(u, c) \/ StartExpires(u, c) PROVE \E l : Goto(u, l)
  BY <1>1 DEF Prepare, Started, StartExpires, PrepareFailed, OpenLeave
<1>2. ASSUME NEW u \in Users, NEW c \in Chans, NEW why \in Whys,
             Unprepare(u, c, why) \/ ResetEnds(u, c, why) \/ ResetExpires(u, c, why) PROVE \E l : Goto(u, l)
  BY <1>2 DEF Unprepare, ResetEnds, ResetExpires, ResetOver, Unprepared, OpenLeave, Whys, Chans
<1>3. ASSUME NEW u \in Users,
         \/ OpenEnter(u) \/ Fill(u) \/ Close(u) \/ ReadEnter(u) \/ WriteEnter(u) \/ FileGoesOn(u)
         \/ ReadStops(u) \/ WriteStops(u)
      PROVE  \E l : Goto(u, l)
  BY <1>3 DEF OpenEnter, Fill, Filled, OpenLeave, Close, ReadEnter, WriteEnter, FileGoesOn, ReadWake, ReadEnds, WriteWake,
     WriteQueue, ReadStops, WriteStops, ReadLeave, WriteLeave
<1>4. CASE Answer \/ Receive \/ Received \/ Transmit \/ Crash \/ Removal
  BY <1>4 DEF Answer, Receive, Received, Transmit, Crash, Removal, RemoveWake, RemoveReset, RemoveDevice, RemoveDeinit
<1>5. QED BY <1>1, <1>2, <1>3, <1>4 DEF Next, User, OpenGoesOn, WaitExpires

\* What a step does to the order of the buffers.
LEMMA OrderTyped ==
  ASSUME TypeOK, [Next]_vars
  PROVE  nr_trb' \in Buffers /\ rx_error' \in BOOLEAN
<1>t. dl \in Seq(Slots) /\ Len(dl) \in Nat /\ Len(dl) <= N /\ N \in Nat \ {0} /\ nr_trb \in 0 .. N /\ rx_error \in BOOLEAN
  BY UciAssumption DEF TypeOK, Slots, Buffers
<1>a. \A k \in 0 .. N : After(nr_trb, k) \in 0 .. N
  BY <1>t DEF After
<1>1. ASSUME NEW r \in Seq(Slots), Len(r) <= N, Counted(r) PROVE nr_trb' \in 0 .. N /\ rx_error' \in BOOLEAN
  <2>1. Len(r) \in 0 .. N
    BY <1>1, <1>t
  <2>2. CASE InTurn(r)
    BY <1>1, <1>a, <1>t, <2>1, <2>2 DEF Counted
  <2>3. CASE ~InTurn(r)
    <3>1. rx_error' = TRUE
      BY <1>1, <2>3 DEF Counted
    <3>2. PICK k \in 0 .. Len(r) - 1 : nr_trb' = After(nr_trb, k)
      BY <1>1, <2>3 DEF Counted
    <3>3. k \in 0 .. N
      BY <2>1, <1>t
    <3>4. QED BY <1>a, <3>1, <3>2, <3>3
  <2>4. QED BY <2>2, <2>3
<1>2. ASSUME UNCHANGED order PROVE nr_trb' \in 0 .. N /\ rx_error' \in BOOLEAN
  BY <1>2, <1>t DEF order
<1>3. ASSUME NEW c \in Chans, ResetChan(c) PROVE nr_trb' \in 0 .. N /\ rx_error' \in BOOLEAN
  BY <1>1, <1>2, <1>3, <1>t DEF ResetChan
<1>4. CASE Received
  <2>1. Counted(<<Head(dl)>>) /\ dl # <<>>
    BY <1>4 DEF Received
  <2>2. Head(dl) \in Slots
    BY <1>t, <2>1
  <2>3. <<Head(dl)>> \in Seq(Slots) /\ Len(<<Head(dl)>>) = 1
    BY <2>2
  <2> DEFINE r == <<Head(dl)>>
  <2>4. r \in Seq(Slots) /\ Len(r) <= N /\ Counted(r)
    BY <1>t, <2>1, <2>3
  <2> HIDE DEF r
  <2>5. nr_trb' \in 0 .. N /\ rx_error' \in BOOLEAN
    BY <1>1, <2>4
  <2>6. QED BY <2>5 DEF Buffers
<1>5. CASE \E u \in Users : Fill(u)
  <2>1. rx_error' = rx_error /\ (nr_trb' = 0 \/ nr_trb' = nr_trb)
    BY <1>5 DEF Fill
  <2>2. QED BY <1>t, <2>1 DEF Buffers
<1>6. CASE \E u \in Users, c \in Chans, why \in Whys :
             Unprepare(u, c, why) \/ ResetEnds(u, c, why) \/ ResetExpires(u, c, why)
  <2>1. UNCHANGED order \/ \E c \in Chans : ResetChan(c)
    BY <1>6 DEF Unprepare, ResetEnds, ResetExpires, ResetOver
  <2>2. QED BY <1>2, <1>3, <2>1 DEF Buffers
<1>7. CASE Removal
  <2>1. UNCHANGED order \/ \E c \in Chans : ResetChan(c)
    BY <1>7 DEF Removal, RemoveWake, RemoveReset, RemoveDevice, RemoveDeinit
  <2>2. QED BY <1>2, <1>3, <2>1 DEF Buffers
<1>8. CASE \E u \in Users : \/ \E c \in Chans : Prepare(u, c) \/ Started(u, c) \/ StartExpires(u, c)
                            \/ OpenEnter(u) \/ Close(u) \/ ReadEnter(u) \/ WriteEnter(u) \/ FileGoesOn(u)
                            \/ ReadStops(u) \/ WriteStops(u)
  <2>1. UNCHANGED order
    BY <1>8 DEF Prepare, Started, StartExpires, OpenEnter, Close, ReadEnter, WriteEnter, FileGoesOn, ReadWake, ReadEnds,
       WriteWake, WriteQueue, ReadStops, WriteStops
  <2>2. QED BY <1>2, <2>1 DEF Buffers
<1>9. CASE Answer \/ Receive \/ Transmit \/ Crash \/ UNCHANGED vars
  <2>1. UNCHANGED order
    BY <1>9 DEF Answer, Receive, Transmit, Crash, vars
  <2>2. QED BY <1>2, <2>1 DEF Buffers
<1>10. QED
  BY <1>4, <1>5, <1>6, <1>7, <1>8, <1>9 DEF Next, User, OpenGoesOn, WaitExpires

\* What a step does to the packets that wait.
LEMMA InboxTyped ==
  ASSUME TypeOK, [Next]_vars
  PROVE  pending' \in Seq(Items) /\ cur_buf' \in Items /\ {sent, arrived, taken}' \subseteq 0 .. Packets
<1>t. /\ dl \in Seq(Slots) /\ pending \in Seq(Items) /\ cur_buf \in Items /\ Packets \in Nat /\ N \in Nat
      /\ sent \in 0 .. Packets /\ arrived \in 0 .. Packets /\ taken \in 0 .. Packets
  BY UciAssumption DEF TypeOK, Slots
<1>o. Nothing \in Items
  BY <1>t DEF Nothing, Items, NoBuf
<1>i. ASSUME UNCHANGED inbox \/ TakePacket, cur_buf # Nothing \/ pending # <<>>
      PROVE  pending' \in Seq(Items) /\ cur_buf' \in Items
  <2>1. UNCHANGED inbox \/ (pending # <<>> /\ cur_buf' = Head(pending) /\ pending' = Tail(pending))
    BY <1>i DEF TakePacket
  <2>2. CASE UNCHANGED inbox
    BY <1>t, <2>2 DEF inbox
  <2>3. CASE pending # <<>> /\ cur_buf' = Head(pending) /\ pending' = Tail(pending)
    BY <1>t, <2>3
  <2>4. QED BY <2>1, <2>2, <2>3
<1>1. CASE \E u \in Users : ReadEnter(u) \/ ReadWake(u)
  <2>1. UNCHANGED modem /\ UNCHANGED <<arrived, taken>>
    BY <1>1 DEF ReadEnter, ReadWake
  <2>2. UNCHANGED inbox \/ (TakePacket /\ (cur_buf # Nothing \/ pending # <<>>))
    BY <1>1 DEF ReadEnter, ReadWake
  <2>3. CASE UNCHANGED inbox
    BY <1>t, <2>1, <2>3 DEF inbox, modem
  <2>4. QED BY <1>t, <1>i, <2>1, <2>2, <2>3 DEF modem
<1>2. CASE \E u \in Users : ReadEnds(u)
  <2>1. UNCHANGED modem /\ UNCHANGED <<arrived, pending>> /\ cur_buf' = Nothing /\ taken' \in {taken, cur_buf.pkt}
    BY <1>2 DEF ReadEnds
  <2>2. cur_buf.pkt \in 0 .. Packets
    BY <1>t DEF Items
  <2>3. QED BY <1>t, <1>o, <2>1, <2>2 DEF modem
<1>3. CASE Receive
  <2>1. UNCHANGED <<inbox, arrived, taken>> /\ sent < Packets /\ sent' = sent + 1
    BY <1>3 DEF Receive
  <2>2. QED BY <1>t, <2>1 DEF inbox
<1>4. CASE Received
  <2>1. /\ UNCHANGED <<cur_buf, modem, taken>> /\ dl # <<>> /\ arrived' = Head(dl).pkt
        /\ \/ pending' = pending
           \/ \E b \in {NoBuf, Head(dl).buf} : pending' = Append(pending, [buf |-> b, pkt |-> Head(dl).pkt])
    BY <1>4 DEF Received
  <2>2. Head(dl) \in Slots
    BY <1>t, <2>1
  <2>3. \A b \in {NoBuf, Head(dl).buf} : [buf |-> b, pkt |-> Head(dl).pkt] \in Items
    BY <2>2 DEF Slots, Items
  <2>4. pending' \in Seq(Items)
    <3>1. CASE pending' = pending
      BY <1>t, <3>1
    <3>2. CASE \E i \in Items : pending' = Append(pending, i)
      BY <1>t, <3>2
    <3>3. QED BY <2>1, <2>3, <3>1, <3>2
  <2>5. arrived' \in 0 .. Packets
    BY <2>1, <2>2 DEF Slots
  <2>6. QED BY <1>t, <2>1, <2>4, <2>5 DEF modem
<1>5. ASSUME pending' = pending, cur_buf' \in {cur_buf, Nothing}, UNCHANGED <<sent, arrived, taken>>
      PROVE  pending' \in Seq(Items) /\ cur_buf' \in Items /\ {sent, arrived, taken}' \subseteq 0 .. Packets
  BY <1>5, <1>t, <1>o
<1>6. ASSUME NEW u \in Users, NEW c \in Chans, NEW why \in Whys, Unprepared(u, c, why) PROVE cur_buf' \in {cur_buf, Nothing}
  BY <1>6 DEF Unprepared, Whys, Chans
<1>7. CASE \E u \in Users, c \in Chans, why \in Whys :
             Unprepare(u, c, why) \/ ResetEnds(u, c, why) \/ ResetExpires(u, c, why)
  BY <1>5, <1>6, <1>7 DEF Unprepare, ResetEnds, ResetExpires, ResetOver, modem
<1>8. CASE \E u \in Users : \/ \E c \in Chans : Prepare(u, c) \/ Started(u, c) \/ StartExpires(u, c)
                            \/ OpenEnter(u) \/ Fill(u) \/ WriteEnter(u) \/ WriteWake(u) \/ WriteQueue(u)
                            \/ ReadStops(u) \/ WriteStops(u) \/ Close(u)
  BY <1>5, <1>8 DEF Prepare, Started, StartExpires, OpenEnter, Close, Fill, WriteEnter, WriteWake, WriteQueue,
     ReadStops, WriteStops, modem, inbox
<1>9. CASE Answer \/ Transmit \/ Crash \/ Removal \/ UNCHANGED vars
  BY <1>5, <1>9 DEF Answer, Transmit, Crash, Removal, RemoveWake, RemoveReset, RemoveDevice, RemoveDeinit, vars, modem, inbox
<1>10. QED
  BY <1>1, <1>2, <1>3, <1>4, <1>7, <1>8, <1>9 DEF Next, User, OpenGoesOn, WaitExpires, FileGoesOn

\* A packet that is not what mhi_dl_xfer_cb counts on is never forgotten.
LEMMA OddTyped ==
  ASSUME TypeOK, [Next]_vars
  PROVE  odd' \subseteq 1 .. Packets /\ early' \in BOOLEAN /\ (Regular' => Regular)
<1>t. odd \subseteq 1 .. Packets /\ early \in BOOLEAN /\ sent \in Nat /\ Packets \in Nat
  <2>1. sent \in 0 .. Packets /\ Packets \in Nat
    BY UciAssumption DEF TypeOK
  <2>2. QED BY <2>1 DEF TypeOK
<1>1. ASSUME UNCHANGED <<odd, early>> PROVE odd' \subseteq 1 .. Packets /\ early' \in BOOLEAN /\ (Regular' => Regular)
  BY <1>1, <1>t DEF Regular
<1>2. CASE Receive
  <2>1. (odd' = odd \/ odd' = odd \cup {sent + 1}) /\ sent < Packets
    BY <1>2 DEF Receive, SomeLength
  <2>2. early' = (early \/ \E u \in Users : pc[u][1] = "fill")
    BY <1>2 DEF Receive
  <2>3. odd' \subseteq 1 .. Packets /\ odd \subseteq odd'
    <3>1. sent + 1 \in 1 .. Packets
      BY <1>t, <2>1
    <3>2. QED BY <1>t, <2>1, <3>1
  <2>4. early' \in BOOLEAN /\ (early => early')
    BY <2>2, Zenon
  <2>5. QED BY <2>3, <2>4 DEF Regular
<1>3. CASE \E u \in Users : \E c \in Chans : Prepare(u, c) \/ Started(u, c) \/ StartExpires(u, c)
  BY <1>1, <1>3 DEF Prepare, Started, StartExpires, modem
<1>4. CASE \E u \in Users, c \in Chans, why \in Whys :
             Unprepare(u, c, why) \/ ResetEnds(u, c, why) \/ ResetExpires(u, c, why)
  BY <1>1, <1>4 DEF Unprepare, ResetEnds, ResetExpires, ResetOver, modem
<1>5. CASE \E u \in Users : OpenEnter(u) \/ Fill(u) \/ WriteEnter(u) \/ WriteWake(u) \/ WriteQueue(u)
                        \/ ReadStops(u) \/ WriteStops(u) \/ Close(u) \/ ReadEnter(u) \/ ReadWake(u) \/ ReadEnds(u)
  BY <1>1, <1>5 DEF OpenEnter, Fill, WriteEnter, WriteWake, WriteQueue, ReadStops, WriteStops, Close, ReadEnter, ReadWake,
     ReadEnds, modem
<1>6. CASE Answer \/ Received \/ Transmit \/ Crash \/ Removal \/ UNCHANGED vars
  BY <1>1, <1>6 DEF Answer, Received, Transmit, Crash, Removal, RemoveWake, RemoveReset, RemoveDevice, RemoveDeinit, vars, modem
<1>7. QED BY <1>2, <1>3, <1>4, <1>5, <1>6 DEF Next, User, OpenGoesOn, WaitExpires, FileGoesOn

\* What a step does to the commands and to the bounds.
LEMMA CommandsTyped ==
  ASSUME TypeOK, [Next]_vars
  PROVE  cmds' \in Seq({"START", "RESET"} \X Chans) /\ budget' \in [{"open", "late", "crash", "odd"} -> Nat]
<1> DEFINE Cmds == {"START", "RESET"} \X Chans
<1>t. cmds \in Seq(Cmds) /\ budget \in [{"open", "late", "crash", "odd"} -> Nat]
  BY DEF TypeOK
<1>s. ASSUME NEW w \in {"open", "late", "crash", "odd"}, Spend(w) PROVE budget' \in [{"open", "late", "crash", "odd"} -> Nat]
  BY <1>s, <1>t DEF Spend
<1>b. budget' \in [{"open", "late", "crash", "odd"} -> Nat]
  <2>1. budget' = budget \/ \E w \in {"open", "late", "crash", "odd"} : Spend(w)
    <3>1. CASE \E u \in Users : \E c \in Chans : Prepare(u, c) \/ Started(u, c) \/ StartExpires(u, c)
      BY <3>1 DEF Prepare, Started, StartExpires, Expires
    <3>2. CASE \E u \in Users, c \in Chans, why \in Whys :
             Unprepare(u, c, why) \/ ResetEnds(u, c, why) \/ ResetExpires(u, c, why)
      BY <3>2 DEF Unprepare, ResetEnds, ResetExpires, Expires
    <3>3. CASE \E u \in Users : OpenEnter(u) \/ Fill(u) \/ WriteEnter(u) \/ WriteWake(u) \/ WriteQueue(u)
                            \/ ReadStops(u) \/ WriteStops(u) \/ Close(u) \/ ReadEnter(u) \/ ReadWake(u) \/ ReadEnds(u)
      BY <3>3 DEF OpenEnter, Fill, WriteEnter, WriteWake, WriteQueue, ReadStops, WriteStops, Close, ReadEnter, ReadWake, ReadEnds
    <3>4. CASE Answer \/ Receive \/ Received \/ Transmit \/ Crash \/ Removal \/ UNCHANGED vars
      BY <3>4 DEF Answer, Receive, SomeLength, Received, Transmit, Crash, Removal, RemoveWake, RemoveReset, RemoveDevice,
         RemoveDeinit, vars
    <3>5. QED BY <3>1, <3>2, <3>3, <3>4 DEF Next, User, OpenGoesOn, WaitExpires, FileGoesOn
  <2>2. QED BY <1>s, <1>t, <2>1
<1>c. cmds' \in Seq(Cmds)
  <2>1. \/ cmds' = cmds \/ (cmds # <<>> /\ cmds' = Tail(cmds)) \/ cmds' = <<>>
        \/ \E k \in {"START", "RESET"}, c \in Chans : cmds' = Append(cmds, <<k, c>>)
    <3>1. CASE \E u \in Users : \E c \in Chans : Prepare(u, c) \/ Started(u, c) \/ StartExpires(u, c)
      BY <3>1 DEF Prepare, Started, StartExpires
    <3>2. CASE \E u \in Users, c \in Chans, why \in Whys :
             Unprepare(u, c, why) \/ ResetEnds(u, c, why) \/ ResetExpires(u, c, why)
      BY <3>2 DEF Unprepare, ResetEnds, ResetExpires, ResetOver
    <3>3. CASE \E u \in Users : OpenEnter(u) \/ Fill(u) \/ WriteEnter(u) \/ WriteWake(u) \/ WriteQueue(u)
                            \/ ReadStops(u) \/ WriteStops(u) \/ Close(u) \/ ReadEnter(u) \/ ReadWake(u) \/ ReadEnds(u)
      BY <3>3 DEF OpenEnter, Fill, WriteEnter, WriteWake, WriteQueue, ReadStops, WriteStops, Close, ReadEnter, ReadWake, ReadEnds
    <3>4. CASE Answer \/ Receive \/ Received \/ Transmit \/ Crash \/ Removal \/ UNCHANGED vars
      BY <3>4 DEF Answer, Receive, Received, Transmit, Crash, Removal, RemoveWake, RemoveReset, RemoveDevice, RemoveDeinit, vars
    <3>5. QED BY <3>1, <3>2, <3>3, <3>4 DEF Next, User, OpenGoesOn, WaitExpires, FileGoesOn
  <2>2. CASE cmds' = <<>>
    BY <2>2, EmptySeq
  <2>3. CASE \E k \in {"START", "RESET"}, c \in Chans : cmds' = Append(cmds, <<k, c>>)
    <3>1. PICK k \in {"START", "RESET"}, c \in Chans : cmds' = Append(cmds, <<k, c>>)
      BY <2>3
    <3>2. <<k, c>> \in Cmds
      OBVIOUS
    <3> HIDE DEF Cmds
    <3>3. QED BY <1>t, <3>1, <3>2
  <2>4. CASE cmds # <<>> /\ cmds' = Tail(cmds)
    <3> HIDE DEF Cmds
    <3>1. QED BY <1>t, <2>4
  <2>5. QED BY <1>t, <2>1, <2>2, <2>3, <2>4
<1>1. QED BY <1>b, <1>c

\* The type of the receive ring, before and after a step.
LEMMA RingTyped ==
  /\ TypeOK => dl \in Seq(Slots) /\ Len(dl) \in Nat /\ Len(dl) <= N
  /\ TypeOK' => dl' \in Seq(Slots) /\ Len(dl') \in Nat /\ Len(dl') <= N
<1>1. ASSUME TypeOK PROVE dl \in Seq(Slots) /\ Len(dl) <= N
  <2>1. dl \in Seq([buf : Buffers, pkt : 0 .. Packets]) /\ Len(dl) <= N
    BY <1>1 DEF TypeOK
  <2>2. QED BY <2>1 DEF Slots
<1>2. ASSUME TypeOK' PROVE dl' \in Seq(Slots) /\ Len(dl') <= N
  <2>1. dl' \in Seq([buf : Buffers, pkt : 0 .. Packets]) /\ Len(dl') <= N
    BY <1>2 DEF TypeOK
  <2>2. QED BY <2>1 DEF Slots
<1>3. QED BY <1>1, <1>2

\* Every step keeps the types.
LEMMA TypeStays ==
  ASSUME TypeOK, LockInv, RefInv, ErrInv, [Next]_vars, LockInv', RefInv'
  PROVE  TypeOK'
<1>1. SmallOK /\ ChanOK
  BY DEF TypeOK, SmallOK, ChanOK, StateOK, BaseOK, DoneOK, HoldOK, CodeOK, ModemOK
<1>2. CASE UNCHANGED vars
  <2>1. UNCHANGED <<copying, drv_lock, mutex, r_mutex, w_mutex, node, enabled, ref_count, uci_buf, pending, cur_buf,
                    rx_error, nr_trb, dl, ul, ch_state, base, ch_mutex, done, ccs, cmds, started, pm, sent, odd,
                    early, arrived, taken, pc, life, budget>>
    BY <1>2 DEF vars, locks, files, device, inbox, order, channels, modem
  <2>2. QED BY <2>1 DEF TypeOK
<1>3. CASE Next
  <2>1. SmallOK' /\ ChanOK'
    BY <1>1, <1>3, PrepareTyped, UnprepareTyped, FileTyped, ModemTyped DEF Next, User, OpenGoesOn, WaitExpires
  <2>2. dl' \in Seq(Slots) /\ Len(dl') <= N
    <3>1. Len(dl) \in Nat /\ Len(dl) <= N /\ N \in Nat
      BY UciAssumption DEF TypeOK
    <3>2. dl' \in Seq(Slots) /\ (Len(dl') <= Len(dl) \/ (Queued(dl) /\ Len(dl') = Len(dl) + 1))
      BY RingStep
    <3>3. Len(dl') \in Nat
      BY <3>2
    <3>4. QED BY <3>1, <3>2, <3>3 DEF Queued
  <2>3. nr_trb' \in Buffers /\ rx_error' \in BOOLEAN
    BY OrderTyped
  <2>4. pending' \in Seq(Items) /\ cur_buf' \in Items /\ {sent, arrived, taken}' \subseteq 0 .. Packets
    BY InboxTyped
  <2>5. cmds' \in Seq({"START", "RESET"} \X Chans) /\ budget' \in [{"open", "late", "crash", "odd"} -> Nat]
    BY CommandsTyped
  <2>6. ref_count' \in Nat
    <3>1. Inside' \in SUBSET Users
      BY DEF Inside
    <3>2. IsFiniteSet(Inside')
      BY <3>1, UciAssumption, FS_Subset
    <3>3. Cardinality(Inside') \in Nat
      BY <3>2, FS_CardinalityType
    <3>4. QED BY <3>3 DEF RefInv
  <2>7. pc' \in [Users -> Places]
    <3>1. pc' = pc \/ \E u \in Users : \E l : Goto(u, l)
      BY <1>3, PcMoves
    <3>2. pc \in [Users -> Places]
      BY DEF TypeOK
    <3>3. DOMAIN pc' = Users /\ pc' = [u \in Users |-> pc'[u]]
      BY <3>1, <3>2 DEF Goto
    <3>4. {Out} \cup Files \cup Opening \subseteq Places
      BY UciAssumption DEF Places, Files, Opening, Bare, Stocked, Failing, Reading, Chans
    <3>5. QED BY <3>3, <3>4 DEF LockInv
  <2>8. odd' \subseteq 1 .. Packets /\ early' \in BOOLEAN
    BY OddTyped
  <2>9. QED BY <2>1, <2>2, <2>3, <2>4, <2>5, <2>6, <2>7, <2>8
     DEF TypeOK, SmallOK, ChanOK, StateOK, BaseOK, DoneOK, HoldOK, CodeOK, ModemOK, Slots
<1>4. QED BY <1>2, <1>3

\* Who changes the modem's state.
LEMMA PmMoves ==
  ASSUME [Next]_vars
  PROVE  RemoveDeinit \/ Crash \/ UNCHANGED <<pm, life>> \/ (pm' = pm /\ Removal)
<1> USE DEF modem
<1>1. CASE \E u \in Users : \E c \in Chans : Prepare(u, c) \/ Started(u, c) \/ StartExpires(u, c)
  BY <1>1 DEF Prepare, Started, StartExpires
<1>2. CASE \E u \in Users, c \in Chans, why \in Whys :
         Unprepare(u, c, why) \/ ResetEnds(u, c, why) \/ ResetExpires(u, c, why)
  BY <1>2 DEF Unprepare, ResetEnds, ResetExpires, ResetOver
<1>3. CASE \E u \in Users : OpenEnter(u) \/ Fill(u) \/ WriteEnter(u) \/ WriteWake(u) \/ WriteQueue(u)
                        \/ ReadStops(u) \/ WriteStops(u) \/ Close(u) \/ ReadEnter(u) \/ ReadWake(u) \/ ReadEnds(u)
  BY <1>3 DEF OpenEnter, Fill, WriteEnter, WriteWake, WriteQueue, ReadStops, WriteStops, Close, ReadEnter, ReadWake, ReadEnds
<1>4. CASE Answer \/ Receive \/ Received \/ Transmit \/ UNCHANGED vars
  BY <1>4 DEF Answer, Receive, Received, Transmit, vars
<1>5. CASE Removal
  BY <1>5 DEF Removal, RemoveWake, RemoveReset, RemoveDevice
<1>6. QED BY <1>1, <1>2, <1>3, <1>4, <1>5 DEF Next, User, OpenGoesOn, WaitExpires, FileGoesOn

\* How a thread comes to fill the ring, and to fail at it.
LEMMA FillEnters ==
  ASSUME TypeOK, LockInv, [Next]_vars, NEW v \in Users, NEW j \in 0 .. N - 1, pc'[v] = <<"fill", j>>, pc'[v] # pc[v]
  PROVE  \/ \E c \in Chans : Started(v, c) /\ j = 0
         \/ \E i \in 0 .. N - 1 : Fill(v) /\ pc[v] = <<"fill", i>> /\ j = i + 1
<1> USE DEF At
<1>m. ASSUME NEW u \in Users, NEW l, Goto(u, l) PROVE u = v /\ l = <<"fill", j>>
  BY <1>m, Moves
<1>o. Out # <<"fill", j>> /\ Opened # <<"fill", j>>
  BY DEF Out, Opened
<1>1. ASSUME NEW u \in Users, NEW c \in Chans, Prepare(u, c) \/ StartExpires(u, c) PROVE FALSE
  BY <1>1, <1>m, <1>o DEF Prepare, StartExpires, PrepareFailed, OpenLeave
<1>2. ASSUME NEW u \in Users, NEW c \in Chans, Started(u, c) PROVE u = v /\ j = 0
  <2>1. \E l \in {Out, <<"unprepare", "ul", "prepare">>, <<"prepare", "dl">>, <<"fill", 0>>} : Goto(u, l)
    BY <1>2 DEF Started, PrepareFailed, OpenLeave
  <2>2. QED BY <1>m, <1>o, <2>1
<1>3. ASSUME NEW u \in Users, NEW c \in Chans, NEW why \in Whys,
             Unprepare(u, c, why) \/ ResetEnds(u, c, why) \/ ResetExpires(u, c, why) PROVE FALSE
  <2>1. Goto(u, Out) \/ Goto(u, <<"unprepare", "ul", why>>) \/ Goto(u, <<"resetting", c, why>>)
    BY <1>3 DEF Unprepare, ResetEnds, ResetExpires, ResetOver, Unprepared, OpenLeave, Whys, Chans
  <2>2. QED BY <1>m, <1>o, <2>1
<1>4. ASSUME NEW u \in Users, Fill(u)
      PROVE  u = v /\ \E i \in 0 .. N - 1 : pc[v] = <<"fill", i>> /\ j = i + 1
  <2>1. PICK i \in 0 .. N - 1 : /\ pc[u] = <<"fill", i>>
                                /\ \E l \in {<<"unprepare", "dl", "fill">>, Opened, <<"fill", i + 1>>} : Goto(u, l)
    BY <1>4 DEF Fill, Filled, OpenLeave
  <2>2. QED BY <1>m, <1>o, <2>1
<1>5. ASSUME NEW u \in Users,
         \/ OpenEnter(u) \/ Close(u) \/ ReadEnter(u) \/ WriteEnter(u) \/ FileGoesOn(u)
         \/ ReadStops(u) \/ WriteStops(u)
      PROVE  FALSE
  <2>1. \E l \in {Out, Opened, <<"prepare", "ul">>, <<"read">>, <<"copy">>, <<"write">>, <<"queue">>,
                  <<"unprepare", "dl", "close">>} : Goto(u, l)
    BY <1>5 DEF OpenEnter, Close, ReadEnter, WriteEnter, FileGoesOn, ReadWake, ReadEnds, WriteWake,
       WriteQueue, ReadStops, WriteStops, ReadLeave, WriteLeave
  <2>2. QED BY <1>m, <1>o, <2>1
<1>6. CASE Answer \/ Receive \/ Received \/ Transmit \/ Crash \/ Removal \/ UNCHANGED vars
  BY <1>6 DEF Answer, Receive, Received, Transmit, Crash, Removal, RemoveWake, RemoveReset, RemoveDevice, RemoveDeinit, vars
<1>7. QED BY <1>1, <1>2, <1>3, <1>4, <1>5, <1>6 DEF Next, User, OpenGoesOn, WaitExpires

\* An open fails to fill the ring only where Fill finds no room, or no modem.
LEMMA FailEnters ==
  ASSUME TypeOK, LockInv, [Next]_vars, NEW v \in Users, pc'[v] \in Failing, pc[v] \notin Failing
  PROVE  \E i \in 0 .. N - 1 : Fill(v) /\ pc[v] = <<"fill", i>> /\ ~Queued(dl)
<1> USE DEF At
<1>m. ASSUME NEW u \in Users, NEW l, Goto(u, l) PROVE u = v /\ l \in Failing
  BY <1>m, Moves
<1>o. /\ Out \notin Failing /\ Opened \notin Failing
      /\ \A c \in Chans : <<"starting", c>> \notin Failing /\ <<"prepare", c>> \notin Failing
      /\ \A i \in Nat : <<"fill", i>> \notin Failing
      /\ <<"unprepare", "ul", "prepare">> \notin Failing /\ <<"resetting", "ul", "prepare">> \notin Failing
  BY DEF Failing, Out, Opened
<1>1. ASSUME NEW u \in Users, NEW c \in Chans, Prepare(u, c) \/ StartExpires(u, c) \/ Started(u, c) PROVE FALSE
  <2>1. \E l \in {Out, <<"unprepare", "ul", "prepare">>, <<"prepare", "dl">>, <<"fill", 0>>, <<"starting", c>>} : Goto(u, l)
    BY <1>1 DEF Prepare, StartExpires, Started, PrepareFailed, OpenLeave
  <2>2. QED BY <1>m, <1>o, <2>1 DEF Chans
<1>3. ASSUME NEW u \in Users, NEW c \in Chans, NEW why \in Whys,
             Unprepare(u, c, why) \/ ResetEnds(u, c, why) \/ ResetExpires(u, c, why) PROVE FALSE
  <2>1. \/ Goto(u, Out) \/ (Goto(u, <<"unprepare", "ul", why>>) /\ c = "dl" /\ why # "prepare")
        \/ Goto(u, <<"resetting", c, why>>)
    BY <1>3 DEF Unprepare, ResetEnds, ResetExpires, ResetOver, Unprepared, OpenLeave, Whys, Chans
  <2>2. /\ At(u, <<"unprepare", c, why>>) \/ At(u, <<"resetting", c, why>>)
        /\ At(u, <<"resetting", c, why>>) => ~Goto(u, <<"resetting", c, why>>)
    <3>1. At(u, <<"unprepare", c, why>>) \/ At(u, <<"resetting", c, why>>)
      BY <1>3 DEF Unprepare, ResetEnds, ResetExpires
    <3>2. ~Goto(u, <<"resetting", c, why>>)
      BY <1>m DEF Failing
    <3>3. QED BY <3>1, <3>2
  <2>3. (c = "ul" /\ why = "prepare") \/ (why = "fill" /\ At(u, <<"unprepare", c, why>>))
    BY <2>2, Ways
  <2>4. CASE Goto(u, Out)
    BY <1>m, <1>o, <2>4
  <2>5. CASE Goto(u, <<"resetting", c, why>>)
    BY <1>m, <2>5 DEF Failing
  <2>6. CASE Goto(u, <<"unprepare", "ul", why>>) /\ c = "dl" /\ why # "prepare"
    <3>1. u = v /\ why = "fill" /\ pc[v] = <<"unprepare", c, "fill">>
      BY <1>m, <2>3, <2>6
    <3>2. QED BY <3>1, Labels
  <2>7. QED BY <2>1, <2>4, <2>5, <2>6
<1>4. ASSUME NEW u \in Users, Fill(u)
      PROVE  u = v /\ \E i \in 0 .. N - 1 : pc[v] = <<"fill", i>> /\ ~Queued(dl)
  <2>1. PICK i \in 0 .. N - 1 : /\ pc[u] = <<"fill", i>>
                                /\ \/ ~Queued(dl) /\ Goto(u, <<"unprepare", "dl", "fill">>)
                                   \/ \E l \in {Opened, <<"fill", i + 1>>} : Goto(u, l)
    BY <1>4 DEF Fill, Filled, OpenLeave
  <2>2. i + 1 \in Nat
    BY UciAssumption
  <2>3. QED BY <1>m, <1>o, <2>1, <2>2
<1>5. ASSUME NEW u \in Users,
         \/ OpenEnter(u) \/ ReadEnter(u) \/ WriteEnter(u) \/ FileGoesOn(u)
         \/ ReadStops(u) \/ WriteStops(u)
      PROVE  FALSE
  <2>1. \E l \in {Out, Opened, <<"prepare", "ul">>, <<"read">>, <<"copy">>, <<"write">>, <<"queue">>} : Goto(u, l)
    BY <1>5 DEF OpenEnter, ReadEnter, WriteEnter, FileGoesOn, ReadWake, ReadEnds, WriteWake,
       WriteQueue, ReadStops, WriteStops, ReadLeave, WriteLeave
  <2>2. QED BY <1>m, <1>o, <2>1 DEF Failing
<1>6. ASSUME NEW u \in Users, Close(u) PROVE FALSE
  <2>1. Goto(u, Out) \/ Goto(u, <<"unprepare", "dl", "close">>)
    BY <1>6 DEF Close
  <2>2. QED BY <1>m, <1>o, <2>1 DEF Failing
<1>7. CASE Answer \/ Receive \/ Received \/ Transmit \/ Crash \/ Removal \/ UNCHANGED vars
  BY <1>7 DEF Answer, Receive, Received, Transmit, Crash, Removal, RemoveWake, RemoveReset, RemoveDevice, RemoveDeinit, vars
<1>8. QED BY <1>1, <1>3, <1>4, <1>5, <1>6, <1>7 DEF Next, User, OpenGoesOn, WaitExpires

\* Only a thread that fills the ring or gives a buffer back makes it longer.
LEMMA ErrStays ==
  ASSUME TypeOK, LockInv, RefInv, ErrInv, [Next]_vars, LockInv', TypeOK'
  PROVE  ErrInv'
<1> USE DEF At
<1>n. NoOne \notin Users /\ N \in Nat \ {0}
  BY UciAssumption
<1>t. dl \in Seq(Slots) /\ Len(dl) \in Nat /\ dl' \in Seq(Slots) /\ Len(dl') \in Nat /\ Len(dl') <= N
  BY RingTyped
<1>1. (pm = "ok" <=> life \in {"bound", "gone"})' /\ (node = "listed" <=> life \notin {"deinit", "gone"})'
  <2>1. CASE UNCHANGED <<pm, node, life>>
    BY <2>1 DEF ErrInv
  <2>2. CASE Crash \/ RemoveDevice \/ RemoveDeinit
    <3>1. CASE Crash
      BY <3>1 DEF ErrInv, Crash, device
    <3>2. CASE RemoveDevice
      BY <3>2 DEF ErrInv, RemoveDevice, Removing, modem
    <3>3. CASE RemoveDeinit
      BY <3>3 DEF ErrInv, RemoveDeinit, Removing, device
    <3>4. QED BY <2>2, <3>1, <3>2, <3>3
  <2>3. CASE \E c \in Chans : RemoveWake(c) \/ RemoveReset(c)
    BY <2>3 DEF ErrInv, RemoveWake, RemoveReset, Removing, device, modem
  <2>4. CASE \E u \in Users : Close(u) /\ node' # node
    <3>1. PICK u \in Users : Close(u) /\ node' # node
      BY <2>4
    <3>2. node' = "freed" /\ ~enabled
      BY <3>1, Closes
    <3>3. UNCHANGED <<pm, life>>
      BY <3>1 DEF Close, modem
    <3>4. QED BY <3>2, <3>3 DEF ErrInv, RefInv
  <2>5. QED
    <3>1. CASE \E u \in Users : \E c \in Chans : Prepare(u, c) \/ Started(u, c) \/ StartExpires(u, c)
      BY <2>1, <3>1 DEF Prepare, Started, StartExpires, modem
    <3>2. CASE \E u \in Users, c \in Chans, why \in Whys :
             Unprepare(u, c, why) \/ ResetEnds(u, c, why) \/ ResetExpires(u, c, why)
      BY <2>1, <3>2 DEF Unprepare, ResetEnds, ResetExpires, ResetOver, modem
    <3>3. CASE \E u \in Users : OpenEnter(u) \/ Fill(u) \/ WriteEnter(u) \/ WriteWake(u) \/ WriteQueue(u)
                            \/ ReadStops(u) \/ WriteStops(u) \/ ReadEnter(u) \/ ReadWake(u) \/ ReadEnds(u)
      BY <2>1, <3>3 DEF OpenEnter, Fill, WriteEnter, WriteWake, WriteQueue, ReadStops, WriteStops, ReadEnter, ReadWake, ReadEnds,
         modem, device
    <3>4. CASE Answer \/ Receive \/ Received \/ Transmit \/ UNCHANGED vars
      BY <2>1, <3>4 DEF Answer, Receive, Received, Transmit, vars, modem, device
    <3>5. CASE \E u \in Users : Close(u)
      BY <2>1, <2>4, <3>5 DEF Close, modem
    <3>6. QED BY <2>2, <2>3, <3>1, <3>2, <3>3, <3>4, <3>5 DEF Next, User, OpenGoesOn, WaitExpires, FileGoesOn, Removal
<1>g. ASSUME Len(dl') > Len(dl)
      PROVE  \E u \in Users : \/ ReadEnds(u) /\ pc[u] = <<"copy">>
                              \/ \E i \in 0 .. N - 1 : Fill(u) /\ At(u, <<"fill", i>>) /\ uci_buf' # "none"
  <2>1. PICK u \in Users : Fill(u) \/ ReadEnds(u)
    BY <1>g, <1>t, RingStep
  <2>2. CASE ReadEnds(u)
    BY <2>2 DEF ReadEnds
  <2>3. CASE Fill(u)
    BY <2>3 DEF Fill
  <2>4. QED BY <2>1, <2>2, <2>3
<1>2. (uci_buf = "none" => dl = <<>>)'
  <2>1. ASSUME uci_buf' = "none" PROVE uci_buf = "none"
    <3>1. ASSUME NEW u \in Users, Close(u) PROVE uci_buf = "none"
      BY <2>1, <3>1 DEF Close, FreeBuffers
    <3>2. ASSUME NEW u \in Users, NEW c \in Chans, NEW why \in Whys, Unprepared(u, c, why) PROVE uci_buf = "none"
      BY <2>1, <3>2 DEF Unprepared, FreeBuffers, Whys, Chans
    <3>3. CASE UNCHANGED uci_buf \/ \E u \in Users : Fill(u)
      BY <2>1, <3>3 DEF Fill
    <3>4. CASE \E u \in Users, c \in Chans, why \in Whys :
             Unprepare(u, c, why) \/ ResetEnds(u, c, why) \/ ResetExpires(u, c, why)
      BY <3>2, <3>3, <3>4 DEF Unprepare, ResetEnds, ResetExpires, ResetOver
    <3>5. CASE \E u \in Users : \E c \in Chans : Prepare(u, c) \/ Started(u, c) \/ StartExpires(u, c)
      BY <3>3, <3>5 DEF Prepare, Started, StartExpires
    <3>6. CASE \E u \in Users : OpenEnter(u) \/ WriteEnter(u) \/ WriteWake(u) \/ WriteQueue(u)
                            \/ ReadStops(u) \/ WriteStops(u) \/ ReadEnter(u) \/ ReadWake(u) \/ ReadEnds(u)
      BY <3>3, <3>6 DEF OpenEnter, WriteEnter, WriteWake, WriteQueue, ReadStops, WriteStops, ReadEnter, ReadWake, ReadEnds, device
    <3>7. CASE Answer \/ Receive \/ Received \/ Transmit \/ Crash \/ Removal \/ UNCHANGED vars
      BY <3>3, <3>7 DEF Answer, Receive, Received, Transmit, Crash, Removal, RemoveWake, RemoveReset, RemoveDevice, RemoveDeinit,
         vars, device
    <3>8. QED BY <3>1, <3>3, <3>4, <3>5, <3>6, <3>7 DEF Next, User, OpenGoesOn, WaitExpires, FileGoesOn
  <2>2. ASSUME uci_buf' = "none" PROVE Len(dl') <= Len(dl)
    <3>1. ASSUME NEW u \in Users, pc[u] = <<"copy">> PROVE FALSE
      BY <2>1, <2>2, <3>1, Stands, Labels DEF Files
    <3>2. QED BY <1>g, <1>t, <2>2, <3>1
  <2>3. ASSUME uci_buf' = "none" PROVE dl' = <<>>
    <3>1. Len(dl) = 0
      BY <2>1, <2>3, EmptySeq DEF ErrInv
    <3>2. Len(dl') = 0
      BY <1>t, <2>2, <2>3, <3>1
    <3>3. QED BY <1>t, <3>2, EmptySeq
  <2>4. QED BY <2>3
<1>3. ASSUME NEW v \in Users, NEW j \in 0 .. N - 1, pc'[v] = <<"fill", j>> PROVE Len(dl') <= j
  <2>1. pc'[v] \in Opening
    <3>1. j = 0 \/ j \in 1 .. N - 1
      BY <1>n
    <3>2. QED BY <1>3, <3>1, Labels DEF Opening
  <2>2. drv_lock' = v /\ \A u \in Users : u # v => pc'[u] = Out
    BY <1>n, <2>1 DEF LockInv, Inside
  <2>f. ASSUME NEW i \in 0 .. N - 1, pc[v] = <<"fill", i>> PROVE pc[v] \in Opening
    <3>1. i = 0 \/ i \in 1 .. N - 1
      BY <1>n
    <3>2. QED BY <2>f, <3>1, Labels DEF Opening
  <2>3. CASE pc'[v] = pc[v]
    <3>1. Len(dl) <= j
      BY <1>3, <2>3 DEF ErrInv
    <3>2. drv_lock = v
      BY <2>1, <2>3 DEF LockInv
    <3>3. \A u \in Users : u # v => pc[u] = Out
      BY <1>n, <3>2 DEF LockInv, Inside
    <3>4. ASSUME Len(dl') > Len(dl) PROVE FALSE
      <4>1. PICK u \in Users : \/ ReadEnds(u) /\ pc[u] = <<"copy">>
                               \/ \E i \in 0 .. N - 1 : Fill(u) /\ At(u, <<"fill", i>>)
        BY <1>g, <3>4
      <4>2. u = v
        BY <3>3, <4>1 DEF Out
      <4>3. ReadEnds(v) => FALSE
        BY <1>3, <2>3, <4>1, <4>2, Labels, Moves DEF ReadEnds, ReadLeave, Opened
      <4>4. Fill(v) => pc'[v] # pc[v]
        <5>1. ASSUME NEW i \in 0 .. N - 1, At(v, <<"fill", i>>), Fill(v)
              PROVE  pc'[v] \in {<<"unprepare", "dl", "fill">>, <<"fill", i + 1>>, Opened}
          <6>1. \E l \in {<<"unprepare", "dl", "fill">>, <<"fill", i + 1>>, Opened} : Goto(v, l)
            BY <5>1 DEF Fill, Filled, OpenLeave
          <6>2. QED BY <6>1, Moves
        <5>2. ASSUME Fill(v) PROVE \E i \in 0 .. N - 1 : At(v, <<"fill", i>>)
          BY <5>2 DEF Fill
        <5>3. ASSUME Fill(v), pc'[v] = pc[v] PROVE FALSE
          <6>1. PICK i \in 0 .. N - 1 : At(v, <<"fill", i>>)
            BY <5>2, <5>3
          <6>2. pc'[v] \in {<<"unprepare", "dl", "fill">>, <<"fill", i + 1>>, Opened} /\ pc'[v] = <<"fill", i>>
            BY <5>1, <5>3, <6>1
          <6>3. i + 1 # i
            OBVIOUS
          <6>4. QED BY <6>2, <6>3 DEF Opened
        <5>4. QED BY <5>3
      <4>5. QED BY <2>3, <4>1, <4>2, <4>3, <4>4
    <3>5. QED BY <1>t, <3>1, <3>4
  <2>4. CASE pc'[v] # pc[v]
    <3>1. \/ \E c \in Chans : Started(v, c) /\ j = 0
          \/ \E i \in 0 .. N - 1 : Fill(v) /\ pc[v] = <<"fill", i>> /\ j = i + 1
      BY <1>3, <2>4, FillEnters
    <3>2. CASE \E c \in Chans : Started(v, c) /\ j = 0
      <4>1. PICK c \in Chans : Started(v, c) /\ j = 0
        BY <3>2
      <4>2. pc[v] = <<"starting", c>> /\ dl' = dl
        BY <4>1 DEF Started
      <4>3. dl = <<>>
        BY <4>2, Stands, Labels DEF ErrInv
      <4>4. QED BY <4>1, <4>2, <4>3, EmptySeq
    <3>3. CASE \E i \in 0 .. N - 1 : Fill(v) /\ pc[v] = <<"fill", i>> /\ j = i + 1
      <4>1. PICK i \in 0 .. N - 1 : Fill(v) /\ pc[v] = <<"fill", i>> /\ j = i + 1
        BY <3>3
      <4>2. Len(dl) <= i
        BY <4>1 DEF ErrInv
      <4>3. QED BY <1>t, <4>1, <4>2, RingStep
    <3>4. QED BY <3>1, <3>2, <3>3
  <2>5. QED BY <2>3, <2>4
<1>4. ASSUME NEW v \in Users, pc'[v] \in Failing PROVE pm' = "err"
  <2>1. CASE pc[v] \in Failing
    <3>1. pc[v] \in Opening /\ node = "listed" /\ pm = "err"
      BY <2>1, Labels, Stands DEF Opening, ErrInv
    <3>2. life \notin {"deinit", "gone"}
      BY <3>1 DEF ErrInv
    <3>3. ~RemoveDeinit
      BY <3>2 DEF RemoveDeinit, Removing
    <3>4. RemoveDeinit \/ Crash \/ pm' = pm
      BY PmMoves
    <3>5. QED BY <3>1, <3>3, <3>4 DEF Crash
  <2>2. CASE pc[v] \notin Failing
    <3>1. \E i \in 0 .. N - 1 : Fill(v) /\ pc[v] = <<"fill", i>> /\ ~Queued(dl)
      BY <1>4, <2>2, FailEnters
    <3>2. PICK i \in 0 .. N - 1 : Fill(v) /\ pc[v] = <<"fill", i>> /\ ~Queued(dl)
      BY <3>1
    <3>3. Len(dl) <= i
      BY <3>2 DEF ErrInv
    <3>4. pm # "ok"
      BY <1>n, <1>t, <3>2, <3>3 DEF Queued
    <3>5. pm' = pm /\ pm \in {"ok", "err"}
      BY <3>2 DEF Fill, modem, TypeOK
    <3>6. QED BY <3>4, <3>5
  <2>3. QED BY <2>1, <2>2
<1>5. QED BY <1>1, <1>2, <1>3, <1>4 DEF ErrInv

Core == TypeOK /\ LockInv /\ RefInv /\ ErrInv

\* The four parts hold together.
LEMMA CoreStarts == Init => Core
<1> SUFFICES ASSUME Init PROVE Core
  OBVIOUS
<1>n. N \in Nat \ {0} /\ Packets \in Nat /\ Kinds \subseteq BOOLEAN /\ NoOne \notin Users /\ {Opens, Lates, Crashes, Odds} \subseteq Nat
  BY UciAssumption
<1>i. Inside = {} /\ Cardinality(Inside) = 0
  BY FS_EmptySet DEF Inside, Init
<1>1. TypeOK
  <2>1. SmallOK /\ ChanOK
    BY <1>n DEF Init, SmallOK, ChanOK, StateOK, BaseOK, DoneOK, HoldOK, CodeOK, ModemOK
  <2>2. ref_count \in Nat /\ nr_trb \in Buffers /\ rx_error \in BOOLEAN /\ {sent, arrived, taken} \subseteq 0 .. Packets
    <3>1. ref_count = 0 /\ nr_trb = 0 /\ sent = 0 /\ arrived = 0 /\ taken = 0 /\ rx_error = FALSE
      BY DEF Init
    <3>2. 0 \in 0 .. N /\ 0 \in 0 .. Packets
      BY <1>n
    <3>3. rx_error \in BOOLEAN
      BY <3>1
    <3>4. QED BY <3>1, <3>2, <3>3 DEF Buffers
  <2>3. cur_buf \in Items
    BY <1>n DEF Init, Nothing, Items
  <2>4. pending \in Seq(Items) /\ dl \in Seq(Slots) /\ Len(dl) <= N /\ cmds \in Seq({"START", "RESET"} \X Chans)
    <3>1. pending = <<>> /\ dl = <<>> /\ cmds = <<>>
      BY DEF Init
    <3>2. Len(<<>>) = 0 /\ 0 <= N
      BY <1>n, EmptySeq
    <3>3. QED BY <3>1, <3>2, EmptySeq
  <2>5. pc \in [Users -> Places]
    BY DEF Init, Places
  <2>6. budget \in [{"open", "late", "crash", "odd"} -> Nat]
    BY <1>n DEF Init
  <2>7. odd \subseteq 1 .. Packets /\ early \in BOOLEAN
    BY DEF Init
  <2>8. QED BY <2>1, <2>2, <2>3, <2>4, <2>5, <2>6, <2>7
    DEF TypeOK, SmallOK, ChanOK, StateOK, BaseOK, DoneOK, HoldOK, CodeOK, ModemOK, Slots
<1>2. LockInv
  <2>1. Out \notin Opening /\ Out \notin Reading /\ Out \notin Bare /\ Out \notin Stocked
    BY Labels DEF Opening, Files
  <2>2. QED BY <1>n, <1>i, <2>1 DEF LockInv, Init
<1>3. RefInv
  BY <1>i DEF RefInv, Init, Kept
<1>4. ErrInv
  <2>1. Out \notin Failing
    BY Labels DEF Opening
  <2>2. QED BY <2>1 DEF ErrInv, Init, At, Out
<1>5. QED BY <1>1, <1>2, <1>3, <1>4 DEF Core

\* They are kept by every step.
LEMMA CoreStays == Core /\ [Next]_vars => Core'
<1> SUFFICES ASSUME Core, [Next]_vars PROVE Core'
  OBVIOUS
<1>1. LockInv' /\ RefInv'
  BY LockStays, RefStays DEF Core
<1>2. TypeOK'
  BY <1>1, TypeStays DEF Core
<1>3. ErrInv'
  BY <1>1, <1>2, ErrStays DEF Core
<1>4. QED BY <1>1, <1>2, <1>3 DEF Core

\* They hold in every state.
LEMMA CoreHolds == Spec => []Core
  BY CoreStarts, CoreStays, PTL DEF Spec

\* mhi_uci_release and mhi_uci_remove free the uci_dev only when no file is open or being opened:
\* the open count is the number of threads inside, and one more while the driver keeps the channels.
THEOREM DeviceOutlivesUse == Spec => []DeviceInUse
<1>1. ASSUME Core PROVE DeviceInUse
  <2>1. ASSUME node = "freed" PROVE Inside = {}
    BY <1>1, <2>1, Heads0 DEF Core, RefInv
  <2>2. QED BY <2>1 DEF DeviceInUse, At, Inside
<1>2. QED BY <1>1, CoreHolds, PTL

-----------------------------------------------------------------------------
(* What a step makes of the channels while the modem lives.                *)

Chan == <<ch_state, base, done, ccs, cmds, started>>
Late == budget["late"]

\* u moves from one place to another.
From(u, k, l) == pc[u] = k /\ pc'[u] = l

\* The first open begins.
Begins(u) == /\ From(u, Out, <<"prepare", "ul">>) /\ drv_lock = NoOne /\ uci_buf = "none" /\ drv_lock' = u
             /\ UNCHANGED <<Chan, Late, uci_buf>>
\* It asks for a channel to be started.
Asks(u, c) == /\ From(u, <<"prepare", c>>, <<"starting", c>>) /\ drv_lock' = u
              /\ done' = [done EXCEPT ![c] = FALSE] /\ base' = [base EXCEPT ![c] = TRUE]
              /\ cmds' = Append(cmds, <<"START", c>>)
              /\ UNCHANGED <<ch_state, ccs, started, Late, uci_buf>>
\* The channel has been started.
Gets(u, c) == /\ From(u, <<"starting", c>>, IF c = "ul" THEN <<"prepare", "dl">> ELSE <<"fill", 0>>) /\ drv_lock' = u
              /\ done[c] /\ ch_state' = [ch_state EXCEPT ![c] = "ENABLED"]
              /\ UNCHANGED <<base, done, ccs, cmds, started, Late, uci_buf>>
\* The answer was late.
Quits(u, c) == /\ From(u, <<"starting", c>>, IF c = "ul" THEN Out ELSE <<"unprepare", "ul", "prepare">>)
               /\ drv_lock' = (IF c = "ul" THEN NoOne ELSE u)
               /\ ~done[c] /\ base' = [base EXCEPT ![c] = FALSE] /\ Late > 0 /\ Late' = Late - 1
               /\ UNCHANGED <<ch_state, done, ccs, cmds, started, uci_buf>>
\* A buffer is queued.
Stocks(u) == /\ \E i \in 0 .. N - 1 : \/ From(u, <<"fill", i>>, Opened) /\ drv_lock' = NoOne
                                      \/ i + 1 \in 0 .. N - 1 /\ From(u, <<"fill", i>>, <<"fill", i + 1>>) /\ drv_lock' = u
             /\ uci_buf' = "there" /\ UNCHANGED <<Chan, Late>>
\* The channel that was started is given up, and has been.
AsksReset(u) == /\ From(u, <<"unprepare", "ul", "prepare">>, <<"resetting", "ul", "prepare">>) /\ drv_lock' = u
                /\ ch_state' = [ch_state EXCEPT !["ul"] = "DISABLED"] /\ done' = [done EXCEPT !["ul"] = FALSE]
                /\ cmds' = Append(cmds, <<"RESET", "ul">>)
                /\ UNCHANGED <<base, ccs, started, Late, uci_buf>>
IsReset(u) == /\ From(u, <<"resetting", "ul", "prepare">>, Out) /\ drv_lock' = NoOne
              /\ base' = [base EXCEPT !["ul"] = FALSE]
              /\ (done["ul"] /\ Late' = Late) \/ (~done["ul"] /\ Late > 0 /\ Late' = Late - 1)
              /\ UNCHANGED <<ch_state, done, ccs, cmds, started, uci_buf>>
\* Steps of the open that goes on.
OpenStep(u) == \/ Begins(u) \/ Stocks(u) \/ AsksReset(u) \/ IsReset(u)
               \/ \E c \in Chans : Asks(u, c) \/ Gets(u, c) \/ Quits(u, c)
\* The modem answers.
Answers == /\ cmds # <<>> /\ cmds' = Tail(cmds)
           /\ done' = [done EXCEPT ![Head(cmds)[2]] = TRUE] /\ ccs' = [ccs EXCEPT ![Head(cmds)[2]] = "ok"]
           /\ started' = [started EXCEPT ![Head(cmds)[2]] = IF Head(cmds)[1] = "START" THEN "yes" ELSE "reset"]
           /\ UNCHANGED <<ch_state, base, Late, uci_buf, drv_lock, pc>>
\* Nothing happens to the channels.
Elsewhere == /\ UNCHANGED <<Chan, Late, uci_buf, drv_lock>>
             /\ \A u \in Users : pc'[u] = pc[u] \/ {pc[u], pc'[u]} \subseteq Files \cup {Out}

Both(s, t) == ch_state["ul"] = s /\ ch_state["dl"] = t
GivesUp == {<<"unprepare", "ul", "prepare">>, <<"resetting", "ul", "prepare">>}

\* What holds of the channels while a thread is at l.
Works(l) ==
  /\ \A i \in 0 .. N - 1 : l = <<"fill", i>> => Both("ENABLED", "ENABLED")
  /\ l \in {<<"prepare", "dl">>, <<"starting", "dl">>, <<"unprepare", "ul", "prepare">>} => Both("ENABLED", "DISABLED")
  /\ l \in {<<"prepare", "ul">>, <<"starting", "ul">>, <<"resetting", "ul", "prepare">>} => Both("DISABLED", "DISABLED")
  /\ \A c \in Chans : l = <<"starting", c>> => base[c]
  /\ l \in GivesUp => Late < Lates

QuietInv ==
  /\ Late <= Lates
  /\ life # "bound" => cmds = <<>> /\ \A c \in Chans : started[c] = "never"
StageInv ==
  life = "bound" =>
  /\ \A u \in Users : Works(pc[u])
  /\ Kept => Both("ENABLED", "ENABLED")
  /\ uci_buf = "none" /\ drv_lock = NoOne => Both("DISABLED", "DISABLED")
  /\ \A c \in Chans : (ch_state[c] = "ENABLED" => base[c]) /\ (done[c] => ccs[c] = "ok")

\* Where a thread that opens the device is, the others are not.
LEMMA Alone ==
  ASSUME Core, NEW u \in Users, pc[u] \in Opening
  PROVE  drv_lock = u /\ mutex = u /\ node = "listed" /\ \A v \in Users : v # u => pc[v] = Out
<1>1. drv_lock = u /\ mutex = u /\ node = "listed" /\ Inside = {u}
  BY Stands DEF Core
<1>2. QED BY <1>1 DEF Inside

\* While the modem lives.
LEMMA Alive ==
  ASSUME Core, [Next]_vars, life' = "bound"
  PROVE  life = "bound" /\ pm = "ok" /\ node = "listed" /\ enabled /\ ~Removal /\ ~Crash /\ \A u \in Users : pc[u] \notin Failing
<1>1. ~Crash /\ ~Removal
  BY DEF Crash, Removal, RemoveWake, RemoveReset, RemoveDevice, RemoveDeinit, Removing, Chans
<1>2. life' = life
  BY <1>1, PmMoves DEF RemoveDeinit, Removal
<1>3. QED BY <1>1, <1>2 DEF Core, ErrInv, RefInv

\* While the modem lives a step is one of these.
LEMMA BoundSteps ==
  ASSUME Core, [Next]_vars, life' = "bound", StageInv
  PROVE  (\E u \in Users : OpenStep(u)) \/ Answers \/ Elsewhere
<1> USE DEF At, Late, Chan, From, locks, files, device, channels, modem
<1>a. life = "bound" /\ pm = "ok" /\ node = "listed" /\ enabled /\ ~Removal /\ ~Crash /\ \A u \in Users : pc[u] \notin Failing
  BY Alive
<1>t. TypeOK /\ LockInv
  BY DEF Core
<1>m. ASSUME NEW u \in Users, NEW l, Goto(u, l) PROVE pc'[u] = l
  BY <1>t, <1>m, Moves
<1>s. \A u \in Users : Works(pc[u])
  BY <1>a DEF StageInv
<1>f. ASSUME NEW u \in Users, {pc[u], pc'[u]} \subseteq Files \cup {Out}, \E l : Goto(u, l)
      PROVE  \A v \in Users : pc'[v] = pc[v] \/ {pc[v], pc'[v]} \subseteq Files \cup {Out}
  BY <1>t, <1>f, Moves
<1>1. ASSUME NEW u \in Users, OpenEnter(u) PROVE OpenStep(u) \/ Elsewhere
  <2>1. /\ drv_lock = NoOne /\ pc[u] = Out /\ UNCHANGED <<Chan, uci_buf>> /\ Late' = Late
    BY <1>1, <1>t DEF OpenEnter, Spend, TypeOK
  <2>2. CASE ref_count = 0
    <3>1. Cardinality(Inside) \in Nat /\ (Cardinality(Inside) = 0 <=> Inside = {})
      BY Heads0
    <3>2. uci_buf = "none"
      BY <1>a, <2>1, <2>2, <3>1 DEF Core, RefInv, Kept
    <3>3. drv_lock' = u /\ pc'[u] = <<"prepare", "ul">>
      BY <1>1, <1>m, <2>2 DEF OpenEnter
    <3>4. QED BY <2>1, <3>2, <3>3 DEF OpenStep, Begins
  <2>3. CASE ref_count # 0
    <3>1. Goto(u, Opened) /\ drv_lock' = drv_lock
      BY <1>1, <2>3 DEF OpenEnter
    <3>2. Elsewhere
      BY <1>f, <1>m, <2>1, <3>1, Labels DEF Elsewhere
    <3>3. QED BY <3>2
  <2>4. QED BY <2>2, <2>3
<1>2. ASSUME NEW u \in Users, NEW c \in Chans, Prepare(u, c) PROVE OpenStep(u)
  <2>1. pc[u] = <<"prepare", c>> /\ UNCHANGED <<ch_state, ccs, started, Late, uci_buf>>
    BY <1>2 DEF Prepare
  <2>2. drv_lock = u
    BY <2>1, Alone, Labels DEF Opening
  <2>3. ch_state[c] = "DISABLED"
    BY <1>s, <2>1 DEF Works, Both, Chans
  <2>4. /\ done' = [done EXCEPT ![c] = FALSE] /\ base' = [base EXCEPT ![c] = TRUE]
        /\ cmds' = Append(cmds, <<"START", c>>) /\ Goto(u, <<"starting", c>>) /\ drv_lock' = drv_lock
    BY <1>2, <1>a, <2>3 DEF Prepare, Reinit
  <2>5. Asks(u, c)
    BY <1>m, <2>1, <2>2, <2>4 DEF Asks
  <2>6. QED BY <2>5 DEF OpenStep
<1>3. ASSUME NEW u \in Users, NEW c \in Chans, Started(u, c) PROVE OpenStep(u)
  <2>1. pc[u] = <<"starting", c>> /\ done[c] /\ UNCHANGED <<done, ccs, cmds, started, Late, uci_buf>>
    BY <1>3 DEF Started
  <2>2. drv_lock = u
    BY <2>1, Alone, Labels DEF Opening
  <2>3. ccs[c] = "ok"
    BY <1>a, <2>1 DEF StageInv
  <2>4. /\ ch_state' = [ch_state EXCEPT ![c] = "ENABLED"] /\ base' = base /\ drv_lock' = drv_lock
        /\ Goto(u, IF c = "ul" THEN <<"prepare", "dl">> ELSE <<"fill", 0>>)
    BY <1>3, <2>3 DEF Started
  <2>5. Gets(u, c)
    BY <1>m, <2>1, <2>2, <2>4 DEF Gets
  <2>6. QED BY <2>5 DEF OpenStep
<1>4. ASSUME NEW u \in Users, NEW c \in Chans, StartExpires(u, c) PROVE OpenStep(u)
  <2>1. /\ pc[u] = <<"starting", c>> /\ ~done[c] /\ UNCHANGED <<ch_state, done, ccs, cmds, started, uci_buf>>
        /\ base' = [base EXCEPT ![c] = FALSE]
    BY <1>4 DEF StartExpires
  <2>2. drv_lock = u
    BY <2>1, Alone, Labels DEF Opening
  <2>3. Late > 0 /\ Late' = Late - 1
    <3>1. Spend("late")
      BY <1>4, <1>a DEF StartExpires, Expires
    <3>2. QED BY <1>t, <3>1 DEF Spend, TypeOK
  <2>4. PrepareFailed(u, c)
    BY <1>4 DEF StartExpires
  <2>5. /\ Goto(u, IF c = "ul" THEN Out ELSE <<"unprepare", "ul", "prepare">>)
        /\ drv_lock' = (IF c = "ul" THEN NoOne ELSE u)
    BY <2>2, <2>4 DEF PrepareFailed, OpenLeave
  <2>6. Quits(u, c)
    BY <1>m, <2>1, <2>3, <2>5 DEF Quits
  <2>7. QED BY <2>6 DEF OpenStep
<1>5. ASSUME NEW u \in Users, Fill(u) PROVE OpenStep(u)
  <2>n. N \in Nat \ {0}
    BY UciAssumption
  <2>1. PICK i \in 0 .. N - 1 :
          /\ pc[u] = <<"fill", i>> /\ UNCHANGED <<Chan, Late>>
          /\ uci_buf' = IF uci_buf = "none" THEN "there" ELSE uci_buf
          /\ IF ~Queued(dl) THEN TRUE
             ELSE IF i = N - 1 THEN Filled(u) ELSE Goto(u, <<"fill", i + 1>>) /\ drv_lock' = drv_lock
    BY <1>5 DEF Fill
  <2>2. pc[u] \in Opening
    <3>1. i = 0 \/ i \in 1 .. N - 1
      BY <2>n
    <3>2. QED BY <2>1, <3>1, Labels DEF Opening
  <2>3. drv_lock = u /\ uci_buf' = "there"
    BY <1>t, <2>1, <2>2, Alone, Stands DEF Opening
  <2>4. Queued(dl)
    <3>1. Len(dl) <= i /\ Len(dl) \in Nat
      BY <2>1 DEF Core, ErrInv, TypeOK
    <3>2. QED BY <1>a, <2>n, <3>1 DEF Queued
  <2>5. CASE i = N - 1
    <3>1. pc'[u] = Opened /\ drv_lock' = NoOne
      BY <1>m, <2>1, <2>4, <2>5 DEF Filled, OpenLeave
    <3>2. QED BY <2>1, <2>3, <3>1 DEF OpenStep, Stocks
  <2>6. CASE i # N - 1
    <3>1. pc'[u] = <<"fill", i + 1>> /\ drv_lock' = u /\ i + 1 \in 0 .. N - 1
      BY <1>m, <2>n, <2>1, <2>3, <2>4, <2>6
    <3>2. QED BY <2>1, <2>3, <3>1 DEF OpenStep, Stocks
  <2>7. QED BY <2>5, <2>6
<1>6. ASSUME NEW u \in Users, NEW c \in Chans, NEW why \in Whys,
             Unprepare(u, c, why) \/ ResetEnds(u, c, why) \/ ResetExpires(u, c, why)
      PROVE  OpenStep(u)
  <2>1. At(u, <<"unprepare", c, why>>) \/ At(u, <<"resetting", c, why>>)
    BY <1>6 DEF Unprepare, ResetEnds, ResetExpires
  <2>2. c = "ul" /\ why = "prepare"
    BY <1>a, <1>t, <2>1, Ways, Labels
  <2>3. drv_lock = u
    BY <2>1, <2>2, Alone, Labels DEF Opening
  <2>4. CASE Unprepare(u, c, why)
    <3>1. pc[u] = <<"unprepare", "ul", "prepare">>
      BY <2>2, <2>4 DEF Unprepare
    <3>2. ch_state["ul"] = "ENABLED"
      BY <1>s, <3>1 DEF Works, Both
    <3>3. /\ ch_state' = [ch_state EXCEPT !["ul"] = "DISABLED"] /\ done' = [done EXCEPT !["ul"] = FALSE]
          /\ cmds' = Append(cmds, <<"RESET", "ul">>) /\ drv_lock' = drv_lock /\ Goto(u, <<"resetting", "ul", "prepare">>)
          /\ UNCHANGED <<base, ccs, started, Late, uci_buf>>
      BY <1>a, <2>2, <2>4, <3>2 DEF Unprepare, Reinit
    <3>4. AsksReset(u)
      BY <1>m, <2>3, <3>1, <3>3 DEF AsksReset
    <3>5. QED BY <3>4 DEF OpenStep
  <2>5. CASE ResetEnds(u, c, why) \/ ResetExpires(u, c, why)
    <3>1. pc[u] = <<"resetting", "ul", "prepare">> /\ ResetOver(u, "ul", "prepare")
      BY <2>2, <2>5 DEF ResetEnds, ResetExpires
    <3>2. /\ UNCHANGED <<ch_state, done, ccs, cmds, started>> /\ base' = [base EXCEPT !["ul"] = FALSE]
          /\ Unprepared(u, "ul", "prepare")
      BY <3>1 DEF ResetOver
    <3>3. OpenLeave(u, Out) /\ uci_buf' = uci_buf
      BY <3>2 DEF Unprepared
    <3>4. (done["ul"] /\ Late' = Late) \/ (~done["ul"] /\ Late > 0 /\ Late' = Late - 1)
      <4>1. (done["ul"] /\ budget' = budget) \/ (~done["ul"] /\ Spend("late"))
        BY <1>a, <2>2, <2>5 DEF ResetEnds, ResetExpires, Expires
      <4>2. QED BY <1>t, <4>1 DEF Spend, TypeOK
    <3>5. IsReset(u)
      BY <1>m, <3>1, <3>2, <3>3, <3>4 DEF IsReset, OpenLeave
    <3>6. QED BY <3>5 DEF OpenStep
  <2>6. QED BY <1>6, <2>4, <2>5
<1>7. ASSUME NEW u \in Users, Close(u) PROVE Elsewhere
  <2>1. Goto(u, Out) /\ uci_buf' = uci_buf /\ pc[u] = Opened
    BY <1>a, <1>7, Closes DEF Core, Close
  <2>2. UNCHANGED <<Chan, Late, drv_lock>>
    BY <1>7 DEF Close
  <2>3. QED BY <1>f, <1>m, <2>1, <2>2, Labels DEF Elsewhere
<1>8. ASSUME NEW u \in Users,
             \/ ReadEnter(u) \/ ReadWake(u) \/ ReadStops(u) \/ ReadEnds(u)
             \/ WriteEnter(u) \/ WriteWake(u) \/ WriteStops(u) \/ WriteQueue(u)
      PROVE  Elsewhere
  <2>1. UNCHANGED <<Chan, Late, uci_buf, drv_lock>>
    BY <1>8 DEF ReadEnter, ReadWake, ReadStops, ReadEnds, WriteEnter, WriteWake, WriteStops, WriteQueue
  <2>2. pc[u] \in Files /\ \E l \in Files : Goto(u, l)
    BY <1>8 DEF ReadEnter, ReadWake, ReadStops, ReadEnds, ReadLeave, WriteEnter, WriteWake, WriteStops, WriteQueue,
       WriteLeave, Files, Reading
  <2>3. QED BY <1>f, <1>m, <2>1, <2>2 DEF Elsewhere
<1>9. CASE Answer
  BY <1>9 DEF Answer, Answers
<1>10. CASE Received \/ Transmit \/ UNCHANGED vars
  BY <1>10 DEF Received, Transmit, vars, Elsewhere
<1>12. CASE Receive
  <2>1. UNCHANGED <<Chan, uci_buf, drv_lock, pc>> /\ SomeLength
    BY <1>12 DEF Receive
  <2>2. Late' = Late
    <3>1. budget \in [{"open", "late", "crash", "odd"} -> Nat]
      BY DEF Core, TypeOK
    <3>2. QED BY <2>1, <3>1 DEF SomeLength, Spend
  <2>3. QED BY <2>1, <2>2 DEF Elsewhere
<1>11. QED BY <1>a, <1>1, <1>2, <1>3, <1>4, <1>5, <1>6, <1>7, <1>8, <1>9, <1>10, <1>12
  DEF Next, User, OpenGoesOn, WaitExpires, FileGoesOn

\* Without a modem there are no commands.
LEMMA QuietStays ==
  ASSUME Core, [Next]_vars, QuietInv
  PROVE  QuietInv'
<1> USE DEF At, Late, channels, modem
<1>n. Lates \in Nat /\ Late \in Nat
  BY UciAssumption DEF Core, TypeOK
<1>1. Late' <= Lates
  <2>1. budget' = budget \/ Spend("late") \/ Spend("open") \/ Spend("crash") \/ Spend("odd")
    <3>1. CASE \E u \in Users : \E c \in Chans : Prepare(u, c) \/ Started(u, c) \/ StartExpires(u, c)
      BY <3>1 DEF Prepare, Started, StartExpires, Expires
    <3>2. CASE \E u \in Users, c \in Chans, why \in Whys :
             Unprepare(u, c, why) \/ ResetEnds(u, c, why) \/ ResetExpires(u, c, why)
      BY <3>2 DEF Unprepare, ResetEnds, ResetExpires, Expires
    <3>3. CASE \E u \in Users : OpenEnter(u) \/ Fill(u) \/ WriteEnter(u) \/ WriteWake(u) \/ WriteQueue(u)
                            \/ ReadStops(u) \/ WriteStops(u) \/ Close(u) \/ ReadEnter(u) \/ ReadWake(u) \/ ReadEnds(u)
      BY <3>3 DEF OpenEnter, Fill, WriteEnter, WriteWake, WriteQueue, ReadStops, WriteStops, Close, ReadEnter, ReadWake, ReadEnds
    <3>4. CASE Answer \/ Receive \/ Received \/ Transmit \/ Crash \/ Removal \/ UNCHANGED vars
      BY <3>4 DEF Answer, Receive, SomeLength, Received, Transmit, Crash, Removal, RemoveWake, RemoveReset, RemoveDevice,
         RemoveDeinit, vars
    <3>5. QED BY <3>1, <3>2, <3>3, <3>4 DEF Next, User, OpenGoesOn, WaitExpires, FileGoesOn
  <2>2. Late' = Late \/ Late' = Late - 1
    <3>1. budget \in [{"open", "late", "crash", "odd"} -> Nat]
      BY DEF Core, TypeOK
    <3>2. QED BY <2>1, <3>1 DEF Spend
  <2>3. QED BY <1>n, <2>2 DEF QuietInv
<1>2. ASSUME life' # "bound" PROVE cmds' = <<>> /\ \A c \in Chans : started'[c] = "never"
  <2>1. CASE Crash
    BY <2>1 DEF Crash
  <2>2. CASE ~Crash
    <3>1. life # "bound"
      <4>1. UNCHANGED life \/ Removal
        BY <2>2, PmMoves DEF Removal
      <4>2. Removal => life # "bound"
        BY DEF Removal, RemoveWake, RemoveReset, RemoveDevice, RemoveDeinit, Removing, Chans
      <4>3. QED BY <1>2, <4>1, <4>2
    <3>2. cmds = <<>> /\ \A c \in Chans : started[c] = "never"
      BY <3>1 DEF QuietInv
    <3>3. ASSUME NEW u \in Users, pc[u] \in Opening PROVE pm # "ok"
      <4>1. node = "listed"
        BY <3>3, Alone
      <4>2. QED BY <3>1, <4>1 DEF Core, ErrInv
    <3>4. CASE \E u \in Users : \E c \in Chans : Prepare(u, c) \/ Started(u, c) \/ StartExpires(u, c)
      <4>1. PICK u \in Users, c \in Chans : Prepare(u, c) \/ Started(u, c) \/ StartExpires(u, c)
        BY <3>4
      <4>2. UNCHANGED started /\ (cmds' = cmds \/ (pc[u] = <<"prepare", c>> /\ pm = "ok"))
        BY <4>1 DEF Prepare, Started, StartExpires
      <4>3. QED BY <3>2, <3>3, <4>2, Labels DEF Opening
    <3>5. CASE \E u \in Users, c \in Chans, why \in Whys :
             Unprepare(u, c, why) \/ ResetEnds(u, c, why) \/ ResetExpires(u, c, why)
      <4>1. PICK u \in Users, c \in Chans, why \in Whys :
             Unprepare(u, c, why) \/ ResetEnds(u, c, why) \/ ResetExpires(u, c, why)
        BY <3>5
      <4>2. UNCHANGED started /\ (cmds' = cmds \/ (pc[u] = <<"unprepare", c, why>> /\ pm # "err"))
        BY <4>1 DEF Unprepare, ResetEnds, ResetExpires, ResetOver
      <4>3. pc[u] = <<"unprepare", c, why>> => pc[u] \in Opening
        BY Ways, Labels DEF Core, Opening
      <4>4. pm \in {"ok", "err"}
        BY DEF Core, TypeOK
      <4>5. QED BY <3>2, <3>3, <4>2, <4>3, <4>4
    <3>6. CASE \E u \in Users : OpenEnter(u) \/ Fill(u) \/ WriteEnter(u) \/ WriteWake(u) \/ WriteQueue(u)
                            \/ ReadStops(u) \/ WriteStops(u) \/ Close(u) \/ ReadEnter(u) \/ ReadWake(u) \/ ReadEnds(u)
      BY <3>2, <3>6 DEF OpenEnter, Fill, WriteEnter, WriteWake, WriteQueue, ReadStops, WriteStops, Close, ReadEnter, ReadWake, ReadEnds
    <3>7. CASE Answer \/ Receive \/ Received \/ Transmit \/ Removal \/ UNCHANGED vars
      BY <3>2, <3>7 DEF Answer, Receive, Received, Transmit, Removal, RemoveWake, RemoveReset, RemoveDevice, RemoveDeinit, vars
    <3>8. QED BY <2>2, <3>4, <3>5, <3>6, <3>7 DEF Next, User, OpenGoesOn, WaitExpires, FileGoesOn
  <2>3. QED BY <2>1, <2>2
<1>3. QED BY <1>1, <1>2 DEF QuietInv

\* A thread that is out, or has a file open, asks nothing of the channels.
LEMMA Idle == \A l \in Files \cup {Out} : Works(l) /\ Works(l)'
  BY DEF Works, Files, Reading, Out, Opened, GivesUp, Chans

\* While one thread opens the device the others are idle.
LEMMA OthersIdle ==
  ASSUME Core, Core', NEW u \in Users, OpenStep(u)
  PROVE  \A v \in Users : v # u => pc'[v] \in Files \cup {Out}
<1>n. NoOne \notin Users
  BY UciAssumption
<1>1. drv_lock' \in {u, NoOne}
  BY DEF OpenStep, Begins, Stocks, AsksReset, IsReset, Asks, Gets, Quits
<1>2. ASSUME NEW v \in Users, v # u PROVE drv_lock' # v
  BY <1>n, <1>1, <1>2
<1>3. QED BY <1>2 DEF Core, LockInv

\* What the open has done of the channels stays what it says.
LEMMA StageStays ==
  ASSUME Core, Core', [Next]_vars, StageInv, QuietInv
  PROVE  StageInv'
<1> SUFFICES ASSUME life' = "bound" PROVE StageInv'
  BY DEF StageInv
<1> USE DEF Chan
<1>n. NoOne \notin Users /\ Late \in Nat /\ Late' \in Nat /\ Lates \in Nat /\ Late <= Lates
  BY UciAssumption DEF Core, TypeOK, Late, QuietInv
<1>t. /\ ch_state \in [Chans -> {"DISABLED", "ENABLED", "SUSPENDED"}] /\ base \in [Chans -> BOOLEAN]
      /\ done \in [Chans -> BOOLEAN] /\ ccs \in [Chans -> {"ok", "invalid"}] /\ cmds \in Seq({"START", "RESET"} \X Chans)
  BY DEF Core, TypeOK
<1>b. life = "bound"
  BY Alive
<1>s. /\ \A u \in Users : Works(pc[u])
      /\ Kept => Both("ENABLED", "ENABLED")
      /\ uci_buf = "none" /\ drv_lock = NoOne => Both("DISABLED", "DISABLED")
      /\ \A c \in Chans : (ch_state[c] = "ENABLED" => base[c]) /\ (done[c] => ccs[c] = "ok")
  BY <1>b DEF StageInv
<1>c. "ul" \in Chans /\ "dl" \in Chans /\ \A c \in Chans : c = "ul" \/ c = "dl"
  BY DEF Chans
<1> DEFINE Rest == /\ Kept' => Both("ENABLED", "ENABLED")'
                   /\ uci_buf' = "none" /\ drv_lock' = NoOne => Both("DISABLED", "DISABLED")'
                   /\ \A c \in Chans : (ch_state'[c] = "ENABLED" => base'[c]) /\ (done'[c] => ccs'[c] = "ok")
<1>o. ASSUME NEW u \in Users, OpenStep(u), Works(pc[u])', Rest PROVE StageInv'
  <2>1. \A v \in Users : v # u => Works(pc[v])'
    BY <1>o, Idle, OthersIdle
  <2>2. QED BY <1>o, <2>1 DEF StageInv
<1>1. ASSUME NEW u \in Users, Begins(u) PROVE StageInv'
  <2>1. Both("DISABLED", "DISABLED") /\ UNCHANGED <<Chan, uci_buf>> /\ drv_lock' = u /\ pc'[u] = <<"prepare", "ul">> /\ uci_buf = "none"
    BY <1>1, <1>s DEF Begins, From
  <2>2. Works(pc[u])'
    BY <2>1 DEF Works, Both, GivesUp
  <2>3. Rest
    BY <1>n, <1>s, <2>1 DEF Kept, Both
  <2>4. QED BY <1>1, <1>o, <2>2, <2>3 DEF OpenStep
<1>2. ASSUME NEW u \in Users, NEW c \in Chans, Asks(u, c) PROVE StageInv'
  <2>1. /\ pc[u] = <<"prepare", c>> /\ pc'[u] = <<"starting", c>> /\ drv_lock' = u
        /\ done' = [done EXCEPT ![c] = FALSE] /\ base' = [base EXCEPT ![c] = TRUE]
        /\ UNCHANGED <<ch_state, ccs, Late, uci_buf>> /\ Works(<<"prepare", c>>)
    BY <1>2, <1>s DEF Asks, From
  <2>u. uci_buf = "none"
    BY <2>1, Stands, Labels DEF Core
  <2>2. c = "ul" => Both("DISABLED", "DISABLED")
    BY <2>1 DEF Works
  <2>3. c = "dl" => Both("ENABLED", "DISABLED")
    BY <2>1 DEF Works
  <2>4. Works(pc[u])'
    BY <1>c, <1>t, <2>1, <2>2, <2>3 DEF Works, Both, GivesUp
  <2>5. Rest
    <3>1. \A d \in Chans : (ch_state'[d] = "ENABLED" => base'[d]) /\ (done'[d] => ccs'[d] = "ok")
      BY <1>s, <1>t, <2>1
    <3>2. QED BY <1>n, <2>1, <2>u, <3>1 DEF Kept
  <2>6. QED BY <1>2, <1>o, <2>4, <2>5 DEF OpenStep
<1>3. ASSUME NEW u \in Users, NEW c \in Chans, Gets(u, c) PROVE StageInv'
  <2>1. /\ pc[u] = <<"starting", c>> /\ pc'[u] = (IF c = "ul" THEN <<"prepare", "dl">> ELSE <<"fill", 0>>) /\ drv_lock' = u
        /\ ch_state' = [ch_state EXCEPT ![c] = "ENABLED"]
        /\ UNCHANGED <<base, done, ccs, Late, uci_buf>> /\ Works(<<"starting", c>>)
    BY <1>3, <1>s DEF Gets, From
  <2>u. uci_buf = "none"
    BY <2>1, Stands, Labels DEF Core
  <2>2. base[c] /\ (c = "ul" => Both("DISABLED", "DISABLED")) /\ (c = "dl" => Both("ENABLED", "DISABLED"))
    BY <2>1 DEF Works
  <2>3. (c = "ul" => Both("ENABLED", "DISABLED")') /\ (c = "dl" => Both("ENABLED", "ENABLED")')
    BY <1>c, <1>t, <2>1, <2>2 DEF Both
  <2>4. Works(pc[u])'
    <3>1. CASE c = "ul"
      BY <2>1, <2>3, <3>1 DEF Works, GivesUp
    <3>2. CASE c = "dl"
      BY <2>1, <2>3, <3>2 DEF Works, GivesUp
    <3>3. QED BY <1>c, <3>1, <3>2
  <2>5. Rest
    <3>1. \A d \in Chans : (ch_state'[d] = "ENABLED" => base'[d]) /\ (done'[d] => ccs'[d] = "ok")
      BY <1>s, <1>t, <2>1, <2>2
    <3>2. QED BY <1>n, <2>1, <2>u, <3>1 DEF Kept
  <2>6. QED BY <1>3, <1>o, <2>4, <2>5 DEF OpenStep
<1>4. ASSUME NEW u \in Users, NEW c \in Chans, Quits(u, c) PROVE StageInv'
  <2>1. /\ pc[u] = <<"starting", c>> /\ pc'[u] = (IF c = "ul" THEN Out ELSE <<"unprepare", "ul", "prepare">>)
        /\ base' = [base EXCEPT ![c] = FALSE] /\ Late' = Late - 1
        /\ drv_lock' = (IF c = "ul" THEN NoOne ELSE u)
        /\ UNCHANGED <<ch_state, done, ccs, uci_buf>> /\ Works(<<"starting", c>>)
    BY <1>4, <1>s DEF Quits, From
  <2>u. uci_buf = "none"
    BY <2>1, Stands, Labels DEF Core
  <2>2. (c = "ul" => Both("DISABLED", "DISABLED")) /\ (c = "dl" => Both("ENABLED", "DISABLED"))
    BY <2>1 DEF Works
  <2>3. Late' < Lates
    BY <1>n, <2>1
  <2>4. Works(pc[u])'
    <3>1. CASE c = "ul"
      BY <2>1, <3>1, Idle
    <3>2. CASE c = "dl"
      BY <2>1, <2>2, <2>3, <3>2 DEF Works, GivesUp, Both
    <3>3. QED BY <1>c, <3>1, <3>2
  <2>5. Rest
    <3>0. ch_state[c] = "DISABLED"
      BY <1>c, <2>2 DEF Both
    <3>1. \A d \in Chans : (ch_state'[d] = "ENABLED" => base'[d]) /\ (done'[d] => ccs'[d] = "ok")
      BY <1>s, <1>t, <2>1, <3>0
    <3>2. drv_lock' = NoOne => Both("DISABLED", "DISABLED")'
      BY <1>c, <1>n, <2>1, <2>2 DEF Both
    <3>3. QED BY <2>1, <2>u, <3>1, <3>2 DEF Kept
  <2>6. QED BY <1>4, <1>o, <2>4, <2>5 DEF OpenStep
<1>5. ASSUME NEW u \in Users, Stocks(u) PROVE StageInv'
  <2>1. PICK i \in 0 .. N - 1 : \/ From(u, <<"fill", i>>, Opened) /\ drv_lock' = NoOne
                                \/ i + 1 \in 0 .. N - 1 /\ From(u, <<"fill", i>>, <<"fill", i + 1>>) /\ drv_lock' = u
    BY <1>5 DEF Stocks
  <2>2. uci_buf' = "there" /\ UNCHANGED Chan
    BY <1>5 DEF Stocks
  <2>3. Both("ENABLED", "ENABLED")
    BY <1>s, <2>1 DEF Works, From
  <2>4. Both("ENABLED", "ENABLED")'
    BY <2>2, <2>3 DEF Both
  <2>5. Works(pc[u])'
    <3>1. CASE pc'[u] = Opened
      BY <3>1, Idle, Labels
    <3>2. CASE pc'[u] = <<"fill", i + 1>>
      BY <2>4, <3>2 DEF Works, GivesUp
    <3>3. QED BY <2>1, <3>1, <3>2 DEF From
  <2>6. Rest
    BY <1>s, <2>2, <2>4
  <2>7. QED BY <1>5, <1>o, <2>5, <2>6 DEF OpenStep
<1>6. ASSUME NEW u \in Users, AsksReset(u) PROVE StageInv'
  <2>1. /\ pc[u] = <<"unprepare", "ul", "prepare">> /\ pc'[u] = <<"resetting", "ul", "prepare">> /\ drv_lock' = u
        /\ ch_state' = [ch_state EXCEPT !["ul"] = "DISABLED"] /\ done' = [done EXCEPT !["ul"] = FALSE]
        /\ UNCHANGED <<base, ccs, Late, uci_buf>> /\ Works(<<"unprepare", "ul", "prepare">>)
    BY <1>6, <1>s DEF AsksReset, From
  <2>u. uci_buf = "none"
    BY <2>1, Stands, Labels DEF Core
  <2>2. Both("ENABLED", "DISABLED") /\ Late < Lates
    BY <2>1 DEF Works, GivesUp
  <2>3. Both("DISABLED", "DISABLED")'
    BY <1>t, <1>c, <2>1, <2>2 DEF Both
  <2>4. Works(pc[u])'
    BY <2>1, <2>2, <2>3 DEF Works, GivesUp
  <2>5. Rest
    <3>1. \A d \in Chans : (ch_state'[d] = "ENABLED" => base'[d]) /\ (done'[d] => ccs'[d] = "ok")
      BY <1>s, <1>t, <2>1
    <3>2. QED BY <1>n, <2>1, <2>u, <3>1 DEF Kept
  <2>6. QED BY <1>6, <1>o, <2>4, <2>5 DEF OpenStep
<1>7. ASSUME NEW u \in Users, IsReset(u) PROVE StageInv'
  <2>1. /\ pc[u] = <<"resetting", "ul", "prepare">> /\ pc'[u] = Out /\ base' = [base EXCEPT !["ul"] = FALSE]
        /\ UNCHANGED <<ch_state, done, ccs, uci_buf>> /\ Works(<<"resetting", "ul", "prepare">>)
    BY <1>7, <1>s DEF IsReset, From
  <2>u. uci_buf = "none"
    BY <2>1, Stands, Labels DEF Core
  <2>2. Both("DISABLED", "DISABLED") /\ Both("DISABLED", "DISABLED")'
    BY <2>1 DEF Works, Both
  <2>3. Rest
    <3>1. \A d \in Chans : (ch_state'[d] = "ENABLED" => base'[d]) /\ (done'[d] => ccs'[d] = "ok")
      BY <1>s, <1>t, <2>1, <2>2 DEF Both
    <3>2. QED BY <2>1, <2>2, <2>u, <3>1 DEF Kept
  <2>4. Works(pc[u])'
    BY <2>1, Idle
  <2>5. QED BY <1>7, <1>o, <2>3, <2>4 DEF OpenStep
<1>8. CASE Answers
  <2>1. UNCHANGED <<ch_state, base, Late, uci_buf, drv_lock, pc>>
    BY <1>8 DEF Answers
  <2>2. \A d \in Chans : done'[d] => ccs'[d] = "ok"
    <3>1. Head(cmds)[2] \in Chans
      <4> DEFINE Cmds == {"START", "RESET"} \X Chans
      <4>1. cmds \in Seq(Cmds) /\ cmds # <<>>
        BY <1>8, <1>t DEF Answers
      <4> HIDE DEF Cmds
      <4>2. Head(cmds) \in Cmds
        BY <4>1
      <4>3. QED BY <4>2 DEF Cmds
    <3>2. QED BY <1>8, <1>s, <1>t, <3>1 DEF Answers
  <2>3. QED BY <1>s, <2>1, <2>2 DEF StageInv, Works, Both, Kept
<1>9. CASE Elsewhere
  <2>1. UNCHANGED <<Chan, Late, uci_buf, drv_lock>>
    BY <1>9 DEF Elsewhere
  <2>2. ASSUME NEW v \in Users PROVE Works(pc[v])'
    <3>1. CASE pc'[v] = pc[v]
      BY <1>s, <2>1, <3>1 DEF Works, Both
    <3>2. CASE pc'[v] \in Files \cup {Out}
      BY <3>2, Idle
    <3>3. QED BY <1>9, <3>1, <3>2 DEF Elsewhere
  <2>3. QED BY <1>s, <2>1, <2>2 DEF StageInv, Both, Kept
<1>10. QED BY <1>1, <1>2, <1>3, <1>4, <1>5, <1>6, <1>7, <1>8, <1>9, BoundSteps DEF OpenStep

\* It holds in every state.
LEMMA StagesHold == Spec => [](Core /\ QuietInv /\ StageInv)
<1>1. Init => QuietInv
  BY UciAssumption DEF Init, QuietInv, Late
<1>2. ASSUME Init PROVE StageInv
  <2>1. \A u \in Users : Works(pc[u])
    BY <1>2, Idle DEF Init
  <2>2. Both("DISABLED", "DISABLED") /\ uci_buf = "none"
    BY <1>2 DEF Init, Both, Chans
  <2>3. \A c \in Chans : ch_state[c] = "DISABLED" /\ ~done[c]
    BY <1>2 DEF Init
  <2>4. QED BY <2>1, <2>2, <2>3 DEF StageInv, Kept
<1>3. Core /\ QuietInv /\ StageInv /\ [Next]_vars => (QuietInv /\ StageInv)'
  BY CoreStays, QuietStays, StageStays
<1>4. QED BY <1>1, <1>2, <1>3, CoreHolds, PTL DEF Spec

\* mhi_queue_transfer is reached by mhi_queue_inbound, mhi_uci_read and mhi_uci_write only while the
\* ring of the channel is allocated (between __mhi_prepare_channel and its undoing).
THEOREM QueuedIntoAllocated == Spec => QueuedIntoRings
<1>1. ASSUME Core, Core', StageInv, [Next]_vars
      PROVE  (Len(dl') > Len(dl) => base["dl"]) /\ (ul' > ul => base["ul"])
  <2>c. "ul" \in Chans /\ "dl" \in Chans
    BY DEF Chans
  <2>k. ASSUME life = "bound", Kept PROVE base["dl"] /\ base["ul"]
    BY <1>1, <2>c, <2>k DEF StageInv, Both
  <2>f. ASSUME NEW u \in Users, pc[u] \in Files PROVE Kept
    BY <1>1, <2>f, Stands DEF Kept, Core
  <2>l. ASSUME node = "listed", pm = "ok" PROVE life = "bound"
    BY <1>1, <2>l DEF Core, ErrInv
  <2>1. ASSUME Len(dl') > Len(dl) PROVE base["dl"]
    <3>1. PICK u \in Users : (Fill(u) \/ ReadEnds(u)) /\ Queued(dl)
      <4>1. Len(dl) \in Nat /\ Len(dl') \in Nat
        BY <1>1, RingTyped DEF Core
      <4>2. QED BY <1>1, <2>1, <4>1, RingStep DEF Core
    <3>p. pm = "ok"
      BY <3>1 DEF Queued
    <3>2. CASE Fill(u)
      <4>1. PICK i \in 0 .. N - 1 : pc[u] = <<"fill", i>>
        BY <3>2 DEF Fill, At
      <4>2. pc[u] \in Opening
        <5>1. i = 0 \/ i \in 1 .. N - 1
          BY UciAssumption
        <5>2. QED BY <4>1, <5>1, Labels DEF Opening
      <4>3. life = "bound"
        BY <1>1, <2>l, <3>p, <4>2, Alone
      <4>4. Works(pc[u])
        BY <1>1, <4>3 DEF StageInv
      <4>5. ch_state["dl"] = "ENABLED"
        BY <4>1, <4>4 DEF Works, Both
      <4>6. QED BY <1>1, <2>c, <4>3, <4>5 DEF StageInv
    <3>3. CASE ReadEnds(u)
      <4>1. pc[u] = <<"copy">> /\ enabled
        <5>1. pc[u] = <<"copy">>
          BY <3>3 DEF ReadEnds, At
        <5>2. ~enabled => dl' = dl
          BY <3>3 DEF ReadEnds
        <5>3. dl' # dl
          <6>1. Len(dl) \in Nat
            BY <1>1 DEF Core, TypeOK
          <6>2. QED BY <2>1, <6>1
        <5>4. QED BY <5>1, <5>2, <5>3
      <4>2. life = "bound"
        BY <1>1, <2>l, <3>p, <4>1 DEF Core, RefInv
      <4>3. QED BY <2>f, <2>k, <4>1, <4>2, Labels DEF Files
    <3>4. QED BY <3>1, <3>2, <3>3
  <2>2. ASSUME ul' > ul PROVE base["ul"]
    <3>1. \E u \in Users : WriteQueue(u) /\ ul' # ul
      <4>1. ul \in 0 .. N /\ ul' # ul /\ ul' # 0 /\ ~(ul' = ul - 1)
        <5>1. ul \in 0 .. N /\ N \in Nat
          BY <1>1, UciAssumption DEF Core, TypeOK
        <5>2. QED BY <2>2, <5>1
      <4>2. CASE \E u \in Users : \E c \in Chans : Prepare(u, c) \/ Started(u, c) \/ StartExpires(u, c)
        BY <4>1, <4>2 DEF Prepare, Started, StartExpires
      <4>3. CASE \E u \in Users, c \in Chans, why \in Whys :
             Unprepare(u, c, why) \/ ResetEnds(u, c, why) \/ ResetExpires(u, c, why)
        BY <4>1, <4>3 DEF Unprepare, ResetEnds, ResetExpires, ResetOver, ResetChan
      <4>4. CASE \E u \in Users : OpenEnter(u) \/ Fill(u) \/ WriteEnter(u) \/ WriteWake(u)
                            \/ ReadStops(u) \/ WriteStops(u) \/ Close(u) \/ ReadEnter(u) \/ ReadWake(u) \/ ReadEnds(u)
        BY <4>1, <4>4 DEF OpenEnter, Fill, WriteEnter, WriteWake, ReadStops, WriteStops, Close, ReadEnter, ReadWake, ReadEnds
      <4>5. CASE Answer \/ Receive \/ Received \/ Transmit \/ Crash \/ Removal \/ UNCHANGED vars
        BY <4>1, <4>5 DEF Answer, Receive, Received, Transmit, Crash, Removal, RemoveWake, RemoveReset, RemoveDevice, RemoveDeinit,
           ResetChan, vars
      <4>6. QED BY <1>1, <4>1, <4>2, <4>3, <4>4, <4>5 DEF Next, User, OpenGoesOn, WaitExpires, FileGoesOn
    <3>2. PICK u \in Users : WriteQueue(u) /\ ul' # ul
      BY <3>1
    <3>3. pc[u] = <<"queue">> /\ enabled /\ pm = "ok"
      BY <3>2 DEF WriteQueue, MayQueue, At
    <3>4. life = "bound"
      BY <1>1, <2>l, <3>3 DEF Core, RefInv
    <3>5. QED BY <2>f, <2>k, <3>3, <3>4, Labels
  <2>3. QED BY <2>1, <2>2
<1>2. Core /\ StageInv /\ [Next]_vars /\ Core'
      => [/\ Len(dl') > Len(dl) => base["dl"]
          /\ ul' > ul => base["ul"]]_vars
  BY <1>1
<1>3. QED BY <1>2, StagesHold, CoreHolds, PTL DEF Spec, QueuedIntoRings

-----------------------------------------------------------------------------
(* Commands.                                                               *)

\* As long as no answer has been late the only command under way is the one somebody waits for.
RestartInv ==
  life = "bound" /\ Late = Lates =>
  /\ \A c \in Chans : started[c] # "reset"
  /\ \/ cmds = <<>>
     \/ \E c \in Chans, u \in Users : cmds = <<<<"START", c>>>> /\ ~done[c] /\ At(u, <<"starting", c>>)

\* The modem has been asked only for what the open under way asks.
LEMMA RestartStays ==
  ASSUME Core, Core', [Next]_vars, StageInv, QuietInv, RestartInv
  PROVE  RestartInv'
<1> SUFFICES ASSUME life' = "bound", Late' = Lates PROVE RestartInv'
  BY DEF RestartInv
<1> USE DEF Chan, At
<1>n. NoOne \notin Users /\ Late \in Nat /\ Lates \in Nat /\ Late <= Lates
  BY UciAssumption DEF Core, TypeOK, Late, QuietInv
<1>t. done \in [Chans -> BOOLEAN] /\ started \in [Chans -> {"never", "yes", "reset"}] /\ cmds \in Seq({"START", "RESET"} \X Chans)
  BY DEF Core, TypeOK
<1>b. life = "bound"
  BY Alive
<1>l. Late' = Late \/ Late' = Late - 1
  <2>1. CASE \E u \in Users : OpenStep(u)
    BY <2>1 DEF OpenStep, Begins, Stocks, AsksReset, IsReset, Asks, Gets, Quits
  <2>2. QED BY <2>1, BoundSteps DEF Answers, Elsewhere
<1>e. Late = Lates /\ Late' = Late
  BY <1>l, <1>n
<1>r. /\ \A c \in Chans : started[c] # "reset"
      /\ \/ cmds = <<>>
         \/ \E c \in Chans, u \in Users : cmds = <<<<"START", c>>>> /\ ~done[c] /\ pc[u] = <<"starting", c>>
  BY <1>b, <1>e DEF RestartInv
<1>s. \A u \in Users : Works(pc[u])
  BY <1>b DEF StageInv
\* Somebody else cannot be waiting.
<1>w. ASSUME NEW u \in Users, drv_lock = NoOne \/ pc[u] \in Opening, \A c \in Chans : pc[u] = <<"starting", c>> => done[c]
      PROVE  cmds = <<>>
  <2>1. ASSUME NEW c \in Chans, NEW v \in Users, ~done[c], pc[v] = <<"starting", c>> PROVE FALSE
    <3>1. pc[v] \in Opening /\ pc[v] # Out
      BY <2>1, Labels DEF Opening, Out
    <3>2. drv_lock = v
      BY <3>1, Alone
    <3>3. u = v
      BY <1>n, <1>w, <3>2, Alone
    <3>4. QED BY <1>w, <2>1, <3>3
  <2>2. QED BY <1>r, <2>1
<1>1. ASSUME NEW u \in Users, Begins(u) PROVE RestartInv'
  <2>1. cmds = <<>>
    BY <1>1, <1>w, Labels DEF Begins, From, Out
  <2>2. QED BY <1>1, <1>r, <2>1 DEF Begins, RestartInv
<1>2. ASSUME NEW u \in Users, NEW c \in Chans, Asks(u, c) PROVE RestartInv'
  <2>1. pc[u] \in Opening /\ pc[u] = <<"prepare", c>>
    BY <1>2, Labels DEF Asks, From, Opening
  <2>2. cmds = <<>>
    BY <1>w, <2>1
  <2>3. cmds' = <<<<"START", c>>>>
    BY <1>2, <2>2 DEF Asks
  <2>4. done'[c] = FALSE /\ pc'[u] = <<"starting", c>> /\ started' = started
    BY <1>2, <1>t DEF Asks, From
  <2>5. QED BY <1>r, <2>3, <2>4 DEF RestartInv
<1>3. ASSUME NEW u \in Users, NEW c \in Chans, Gets(u, c) PROVE RestartInv'
  <2>1. pc[u] \in Opening /\ pc[u] = <<"starting", c>> /\ done[c]
    BY <1>3, Labels DEF Gets, From, Opening
  <2>2. cmds = <<>>
    <3>1. \A d \in Chans : pc[u] = <<"starting", d>> => done[d]
      BY <2>1
    <3>2. QED BY <1>w, <2>1, <3>1
  <2>3. QED BY <1>3, <1>r, <2>2 DEF Gets, RestartInv
<1>4. ASSUME NEW u \in Users, NEW c \in Chans, Quits(u, c) PROVE FALSE
  BY <1>4, <1>e, <1>n DEF Quits
<1>5. ASSUME NEW u \in Users, Stocks(u) PROVE RestartInv'
  <2>1. PICK i \in 0 .. N - 1 : pc[u] = <<"fill", i>>
    BY <1>5 DEF Stocks, From
  <2>2. pc[u] \in Opening
    <3>1. i = 0 \/ i \in 1 .. N - 1
      BY UciAssumption
    <3>2. QED BY <2>1, <3>1, Labels DEF Opening
  <2>3. cmds = <<>>
    BY <1>w, <2>1, <2>2
  <2>4. QED BY <1>5, <1>r, <2>3 DEF Stocks, RestartInv
<1>6. ASSUME NEW u \in Users, AsksReset(u) \/ IsReset(u) PROVE FALSE
  <2>1. pc[u] \in GivesUp
    BY <1>6 DEF AsksReset, IsReset, From, GivesUp
  <2>2. Late < Lates
    BY <1>s, <2>1 DEF Works
  <2>3. QED BY <1>e, <1>n, <2>2
<1>7. CASE Answers
  <2>1. PICK c \in Chans, u \in Users : cmds = <<<<"START", c>>>>
    BY <1>7, <1>r DEF Answers
  <2>2. Head(cmds)[1] = "START" /\ cmds' = <<>>
    BY <1>7, <2>1 DEF Answers
  <2>3. \A d \in Chans : started'[d] # "reset"
    BY <1>7, <1>r, <1>t, <2>2 DEF Answers
  <2>4. QED BY <2>2, <2>3 DEF RestartInv
<1>8. CASE Elsewhere
  <2>1. UNCHANGED Chan
    BY <1>8 DEF Elsewhere
  <2>2. ASSUME NEW v \in Users, NEW c \in Chans, pc[v] = <<"starting", c>> PROVE pc'[v] = pc[v]
    <3>1. pc[v] \notin Files \cup {Out}
      BY <2>2, Labels DEF Opening
    <3>2. QED BY <1>8, <3>1 DEF Elsewhere
  <2>3. QED BY <1>r, <2>1, <2>2 DEF RestartInv
<1>9. QED BY <1>1, <1>2, <1>3, <1>4, <1>5, <1>6, <1>7, <1>8, BoundSteps DEF OpenStep

\* That holds in every state.
LEMMA RestartsHold == Spec => [](Core /\ QuietInv /\ StageInv /\ RestartInv)
<1>1. Init => RestartInv
  BY DEF Init, RestartInv
<1>2. Core /\ QuietInv /\ StageInv /\ RestartInv /\ [Next]_vars => RestartInv'
  BY CoreStays, RestartStays
<1>3. QED BY <1>1, <1>2, StagesHold, PTL DEF Spec

\* While no command has been answered late, a channel that the modem has reset is never started
\* again ("sdx20 can not handle start-reset-start operation"): the reference that mhi_uci_open keeps
\* for itself leaves the channels started when the last file is closed.
THEOREM NeverRestarted == Spec => NoRestart
<1>1. ASSUME QuietInv, RestartInv, [Next]_vars, Late = Lates, NEW c \in Chans PROVE started[c] # "reset"
  BY <1>1 DEF QuietInv, RestartInv
<1>2. QuietInv /\ RestartInv /\ [Next]_vars
      => [budget["late"] = Lates => \A c \in Chans : started[c] = "reset" => started'[c] # "yes"]_vars
  BY <1>1 DEF Late
<1>3. QED BY <1>2, RestartsHold, PTL DEF Spec, NoRestart

\* A command that is under way.
Under(k) ==
  \/ cmds[k] = <<"START", "dl">>
  \/ cmds[k] = <<"START", "ul">> /\ \A u \in Users : pc[u] \notin GivesUp
  \/ /\ cmds[k] = <<"RESET", "ul">> /\ k = Len(cmds) /\ ~done["ul"]
     /\ \E u \in Users : At(u, <<"resetting", "ul", "prepare">>)
\* What the driver takes for started has been started.
AgreeInv ==
  life = "bound" =>
  /\ \A c \in Chans : ch_state[c] = "ENABLED" => started[c] = "yes"
  /\ \A u \in Users : \A c \in Chans : At(u, <<"starting", c>>) /\ done[c] => started[c] = "yes"
  /\ \A k \in 1 .. Len(cmds) : Under(k)

\* A completion that is there is the one waited for.
LEMMA AgreeStays ==
  ASSUME Lates <= 1, Core, Core', [Next]_vars, StageInv, QuietInv, RestartInv, AgreeInv
  PROVE  AgreeInv'
<1> SUFFICES ASSUME life' = "bound" PROVE AgreeInv'
  BY DEF AgreeInv
<1> USE DEF Chan, At
<1>n. NoOne \notin Users /\ Late \in Nat /\ Lates \in Nat /\ Late <= Lates /\ Lates <= 1
  BY UciAssumption DEF Core, TypeOK, Late, QuietInv
<1> DEFINE Cmds == {"START", "RESET"} \X Chans
<1>t. /\ done \in [Chans -> BOOLEAN] /\ started \in [Chans -> {"never", "yes", "reset"}]
      /\ ch_state \in [Chans -> {"DISABLED", "ENABLED", "SUSPENDED"}]
      /\ cmds \in Seq(Cmds) /\ Len(cmds) \in Nat
  <2>1. /\ done \in [Chans -> BOOLEAN] /\ started \in [Chans -> {"never", "yes", "reset"}]
        /\ ch_state \in [Chans -> {"DISABLED", "ENABLED", "SUSPENDED"}] /\ cmds \in Seq(Cmds)
    BY DEF Core, TypeOK
  <2> HIDE DEF Cmds
  <2>2. Len(cmds) \in Nat
    BY <2>1
  <2>3. QED BY <2>1, <2>2
<1> HIDE DEF Cmds
<1>c. "ul" \in Chans /\ "dl" \in Chans /\ \A c \in Chans : c = "ul" \/ c = "dl"
  BY DEF Chans
<1>b. life = "bound"
  BY Alive
<1>a. /\ \A c \in Chans : ch_state[c] = "ENABLED" => started[c] = "yes"
      /\ \A u \in Users : \A c \in Chans : At(u, <<"starting", c>>) /\ done[c] => started[c] = "yes"
      /\ \A k \in 1 .. Len(cmds) : Under(k)
  BY <1>b DEF AgreeInv
<1>s. \A u \in Users : Works(pc[u])
  BY <1>b DEF StageInv
\* The others.
<1>o. ASSUME NEW u \in Users, OpenStep(u), NEW v \in Users, v # u
      PROVE  pc'[v] \notin GivesUp /\ \A c \in Chans : pc'[v] # <<"starting", c>>
  <2>1. pc'[v] \in Files \cup {Out}
    BY <1>o, OthersIdle
  <2>2. QED BY <2>1 DEF Files, Reading, Out, Opened, GivesUp
<1>p. ASSUME NEW u \in Users, pc[u] # <<"resetting", "ul", "prepare">>, drv_lock = NoOne \/ pc[u] \in Opening
      PROVE  \A v \in Users : pc[v] # <<"resetting", "ul", "prepare">>
  <2>1. ASSUME NEW v \in Users, pc[v] = <<"resetting", "ul", "prepare">> PROVE FALSE
    <3>1. pc[v] \in Opening /\ pc[v] # Out
      BY <2>1, Labels DEF Opening, Out
    <3>2. drv_lock = v
      BY <3>1, Alone
    <3>3. QED BY <1>n, <1>p, <2>1, <3>2, Alone
  <2>2. QED BY <2>1
\* The same commands, and nobody gives a channel up.
<1>k. ASSUME NEW u \in Users, OpenStep(u), pc[u] # <<"resetting", "ul", "prepare">>, drv_lock = NoOne \/ pc[u] \in Opening,
             pc'[u] \notin GivesUp
      PROVE  /\ \A k \in 1 .. Len(cmds) : cmds[k] \in {<<"START", "ul">>, <<"START", "dl">>}
             /\ \A v \in Users : pc'[v] \notin GivesUp
  BY <1>a, <1>k, <1>o, <1>p DEF Under
<1>1. ASSUME NEW u \in Users, Begins(u) PROVE AgreeInv'
  <2>1. pc[u] = Out /\ pc'[u] = <<"prepare", "ul">> /\ drv_lock = NoOne /\ UNCHANGED Chan /\ OpenStep(u)
    BY <1>1 DEF Begins, From, OpenStep
  <2>2. pc'[u] \notin GivesUp /\ pc[u] # <<"resetting", "ul", "prepare">>
    BY <2>1 DEF GivesUp, Out
  <2>3. \A k \in 1 .. Len(cmds') : Under(k)'
    BY <1>k, <2>1, <2>2 DEF Under
  <2>4. QED BY <1>a, <1>o, <2>1, <2>3 DEF AgreeInv
<1>2. ASSUME NEW u \in Users, NEW c \in Chans, Asks(u, c) PROVE AgreeInv'
  <2>1. /\ pc[u] = <<"prepare", c>> /\ pc'[u] = <<"starting", c>> /\ OpenStep(u) /\ UNCHANGED <<ch_state, started>>
        /\ done' = [done EXCEPT ![c] = FALSE] /\ cmds' = Append(cmds, <<"START", c>>)
    BY <1>2 DEF Asks, From, OpenStep
  <2>o. pc[u] \in Opening
    BY <2>1, Labels DEF Opening
  <2>2. pc'[u] \notin GivesUp /\ pc[u] # <<"resetting", "ul", "prepare">> /\ pc[u] \in Opening
    BY <2>1, <2>o DEF GivesUp
  <2>3. /\ \A k \in 1 .. Len(cmds) : cmds[k] \in {<<"START", "ul">>, <<"START", "dl">>}
        /\ \A v \in Users : pc'[v] \notin GivesUp
    BY <1>k, <2>1, <2>2
  <2>4. ASSUME NEW k \in 1 .. Len(cmds') PROVE cmds'[k] \in {<<"START", "ul">>, <<"START", "dl">>}
    <3>1. <<"START", c>> \in Cmds
      BY DEF Cmds
    <3>2. Len(cmds') = Len(cmds) + 1 /\ cmds'[Len(cmds) + 1] = <<"START", c>>
          /\ \A j \in 1 .. Len(cmds) : cmds'[j] = cmds[j]
      BY <1>t, <2>1, <3>1
    <3>3. k \in 1 .. Len(cmds) \/ k = Len(cmds) + 1
      BY <1>t, <3>2
    <3>4. QED BY <1>c, <2>3, <3>2, <3>3
  <2>5. \A k \in 1 .. Len(cmds') : Under(k)'
    BY <2>3, <2>4 DEF Under
  <2>6. ASSUME NEW v \in Users, NEW d \in Chans, pc'[v] = <<"starting", d>>, done'[d] PROVE FALSE
    <3>1. v = u
      BY <1>o, <2>1, <2>6
    <3>2. QED BY <1>t, <2>1, <2>6, <3>1
  <2>7. QED BY <1>a, <2>1, <2>5, <2>6 DEF AgreeInv
<1>3. ASSUME NEW u \in Users, NEW c \in Chans, Gets(u, c) PROVE AgreeInv'
  <2>1. /\ pc[u] = <<"starting", c>> /\ pc'[u] = (IF c = "ul" THEN <<"prepare", "dl">> ELSE <<"fill", 0>>)
        /\ OpenStep(u) /\ UNCHANGED <<started, done, cmds>> /\ done[c] /\ ch_state' = [ch_state EXCEPT ![c] = "ENABLED"]
    BY <1>3 DEF Gets, From, OpenStep
  <2>o. pc[u] \in Opening
    BY <2>1, Labels DEF Opening
  <2>2. pc'[u] \notin GivesUp /\ pc[u] # <<"resetting", "ul", "prepare">> /\ pc[u] \in Opening
        /\ \A d \in Chans : pc'[u] # <<"starting", d>>
    BY <2>1, <2>o DEF GivesUp
  <2>3. \A k \in 1 .. Len(cmds') : Under(k)'
    BY <1>k, <2>1, <2>2 DEF Under
  <2>4. \A d \in Chans : ch_state'[d] = "ENABLED" => started'[d] = "yes"
    BY <1>a, <1>t, <2>1
  <2>5. QED BY <1>o, <2>1, <2>2, <2>3, <2>4 DEF AgreeInv
<1>4. ASSUME NEW u \in Users, NEW c \in Chans, Quits(u, c) PROVE AgreeInv'
  <2>1. /\ pc[u] = <<"starting", c>> /\ pc'[u] = (IF c = "ul" THEN Out ELSE <<"unprepare", "ul", "prepare">>)
        /\ OpenStep(u) /\ UNCHANGED <<ch_state, started, done, cmds>> /\ Late > 0
    BY <1>4 DEF Quits, From, OpenStep
  <2>2. Late = Lates
    BY <1>n, <2>1
  <2>3. \A d \in Chans : pc'[u] # <<"starting", d>>
    BY <2>1 DEF Out
  <2>4. \A k \in 1 .. Len(cmds) : cmds[k] = <<"START", c>>
    <3>1. \/ cmds = <<>>
          \/ \E d \in Chans, v \in Users : cmds = <<<<"START", d>>>> /\ ~done[d] /\ pc[v] = <<"starting", d>>
      BY <1>b, <2>2 DEF RestartInv
    <3>2. CASE cmds = <<>>
      BY <3>2, EmptySeq
    <3>3. ASSUME NEW d \in Chans, NEW v \in Users, cmds = <<<<"START", d>>>>, pc[v] = <<"starting", d>>
          PROVE  \A k \in 1 .. Len(cmds) : cmds[k] = <<"START", c>>
      <4>1. pc[u] \in Opening /\ pc[v] # Out
        BY <2>1, <3>3, Labels DEF Opening, Out
      <4>2. v = u
        BY <4>1, Alone
      <4>3. d = c
        BY <2>1, <3>3, <4>2
      <4>4. QED BY <3>3, <4>3
    <3>4. QED BY <3>1, <3>2, <3>3
  <2>5. \A k \in 1 .. Len(cmds') : Under(k)'
    <3>1. CASE c = "dl"
      BY <2>1, <2>4, <3>1 DEF Under
    <3>2. CASE c = "ul"
      <4>1. \A v \in Users : pc'[v] \notin GivesUp
        BY <1>o, <2>1, <3>2 DEF GivesUp, Out
      <4>2. QED BY <2>1, <2>4, <3>2, <4>1 DEF Under
    <3>3. QED BY <1>c, <3>1, <3>2
  <2>6. QED BY <1>a, <1>o, <2>1, <2>3, <2>5 DEF AgreeInv
<1>5. ASSUME NEW u \in Users, Stocks(u) PROVE AgreeInv'
  <2>1. PICK i \in 0 .. N - 1 : pc[u] = <<"fill", i>> /\ (pc'[u] = Opened \/ pc'[u] = <<"fill", i + 1>>)
    BY <1>5 DEF Stocks, From
  <2>2. UNCHANGED Chan /\ OpenStep(u)
    BY <1>5 DEF Stocks, OpenStep
  <2>3. pc[u] \in Opening
    <3>1. i = 0 \/ i \in 1 .. N - 1
      BY UciAssumption
    <3>2. QED BY <2>1, <3>1, Labels DEF Opening
  <2>4. pc'[u] \notin GivesUp /\ pc[u] # <<"resetting", "ul", "prepare">> /\ \A d \in Chans : pc'[u] # <<"starting", d>>
    BY <1>c, <2>1 DEF GivesUp, Opened, Chans
  <2>5. \A k \in 1 .. Len(cmds') : Under(k)'
    BY <1>k, <2>2, <2>3, <2>4 DEF Under
  <2>6. QED BY <1>a, <1>o, <2>2, <2>4, <2>5 DEF AgreeInv
<1>6. ASSUME NEW u \in Users, AsksReset(u) PROVE AgreeInv'
  <2>1. /\ pc[u] = <<"unprepare", "ul", "prepare">> /\ pc'[u] = <<"resetting", "ul", "prepare">> /\ OpenStep(u)
        /\ ch_state' = [ch_state EXCEPT !["ul"] = "DISABLED"] /\ done' = [done EXCEPT !["ul"] = FALSE]
        /\ cmds' = Append(cmds, <<"RESET", "ul">>) /\ started' = started
    BY <1>6 DEF AsksReset, From, OpenStep
  <2>2. pc[u] # <<"resetting", "ul", "prepare">> /\ pc[u] \in Opening /\ pc[u] \in GivesUp
    BY <2>1, Labels DEF GivesUp, Opening
  <2>3. \A k \in 1 .. Len(cmds) : cmds[k] = <<"START", "dl">>
    BY <1>a, <1>p, <2>2 DEF Under
  <2>4. ASSUME NEW k \in 1 .. Len(cmds') PROVE Under(k)'
    <3>1. <<"RESET", "ul">> \in Cmds
      BY <1>c DEF Cmds
    <3>2. Len(cmds') = Len(cmds) + 1 /\ cmds'[Len(cmds) + 1] = <<"RESET", "ul">>
          /\ \A j \in 1 .. Len(cmds) : cmds'[j] = cmds[j]
      BY <1>t, <2>1, <3>1
    <3>3. k \in 1 .. Len(cmds) \/ k = Len(cmds) + 1
      BY <1>t, <3>2
    <3>4. ~done'["ul"]
      BY <1>c, <1>t, <2>1
    <3>5. QED BY <2>1, <2>3, <3>2, <3>3, <3>4 DEF Under
  <2>5. \A d \in Chans : ch_state'[d] = "ENABLED" => started'[d] = "yes"
    BY <1>a, <1>t, <2>1
  <2>6. \A d \in Chans : pc'[u] # <<"starting", d>>
    BY <2>1
  <2>7. QED BY <1>o, <2>1, <2>4, <2>5, <2>6 DEF AgreeInv
<1>7. ASSUME NEW u \in Users, IsReset(u) PROVE AgreeInv'
  <2>1. /\ pc[u] = <<"resetting", "ul", "prepare">> /\ pc'[u] = Out /\ OpenStep(u)
        /\ UNCHANGED <<ch_state, done, cmds, started>> /\ (done["ul"] \/ Late > 0)
    BY <1>7 DEF IsReset, From, OpenStep
  <2>2. done["ul"]
    <3>1. Late < Lates
      BY <1>s, <2>1 DEF Works, GivesUp
    <3>2. QED BY <1>n, <2>1, <3>1
  <2>3. \A k \in 1 .. Len(cmds) : cmds[k] \in {<<"START", "ul">>, <<"START", "dl">>}
    BY <1>a, <2>2 DEF Under
  <2>4. pc'[u] \notin GivesUp /\ \A d \in Chans : pc'[u] # <<"starting", d>>
    BY <2>1 DEF GivesUp, Out
  <2>5. \A k \in 1 .. Len(cmds') : Under(k)'
    BY <1>o, <2>1, <2>3, <2>4 DEF Under
  <2>6. QED BY <1>a, <1>o, <2>1, <2>4, <2>5 DEF AgreeInv
<1>8. CASE Answers
  <2>1. cmds # <<>> /\ cmds' = Tail(cmds) /\ UNCHANGED <<ch_state, pc>>
    BY <1>8 DEF Answers
  <2>2. Len(cmds) > 0 /\ Head(cmds) = cmds[1] /\ Len(cmds') = Len(cmds) - 1
        /\ \A k \in 1 .. Len(cmds') : cmds'[k] = cmds[k + 1]
    BY <1>t, <2>1
  <2>3. Under(1) /\ 1 \in 1 .. Len(cmds)
    BY <1>a, <1>t, <2>2
  <2> DEFINE h == Head(cmds)
  <2>4. \/ h = <<"START", "dl">> \/ h = <<"START", "ul">>
        \/ h = <<"RESET", "ul">> /\ Len(cmds) = 1 /\ \E u \in Users : pc[u] = <<"resetting", "ul", "prepare">>
    BY <2>2, <2>3 DEF Under
  <2>5. /\ done' = [done EXCEPT ![h[2]] = TRUE]
        /\ started' = [started EXCEPT ![h[2]] = IF h[1] = "START" THEN "yes" ELSE "reset"]
    BY <1>8 DEF Answers
  <2> HIDE DEF h
  <2>6. CASE h = <<"START", "dl">> \/ h = <<"START", "ul">>
    <3>1. h[1] = "START" /\ h[2] \in Chans
      BY <1>c, <2>6
    <3>2. \A c \in Chans : started'[c] = IF c = h[2] THEN "yes" ELSE started[c]
      BY <1>t, <2>5, <3>1
    <3>3. \A c \in Chans : c # h[2] => done'[c] = done[c]
      BY <1>t, <2>5, <3>1
    <3>4. ASSUME NEW k \in 1 .. Len(cmds') PROVE Under(k)'
      <4>1. k + 1 \in 1 .. Len(cmds) /\ cmds'[k] = cmds[k + 1] /\ (k + 1 = Len(cmds) => k = Len(cmds'))
        BY <1>t, <2>2
      <4>2. Under(k + 1)
        BY <1>a, <4>1
      <4>3. CASE cmds[k + 1] = <<"RESET", "ul">>
        <5>1. k + 1 = Len(cmds) /\ ~done["ul"] /\ \E u \in Users : pc[u] = <<"resetting", "ul", "prepare">>
          BY <4>2, <4>3 DEF Under
        <5>2. h # <<"START", "ul">>
          <6>1. h = cmds[1]
            BY <2>2 DEF h
          <6>2. ASSUME h = <<"START", "ul">> PROVE FALSE
            <7>1. \A u \in Users : pc[u] \notin GivesUp
              BY <2>3, <6>1, <6>2 DEF Under
            <7>2. QED BY <5>1, <7>1 DEF GivesUp
          <6>3. QED BY <6>2
        <5>3. ~done'["ul"]
          BY <1>c, <2>6, <3>3, <5>1, <5>2
        <5>4. QED BY <2>1, <4>1, <4>3, <5>1, <5>3 DEF Under
      <4>4. CASE cmds[k + 1] # <<"RESET", "ul">>
        BY <2>1, <4>1, <4>2, <4>4 DEF Under
      <4>5. QED BY <4>3, <4>4
    <3>5. QED BY <1>a, <2>1, <3>2, <3>3, <3>4 DEF AgreeInv
  <2>7. CASE h = <<"RESET", "ul">> /\ Len(cmds) = 1 /\ \E u \in Users : pc[u] = <<"resetting", "ul", "prepare">>
    <3>1. Len(cmds') = 0
      BY <2>2, <2>7
    <3>2. PICK u \in Users : pc[u] = <<"resetting", "ul", "prepare">>
      BY <2>7
    <3>3. Both("DISABLED", "DISABLED")
      BY <1>s, <3>2 DEF Works
    <3>4. \A c \in Chans : ch_state'[c] # "ENABLED"
      BY <1>c, <2>1, <3>3 DEF Both
    <3>5. \A v \in Users : \A c \in Chans : pc'[v] # <<"starting", c>>
      <4>1. pc[u] \in Opening
        BY <3>2, Labels DEF Opening
      <4>2. \A v \in Users : v # u => pc[v] = Out
        BY <4>1, Alone
      <4>3. QED BY <2>1, <3>2, <4>2 DEF Out
    <3>6. QED BY <3>1, <3>4, <3>5 DEF AgreeInv
  <2>8. QED BY <2>4, <2>6, <2>7
<1>9. CASE Elsewhere
  <2>1. UNCHANGED Chan
    BY <1>9 DEF Elsewhere
  <2>2. ASSUME NEW v \in Users
        PROVE  \A l \in GivesUp \cup ({"starting"} \X Chans) : pc'[v] = l <=> pc[v] = l
    <3>1. \A l \in GivesUp \cup ({"starting"} \X Chans) : l \notin Files \cup {Out}
      BY DEF GivesUp, Files, Reading, Out, Opened
    <3>2. pc'[v] = pc[v] \/ {pc[v], pc'[v]} \subseteq Files \cup {Out}
      BY <1>9 DEF Elsewhere
    <3>3. QED BY <3>1, <3>2
  <2>3. \A v \in Users : (pc'[v] \in GivesUp <=> pc[v] \in GivesUp)
                         /\ (pc'[v] = <<"resetting", "ul", "prepare">> <=> pc[v] = <<"resetting", "ul", "prepare">>)
                         /\ \A c \in Chans : pc'[v] = <<"starting", c>> <=> pc[v] = <<"starting", c>>
    BY <2>2 DEF GivesUp
  <2>4. \A k \in 1 .. Len(cmds') : Under(k)'
    BY <1>a, <2>1, <2>3 DEF Under
  <2>5. QED BY <1>a, <2>1, <2>3, <2>4 DEF AgreeInv
<1>10. QED BY <1>1, <1>2, <1>3, <1>4, <1>5, <1>6, <1>7, <1>8, <1>9, BoundSteps DEF OpenStep

\* With at most one late answer, a channel is ENABLED only after the modem has started it: the
\* completion that __mhi_prepare_channel takes is not that of an earlier command.  A second late
\* answer can be taken for another's.
THEOREM EnabledIsStarted == ASSUME Lates <= 1 PROVE Spec => []ChannelsAgree
<1>1. ASSUME Init PROVE AgreeInv
  <2>1. Len(cmds) = 0
    BY <1>1, EmptySeq DEF Init
  <2>2. QED BY <1>1, <2>1 DEF Init, AgreeInv, At, Out
<1>2. Core /\ QuietInv /\ StageInv /\ RestartInv /\ AgreeInv /\ [Next]_vars => AgreeInv'
  BY CoreStays, AgreeStays
<1>3. AgreeInv => ChannelsAgree
  BY DEF AgreeInv, ChannelsAgree
<1>4. QED BY <1>1, <1>2, <1>3, RestartsHold, PTL DEF Spec

-----------------------------------------------------------------------------
(* What a step makes of the packets and of the buffers.                    *)

\* Once the buffers are there and the first open is done they are kept.
LEMMA KeptLasts ==
  ASSUME Core, [Next]_vars, Kept
  PROVE  Kept'
<1> USE DEF files, locks, device
<1>1. ASSUME drv_lock' \in {drv_lock, NoOne}, uci_buf' \in {uci_buf, "there", "freed", "twice"} PROVE Kept'
  BY <1>1 DEF Kept
<1>2. ASSUME NEW u \in Users, OpenEnter(u) PROVE Kept'
  <2>1. ref_count # 0
    <3>1. node = "listed"
      BY <1>2 DEF OpenEnter
    <3>2. Cardinality(Inside) \in Nat
      BY Heads0
    <3>3. QED BY <3>1, <3>2 DEF Core, RefInv
  <2>2. QED BY <1>2, <2>1, <1>1 DEF OpenEnter
<1>3. CASE \E u \in Users : \E c \in Chans : Prepare(u, c) \/ Started(u, c) \/ StartExpires(u, c)
  BY <1>1, <1>3 DEF Prepare, Started, StartExpires, PrepareFailed, OpenLeave
<1>4. ASSUME NEW u \in Users, NEW c \in Chans, NEW why \in Whys, Unprepared(u, c, why) PROVE Kept'
  BY <1>1, <1>4 DEF Unprepared, OpenLeave, FreeBuffers, Whys, Chans
<1>5. CASE \E u \in Users, c \in Chans, why \in Whys : Unprepare(u, c, why) \/ ResetEnds(u, c, why) \/ ResetExpires(u, c, why)
  BY <1>1, <1>4, <1>5 DEF Unprepare, ResetEnds, ResetExpires, ResetOver
<1>6. CASE \E u \in Users : Fill(u)
  BY <1>1, <1>6 DEF Fill, Filled, OpenLeave
<1>7. CASE \E u \in Users : Close(u)
  BY <1>1, <1>7 DEF Close, FreeBuffers
<1>8. CASE \E u \in Users : ReadEnter(u) \/ WriteEnter(u) \/ FileGoesOn(u) \/ ReadStops(u) \/ WriteStops(u)
  BY <1>1, <1>8 DEF ReadEnter, WriteEnter, FileGoesOn, ReadWake, ReadEnds, WriteWake, WriteQueue, ReadStops, WriteStops
<1>9. CASE Answer \/ Receive \/ Received \/ Transmit \/ Crash \/ Removal \/ UNCHANGED vars
  BY <1>1, <1>9 DEF Answer, Receive, Received, Transmit, Crash, Removal, RemoveWake, RemoveReset, RemoveDevice, RemoveDeinit, vars
<1>10. QED BY <1>2, <1>3, <1>5, <1>6, <1>7, <1>8, <1>9 DEF Next, User, OpenGoesOn, WaitExpires

\* How they come to be kept while the modem lives.
LEMMA KeptBegins ==
  ASSUME Core, [Next]_vars, StageInv, life' = "bound", Kept', ~Kept
  PROVE  \E u \in Users : Stocks(u) /\ pc'[u] = Opened
<1>n. NoOne \notin Users
  BY UciAssumption
<1>1. ASSUME NEW u \in Users, OpenStep(u), ~Stocks(u) PROVE FALSE
  <2>1. uci_buf' = uci_buf
    BY <1>1 DEF OpenStep, Begins, AsksReset, IsReset, Asks, Gets, Quits
  <2>2. uci_buf = "none"
    <3>1. CASE pc[u] \in Bare
      BY <3>1, Stands DEF Core
    <3>2. CASE Begins(u)
      BY <3>2 DEF Begins
    <3>3. QED BY <1>1, <3>1, <3>2, Labels DEF OpenStep, AsksReset, IsReset, Asks, Gets, Quits, From
  <2>3. QED BY <2>1, <2>2 DEF Kept
<1>2. ASSUME NEW u \in Users, Stocks(u), pc'[u] # Opened PROVE FALSE
  BY <1>2, <1>n DEF Stocks, From, Kept
<1>3. CASE Answers \/ Elsewhere
  BY <1>3 DEF Answers, Elsewhere, Kept
<1>4. QED BY <1>1, <1>2, <1>3, BoundSteps

\* Packets have come, have been read.
Hist == <<sent, arrived, taken>>

\* After the receive ring has been emptied by the removal it stays empty; nothing waits before the
\* first open is done.
EmptyInv == life \notin {"bound", "wake_dl", "reset_dl"} => dl = <<>>
FreshInv == ~Kept => pending = <<>> /\ cur_buf = Nothing /\ \A k \in 1 .. Len(dl) : dl[k].pkt = 0

\* Nobody starts to copy.
NoneCopies == \A v \in Users : pc'[v] = <<"copy">> => pc[v] = <<"copy">>
\* A buffer is queued by the first open.
Puts(u, i) ==
  /\ life = "bound" /\ pc[u] = <<"fill", i>> /\ ~Kept
  /\ dl' = Append(dl, [buf |-> i, pkt |-> 0]) /\ nr_trb' = (IF i = 0 THEN 0 ELSE nr_trb)
  /\ UNCHANGED <<rx_error, pending, cur_buf, life, Hist>> /\ NoneCopies
  /\ IF i = N - 1 THEN pc'[u] = Opened ELSE pc'[u] = <<"fill", i + 1>> /\ ~Kept'
\* A reader takes the next packet.
Takes(u) ==
  /\ Kept /\ cur_buf = Nothing /\ pending # <<>> /\ cur_buf' = Head(pending) /\ pending' = Tail(pending)
  /\ UNCHANGED <<dl, rx_error, nr_trb, life, Hist>>
\* The ring is emptied by a reset after an error.
Empties ==
  /\ dl' = <<>> /\ Counted(dl) /\ UNCHANGED <<pending, cur_buf, Hist>> /\ life' # "bound" /\ NoneCopies
\* The last file of a removed device is closed.
Frees ==
  /\ cur_buf' = Nothing /\ life # "bound" /\ \A v \in Users : pc'[v] = Out
  /\ UNCHANGED <<dl, pending, rx_error, nr_trb, life, Hist>>
\* Nothing happens to the packets.
Rests ==
  /\ UNCHANGED <<dl, pending, cur_buf, rx_error, Hist>>
  /\ nr_trb' = nr_trb \/ (dl = <<>> /\ ~Kept /\ life' # "bound")
  /\ life' = "bound" /\ Kept' => Kept
  /\ life' \notin {"bound", "wake_dl", "reset_dl"} => life \notin {"bound", "wake_dl", "reset_dl"}
  /\ \A v \in Users : pc'[v] = <<"copy">> => pc[v] = <<"copy">> \/ cur_buf # Nothing
DataStep ==
  \/ \E u \in Users : \E i \in 0 .. N - 1 : Puts(u, i)
  \/ \E u \in Users : Takes(u)
  \/ \E u \in Users : ReadEnds(u) /\ Kept /\ NoneCopies /\ life' = life
  \/ Receive /\ (Kept \/ early') /\ NoneCopies /\ life' = life /\ life = "bound"
  \/ Received /\ NoneCopies /\ life' = life
  \/ Empties \/ Frees \/ Rests
\* The same while the modem does what mhi_dl_xfer_cb counts on.
TameStep ==
  \/ \E u \in Users : \E i \in 0 .. N - 1 : Puts(u, i)
  \/ \E u \in Users : Takes(u)
  \/ \E u \in Users : ReadEnds(u) /\ Kept /\ NoneCopies /\ life' = life
  \/ Receive /\ Kept /\ NoneCopies /\ life' = life /\ life = "bound"
  \/ Received /\ Kept /\ NoneCopies /\ life' = life
  \/ Empties \/ Frees \/ Rests

\* The rings are reset only when the device is not bound any more, or the transmit ring.
LEMMA ResetStep ==
  ASSUME Core, Core', [Next]_vars, StageInv, NEW u \in Users, NEW c \in Chans, NEW why \in Whys,
         Unprepare(u, c, why) \/ ResetEnds(u, c, why) \/ ResetExpires(u, c, why)
  PROVE  Empties \/ Rests
<1> USE DEF At, files, locks, device, channels, modem, order, inbox
<1>t. TypeOK /\ LockInv
  BY DEF Core
<1>1. (c = "ul" /\ why = "prepare") \/ (why = "fill" /\ At(u, <<"unprepare", c, why>>))
  BY <1>t, Ways DEF Unprepare, ResetEnds, ResetExpires
<1>2. \/ Unprepared(u, c, why) /\ (ResetChan(c) \/ UNCHANGED <<dl, ul, order>>)
      \/ UNCHANGED <<dl, ul, order, cur_buf, locks, uci_buf>> /\ Goto(u, <<"resetting", c, why>>)
  BY DEF Unprepare, ResetEnds, ResetExpires, ResetOver
<1>3. UNCHANGED <<pending, sent, arrived, taken, life>>
  BY DEF Unprepare, ResetEnds, ResetExpires, ResetOver
<1>4. cur_buf' = cur_buf
  BY <1>1, <1>2, Undo
<1>5. NoneCopies
  <2>1. \E l \in {Out, <<"unprepare", "ul", "fill">>, <<"resetting", c, why>>} : Goto(u, l)
    BY <1>1, <1>2, Undo DEF OpenLeave
  <2>2. QED BY <1>t, <2>1, Moves DEF NoneCopies, Out
<1>6. CASE UNCHANGED <<dl, order>>
  <2>1. life' = "bound" /\ Kept' => Kept
    <3>1. ASSUME life' = "bound", Kept', ~Kept PROVE FALSE
      <4>1. PICK v \in Users : Stocks(v) /\ pc'[v] = Opened
        BY <3>1, KeptBegins
      <4>2. pc'[v] # pc[v]
        BY <4>1 DEF Stocks, From, Opened
      <4>3. \E l \in {Out, <<"unprepare", "ul", "fill">>, <<"resetting", c, why>>} : Goto(u, l)
        BY <1>1, <1>2, Undo DEF OpenLeave
      <4>4. QED BY <1>t, <4>1, <4>2, <4>3, Moves DEF Out, Opened
    <3>2. QED BY <3>1
  <2>2. QED BY <1>3, <1>4, <1>5, <1>6, <2>1 DEF Rests, NoneCopies, Hist
<1>7. CASE ResetChan(c) /\ c = "dl"
  <2>1. life # "bound"
    <3>1. pc[u] = <<"unprepare", "dl", "fill">>
      BY <1>1, <1>7
    <3>2. pm = "err"
      BY <3>1, Labels DEF Core, ErrInv, Chans
    <3>3. QED BY <3>2 DEF Core, ErrInv
  <2>2. QED BY <1>3, <1>4, <1>5, <1>7, <2>1 DEF Empties, ResetChan, Hist
<1>8. CASE ResetChan(c) /\ c # "dl"
  BY <1>6, <1>8 DEF ResetChan
<1>9. QED BY <1>2, <1>6, <1>7, <1>8

\* Every step is one of these.
LEMMA DataSteps ==
  ASSUME Core, Core', [Next]_vars, StageInv, EmptyInv
  PROVE  copying' = copying /\ (life' = "bound" => life = "bound") /\ (Kept => Kept') /\ DataStep
<1> USE DEF At, files, locks, device, channels, modem, order, inbox
<1>t. TypeOK /\ LockInv /\ RefInv /\ ErrInv
  BY DEF Core
<1>m. ASSUME NEW u \in Users, NEW l, Goto(u, l) PROVE pc'[u] = l /\ \A v \in Users : v # u => pc'[v] = pc[v]
  BY <1>t, <1>m, Moves
<1>b. life' = "bound" => life = "bound"
  BY Alive
<1>k. Kept => Kept'
  BY KeptLasts
<1>p. ASSUME life' = "bound", Kept', ~Kept
      PROVE  \E u \in Users : pc[u] # Opened /\ pc'[u] = Opened /\ pc[u] \notin Files
  <2>1. PICK u \in Users : Stocks(u) /\ pc'[u] = Opened
    BY <1>p, KeptBegins
  <2>2. PICK i \in 0 .. N - 1 : pc[u] = <<"fill", i>>
    BY <2>1 DEF Stocks, From
  <2>3. pc[u] \notin Files
    BY <2>2 DEF Files, Reading, Opened
  <2>4. QED BY <2>1, <2>2, <2>3 DEF Opened
<1>f. ASSUME NEW u \in Users, pc[u] \in Files PROVE Kept
  BY <1>f, <1>t, Stands DEF Kept
<1>1. ASSUME NEW u \in Users, NEW c \in Chans, Prepare(u, c) \/ Started(u, c) \/ StartExpires(u, c) PROVE Rests
  <2>1. UNCHANGED <<dl, pending, cur_buf, rx_error, nr_trb, Hist, life>>
    BY <1>1 DEF Prepare, Started, StartExpires, Hist
  <2>2. \E l : Goto(u, l) /\ l # <<"copy">> /\ l # Opened
    BY <1>1 DEF Prepare, Started, StartExpires, PrepareFailed, OpenLeave, Out, Opened
  <2>3. life' = "bound" /\ Kept' => Kept
    <3>1. ASSUME life' = "bound", Kept', ~Kept PROVE FALSE
      BY <1>m, <1>p, <2>2, <3>1
    <3>2. QED BY <3>1
  <2>4. QED BY <1>m, <2>1, <2>2, <2>3 DEF Rests
<1>2. ASSUME NEW u \in Users, OpenEnter(u) PROVE Rests
  <2>1. UNCHANGED <<dl, pending, cur_buf, rx_error, nr_trb, Hist, life, uci_buf>> /\ drv_lock = NoOne
    BY <1>2 DEF OpenEnter, Hist
  <2>2. \E l : Goto(u, l) /\ l # <<"copy">>
    BY <1>2 DEF OpenEnter, Opened
  <2>3. QED BY <1>m, <2>1, <2>2 DEF Rests, Kept
<1>3. ASSUME NEW u \in Users, Fill(u) PROVE Rests \/ \E i \in 0 .. N - 1 : Puts(u, i)
  <2>n. N \in Nat \ {0} /\ NoOne \notin Users
    BY UciAssumption
  <2>1. PICK i \in 0 .. N - 1 :
          /\ pc[u] = <<"fill", i>> /\ UNCHANGED <<rx_error, pending, cur_buf, life, Hist>>
          /\ uci_buf' = (IF uci_buf = "none" THEN "there" ELSE uci_buf)
          /\ nr_trb' = (IF uci_buf = "none" THEN 0 ELSE nr_trb)
          /\ \/ ~Queued(dl) /\ Goto(u, <<"unprepare", "dl", "fill">>) /\ dl' = dl /\ drv_lock' = drv_lock
             \/ /\ Queued(dl) /\ dl' = Append(dl, [buf |-> i, pkt |-> 0])
                /\ IF i = N - 1 THEN Filled(u) ELSE Goto(u, <<"fill", i + 1>>) /\ drv_lock' = drv_lock
    BY <1>3 DEF Fill, Hist
  <2>2. pc[u] \in Opening /\ (i = 0 => pc[u] \in Bare) /\ (i # 0 => pc[u] \in Stocked)
    <3>1. i = 0 \/ i \in 1 .. N - 1
      BY <2>n
    <3>2. QED BY <2>1, <3>1, Labels DEF Opening
  <2>3. drv_lock = u /\ ~Kept /\ (uci_buf = "none" <=> i = 0)
    BY <1>t, <2>2, <2>n, Alone, Stands DEF Kept
  <2>4. CASE Queued(dl)
    <3>1. life = "bound"
      BY <1>t, <2>2, <2>4, Alone DEF Queued, ErrInv
    <3>2. \E l : Goto(u, l) /\ l # <<"copy">> /\ l = (IF i = N - 1 THEN Opened ELSE <<"fill", i + 1>>)
      BY <2>1, <2>4 DEF Filled, OpenLeave, Opened
    <3>3. NoneCopies
      BY <1>m, <3>2 DEF NoneCopies
    <3>4. i # N - 1 => ~Kept'
      BY <2>n, <2>1, <2>3, <2>4 DEF Kept
    <3>5. nr_trb' = (IF i = 0 THEN 0 ELSE nr_trb)
      BY <2>1, <2>3
    <3>6. pc'[u] = (IF i = N - 1 THEN Opened ELSE <<"fill", i + 1>>)
      BY <1>m, <3>2
    <3>7. UNCHANGED <<rx_error, pending, cur_buf, life, Hist>> /\ dl' = Append(dl, [buf |-> i, pkt |-> 0])
      BY <2>1, <2>4
    <3>8. Puts(u, i)
      BY <2>1, <2>3, <3>1, <3>3, <3>4, <3>5, <3>6, <3>7 DEF Puts
    <3>9. QED BY <3>8
  <2>5. CASE ~Queued(dl)
    <3>1. Len(dl) <= i /\ Len(dl) \in Nat /\ pm \in {"ok", "err"}
      BY <1>t, <2>1 DEF ErrInv, TypeOK
    <3>2. pm = "err"
      BY <2>n, <2>5, <3>1 DEF Queued
    <3>3. life' # "bound"
      BY <1>b, <1>t, <3>2 DEF ErrInv
    <3>4. i = 0 => dl = <<>>
      BY <1>t, <2>3 DEF ErrInv
    <3>5. NoneCopies
      BY <1>m, <2>1, <2>5 DEF NoneCopies
    <3>6. QED BY <2>1, <2>3, <2>5, <3>3, <3>4, <3>5 DEF Rests, NoneCopies
  <2>6. QED BY <2>4, <2>5
<1>4. ASSUME NEW u \in Users, Close(u) PROVE Rests \/ Frees
  <2>1. UNCHANGED <<dl, pending, rx_error, nr_trb, Hist, life, drv_lock>> /\ Kept /\ Goto(u, Out)
    BY <1>4, <1>t, Closes DEF Close, Hist, Kept
  <2>2. CASE cur_buf' = cur_buf
    BY <1>m, <2>1, <2>2 DEF Rests, Out
  <2>3. CASE cur_buf' # cur_buf
    <3>1. cur_buf' = Nothing /\ ref_count = 1 /\ ~enabled
      BY <1>4, <1>t, <2>3, Closes
    <3>2. life # "bound" /\ node # "listed"
      BY <1>t, <3>1 DEF ErrInv, RefInv
    <3>3. Cardinality(Inside) = 1
      BY <1>t, <3>1, <3>2, Heads0 DEF RefInv
    <3>4. u \in Inside
      BY <1>4, <1>t, Closes
    <3>5. Inside = {u}
      <4>1. Cardinality(Inside \ {u}) = 0
        BY <3>3, <3>4, Count
      <4>2. Inside \ {u} = {}
        BY <4>1, Heads0, FS_RemoveElement, FS_EmptySet
      <4>3. QED BY <3>4, <4>2
    <3>6. \A v \in Users : pc'[v] = Out
      BY <1>m, <2>1, <3>5 DEF Inside
    <3>7. QED BY <2>1, <3>1, <3>2, <3>6 DEF Frees
  <2>4. QED BY <2>2, <2>3
<1>5. ASSUME NEW u \in Users, ReadEnter(u) \/ ReadWake(u) PROVE Rests \/ Takes(u)
  <2>1. UNCHANGED <<dl, rx_error, nr_trb, Hist, life>> /\ pc[u] \in Files
    BY <1>5 DEF ReadEnter, ReadWake, Hist, Files, Reading
  <2>2. Kept
    BY <1>f, <2>1
  <2>3. CASE UNCHANGED inbox /\ (cur_buf # Nothing \/ \E l : l # <<"copy">> /\ Goto(u, l))
    BY <1>m, <2>1, <2>2, <2>3 DEF Rests
  <2>4. CASE cur_buf = Nothing /\ pending # <<>> /\ TakePacket
    BY <2>1, <2>2, <2>4 DEF Takes, TakePacket
  <2>5. \/ UNCHANGED inbox /\ (cur_buf # Nothing \/ \E l : l # <<"copy">> /\ Goto(u, l))
        \/ cur_buf = Nothing /\ pending # <<>> /\ TakePacket
    BY <1>5 DEF ReadEnter, ReadWake, ReadLeave, TakePacket, Opened
  <2>6. QED BY <2>3, <2>4, <2>5
<1>6. ASSUME NEW u \in Users, ReadEnds(u) PROVE Kept /\ NoneCopies /\ life' = life
  <2>1. pc[u] \in Files /\ Goto(u, Opened) /\ life' = life
    BY <1>6 DEF ReadEnds, ReadLeave, Files, Reading
  <2>2. QED BY <1>f, <1>m, <2>1 DEF NoneCopies, Opened
<1>7. ASSUME NEW u \in Users, ReadStops(u) \/ WriteEnter(u) \/ WriteWake(u) \/ WriteStops(u) \/ WriteQueue(u) PROVE Rests
  <2>1. UNCHANGED <<dl, pending, cur_buf, rx_error, nr_trb, Hist, life>> /\ pc[u] \in Files
    BY <1>7 DEF ReadStops, WriteEnter, WriteWake, WriteStops, WriteQueue, Hist, Files, Reading
  <2>2. \E l : l # <<"copy">> /\ Goto(u, l)
    BY <1>7 DEF ReadStops, ReadLeave, WriteEnter, WriteWake, WriteStops, WriteQueue, WriteLeave, Opened
  <2>3. QED BY <1>f, <1>m, <2>1, <2>2 DEF Rests
<1>8. ASSUME Receive PROVE DataStep
  <2>1. /\ pm = "ok" /\ UNCHANGED <<pc, life>> /\ dl # <<>>
        /\ ~early' => \A u \in Users : pc[u][1] # "fill"
    <3>1. dl # <<>>
      <4>1. PICK k \in DOMAIN dl : TRUE
        BY <1>8 DEF Receive
      <4>2. QED BY <4>1
    <3>2. early' = (early \/ \E u \in Users : pc[u][1] = "fill")
      BY <1>8 DEF Receive
    <3>3. ~early' => \A u \in Users : pc[u][1] # "fill"
      BY <3>2, Zenon
    <3>4. QED BY <1>8, <3>1, <3>3 DEF Receive
  <2>2. life = "bound"
    BY <1>t, <2>1 DEF ErrInv, EmptyInv
  <2>3. uci_buf # "none"
    BY <1>t, <2>1 DEF ErrInv
  <2>4. ~early' => drv_lock = NoOne
    <3>1. ASSUME ~early', NEW v \in Users, drv_lock = v PROVE FALSE
      <4>1. pc[v] \in Opening
        BY <1>t, <3>1 DEF LockInv
      <4>2. pc[v] \in Stocked
        BY <1>t, <2>3, <4>1 DEF LockInv, Opening
      <4>3. pc[v] \in Failing
        BY <2>1, <3>1, <4>2 DEF Stocked
      <4>4. QED BY <1>t, <2>1, <4>3 DEF ErrInv
    <3>2. drv_lock \in Users \cup {NoOne}
      BY <1>t DEF TypeOK
    <3>3. QED BY <3>1, <3>2
  <2>5. Kept \/ early'
    BY <2>3, <2>4 DEF Kept
  <2>6. NoneCopies /\ life' = life
    BY <2>1 DEF NoneCopies
  <2>7. QED BY <1>8, <2>2, <2>5, <2>6 DEF DataStep
<1>9. ASSUME Received PROVE DataStep
  <2>1. NoneCopies /\ life' = life
    BY <1>9 DEF NoneCopies, Received
  <2>2. QED BY <1>9, <2>1 DEF DataStep
<1>10. ASSUME Answer \/ Transmit \/ Crash \/ UNCHANGED vars PROVE Rests
  <2>1. UNCHANGED <<dl, pending, cur_buf, rx_error, nr_trb, Hist, uci_buf, drv_lock, pc>>
    BY <1>10 DEF Answer, Transmit, Crash, vars, Hist
  <2>2. life' = life \/ life' = "wake_dl"
    BY <1>10 DEF Answer, Transmit, Crash, vars
  <2>3. Kept' => Kept
    BY <2>1 DEF Kept
  <2>4. QED BY <2>1, <2>2, <2>3 DEF Rests
<1>11. ASSUME Removal PROVE Empties \/ Rests
  <2>1. life # "bound" /\ life' # "bound" /\ UNCHANGED <<pc, pending, cur_buf, sent, arrived, taken>>
    BY <1>11 DEF Removal, RemoveWake, RemoveReset, RemoveDevice, RemoveDeinit, Removing, Chans
  <2>2. CASE RemoveReset("dl")
    <3>1. dl' = <<>> /\ Counted(dl)
      BY <2>2 DEF RemoveReset, ResetChan
    <3>2. NoneCopies /\ UNCHANGED <<pending, cur_buf, Hist>>
      BY <2>1 DEF NoneCopies, Hist
    <3>3. QED BY <2>1, <3>1, <3>2 DEF Empties
  <2>3. CASE RemoveReset("ul") \/ RemoveDevice \/ RemoveDeinit \/ \E c \in Chans : RemoveWake(c)
    <3>1. UNCHANGED <<dl, rx_error, nr_trb>>
      BY <2>3 DEF RemoveReset, RemoveDevice, RemoveDeinit, RemoveWake, ResetChan
    <3>2. life' \notin {"bound", "wake_dl", "reset_dl"} => life \notin {"bound", "wake_dl", "reset_dl"}
      <4>1. CASE RemoveReset("ul")
        BY <4>1 DEF RemoveReset, Removing
      <4>2. CASE RemoveDevice \/ RemoveDeinit
        BY <4>2 DEF RemoveDevice, RemoveDeinit, Removing
      <4>3. CASE RemoveWake("ul")
        BY <4>3 DEF RemoveWake, Removing
      <4>4. CASE RemoveWake("dl")
        BY <4>4 DEF RemoveWake, Removing
      <4>5. QED BY <2>3, <4>1, <4>2, <4>3, <4>4 DEF Chans
    <3>3. QED BY <2>1, <3>1, <3>2 DEF Rests, Hist
  <2>4. QED BY <1>11, <2>2, <2>3 DEF Removal, Chans
<1>c. copying' = copying
  <2>1. CASE \E u \in Users : \E c \in Chans : Prepare(u, c) \/ Started(u, c) \/ StartExpires(u, c)
    BY <2>1 DEF Prepare, Started, StartExpires
  <2>2. CASE \E u \in Users, c \in Chans, why \in Whys :
         Unprepare(u, c, why) \/ ResetEnds(u, c, why) \/ ResetExpires(u, c, why)
    BY <2>2 DEF Unprepare, ResetEnds, ResetExpires, ResetOver
  <2>3. CASE \E u \in Users : OpenEnter(u) \/ Fill(u) \/ WriteEnter(u) \/ WriteWake(u) \/ WriteQueue(u)
                        \/ ReadStops(u) \/ WriteStops(u) \/ Close(u) \/ ReadEnter(u) \/ ReadWake(u) \/ ReadEnds(u)
    BY <2>3 DEF OpenEnter, Fill, WriteEnter, WriteWake, WriteQueue, ReadStops, WriteStops, Close, ReadEnter, ReadWake, ReadEnds
  <2>4. CASE Answer \/ Receive \/ Received \/ Transmit \/ Crash \/ Removal \/ UNCHANGED vars
    BY <2>4 DEF Answer, Receive, Received, Transmit, Crash, Removal, RemoveWake, RemoveReset, RemoveDevice, RemoveDeinit, vars
  <2>5. QED BY <2>1, <2>2, <2>3, <2>4 DEF Next, User, OpenGoesOn, WaitExpires, FileGoesOn
<1>d. DataStep
  <2>1. CASE \E u \in Users : \/ OpenEnter(u) \/ Fill(u) \/ Close(u) \/ ReadEnter(u) \/ ReadWake(u) \/ ReadEnds(u)
                              \/ ReadStops(u) \/ WriteEnter(u) \/ WriteWake(u) \/ WriteStops(u) \/ WriteQueue(u)
    BY <2>1, <1>2, <1>3, <1>4, <1>5, <1>6, <1>7 DEF DataStep
  <2>2. CASE \E u \in Users, c \in Chans : Prepare(u, c) \/ Started(u, c) \/ StartExpires(u, c)
    BY <2>2, <1>1 DEF DataStep
  <2>3. CASE \E u \in Users, c \in Chans, why \in Whys : Unprepare(u, c, why) \/ ResetEnds(u, c, why) \/ ResetExpires(u, c, why)
    BY <2>3, ResetStep DEF DataStep
  <2>4. CASE Answer \/ Receive \/ Received \/ Transmit \/ Crash \/ Removal \/ UNCHANGED vars
    BY <2>4, <1>8, <1>9, <1>10, <1>11 DEF DataStep
  <2>5. QED BY <2>1, <2>2, <2>3, <2>4 DEF Next, User, OpenGoesOn, WaitExpires, FileGoesOn
<1>12. QED BY <1>b, <1>c, <1>d, <1>k

\* Before the first open is done nothing has been received, unless a packet came early.
LEMMA TameSteps ==
  ASSUME TypeOK, FreshInv, DataStep, Regular'
  PROVE  TameStep
<1>1. ~early'
  BY DEF Regular
<1>2. ASSUME Received PROVE Kept
  <2>1. dl # <<>> /\ Head(dl).pkt # 0
    BY <1>2 DEF Received
  <2>2. dl \in Seq(Slots)
    BY RingTyped
  <2>3. 1 \in 1 .. Len(dl) /\ Head(dl) = dl[1]
    BY <2>1, <2>2
  <2>4. QED BY <2>1, <2>3 DEF FreshInv
<1>3. QED BY <1>1, <1>2 DEF DataStep, TameStep

-----------------------------------------------------------------------------
(* Where the buffers are.                                                  *)

\* The k-th buffer before b.
Back(b, k) == IF k > b THEN b + N + 1 - k ELSE b - k

\* Going round the buffers.
LEMMA Circle ==
  /\ \A b \in 0 .. N : After(b, 0) = b /\ Back(b, 0) = b
  /\ \A b, k \in 0 .. N : After(b, k) \in 0 .. N /\ Back(b, k) \in 0 .. N
  /\ \A b \in 0 .. N : \A k \in 0 .. N - 1 : /\ After(After(b, 1), k) = After(b, k + 1)
                                             /\ Before(Back(b, k)) = Back(b, k + 1)
                                             /\ Back(b, k + 1) = After(b, N - k)
                                             /\ Back(After(b, 1), k + 1) = Back(b, k)
<1>n. N \in Nat \ {0}
  BY UciAssumption
<1>1. ASSUME NEW b \in 0 .. N PROVE After(b, 0) = b /\ Back(b, 0) = b
  BY <1>n DEF After, Back
<1>2. ASSUME NEW b \in 0 .. N, NEW k \in 0 .. N PROVE After(b, k) \in 0 .. N /\ Back(b, k) \in 0 .. N
  BY <1>n DEF After, Back
<1>3. ASSUME NEW b \in 0 .. N, NEW k \in 0 .. N - 1 PROVE After(After(b, 1), k) = After(b, k + 1)
  BY <1>n DEF After
<1>4. ASSUME NEW b \in 0 .. N, NEW k \in 0 .. N - 1 PROVE Before(Back(b, k)) = Back(b, k + 1)
  BY <1>n DEF Before, Back
<1>5. ASSUME NEW b \in 0 .. N, NEW k \in 0 .. N - 1 PROVE Back(b, k + 1) = After(b, N - k)
  BY <1>n DEF After, Back
<1>6. ASSUME NEW b \in 0 .. N, NEW k \in 0 .. N - 1 PROVE Back(After(b, 1), k + 1) = Back(b, k)
  BY <1>n DEF After, Back
<1>7. QED BY <1>1, <1>2, <1>3, <1>4, <1>5, <1>6

\* Different steps lead to different buffers, and the steps back to others than those forth.
LEMMA Apart ==
  /\ \A b, j, k \in 0 .. N : /\ After(b, j) = After(b, k) => j = k
                             /\ Back(b, j) = Back(b, k) => j = k
                             /\ j > 0 /\ j + k <= N => Back(b, j) # After(b, k)
<1>n. N \in Nat \ {0}
  BY UciAssumption
<1>1. ASSUME NEW b \in 0 .. N, NEW j \in 0 .. N, NEW k \in 0 .. N PROVE After(b, j) = After(b, k) => j = k
  BY <1>n DEF After
<1>2. ASSUME NEW b \in 0 .. N, NEW j \in 0 .. N, NEW k \in 0 .. N PROVE Back(b, j) = Back(b, k) => j = k
  BY <1>n DEF Back
<1>3. ASSUME NEW b \in 0 .. N, NEW j \in 0 .. N, NEW k \in 0 .. N PROVE j > 0 /\ j + k <= N => Back(b, j) # After(b, k)
  BY <1>n DEF After, Back
<1>4. QED BY <1>1, <1>2, <1>3

\* What Append and Tail do to the elements.
LEMMA Appended ==
  ASSUME NEW S, NEW s \in Seq(S), NEW e \in S
  PROVE  /\ Append(s, e) \in Seq(S) /\ Len(s) \in Nat /\ Len(Append(s, e)) = Len(s) + 1
         /\ \A k \in 1 .. Len(s) : Append(s, e)[k] = s[k]
         /\ Append(s, e)[Len(s) + 1] = e
  OBVIOUS

\* What is left when the first element is taken off.
LEMMA Tailed ==
  ASSUME NEW S, NEW s \in Seq(S), s # <<>>
  PROVE  /\ Tail(s) \in Seq(S) /\ Len(s) \in Nat \ {0} /\ Len(Tail(s)) = Len(s) - 1
         /\ \A k \in 1 .. Len(s) - 1 : Tail(s)[k] = s[k + 1]
         /\ Head(s) = s[1] /\ Head(s) \in S
  OBVIOUS

Being == IF cur_buf = Nothing THEN 0 ELSE 1
\* Buffers come in the order expected.
OrderInv == ~rx_error /\ \A k \in 1 .. Len(dl) : dl[k].buf = After(nr_trb, k - 1)
\* Who copies has a packet, and what waits is one.
CopyInv ==
  /\ \A u \in Users : pc[u] = <<"copy">> => cur_buf # Nothing
  /\ \A k \in 1 .. Len(pending) : pending[k].pkt # 0
\* The first open fills the ring from its start.
FillInv ==
  life = "bound" => \A u \in Users : \A i \in 0 .. N - 1 :
    pc[u] = <<"fill", i>> => Len(dl) = i /\ (i > 0 => nr_trb = 0)
\* Packets that wait are in the buffers before the ring's, one after the other, or in copies.
Trail(o) ==
  /\ \A k \in 1 .. Len(pending) : pending[k].buf = Back(o, Len(pending) + 1 - k)
  /\ cur_buf # Nothing => cur_buf.buf = Back(o, Len(pending) + 1)
  /\ dl # <<>> \/ life = "bound" => o = nr_trb
PlaceInv ==
  /\ copying => cur_buf.buf = NoBuf /\ \A k \in 1 .. Len(pending) : pending[k].buf = NoBuf
  /\ ~copying => Len(dl) + Len(pending) + Being <= N /\ \E o \in Buffers : Trail(o)
\* No buffer goes astray.
FullInv ==
  life = "bound" /\ Kept => Len(dl) + (IF copying THEN 0 ELSE Len(pending) + Being) = N

DataInv == EmptyInv /\ FreshInv /\ OrderInv /\ CopyInv /\ FillInv /\ PlaceInv /\ FullInv

\* The types of the rings and queues.
LEMMA Sizes ==
  ASSUME TypeOK
  PROVE  /\ dl \in Seq(Slots) /\ Len(dl) \in Nat /\ Len(dl) <= N /\ N \in Nat \ {0}
         /\ pending \in Seq(Items) /\ Len(pending) \in Nat /\ cur_buf \in Items /\ nr_trb \in 0 .. N
         /\ Being \in 0 .. 1 /\ Nothing \in Items
         /\ (dl = <<>> <=> Len(dl) = 0) /\ (pending = <<>> <=> Len(pending) = 0)
<1>1. /\ dl \in Seq(Slots) /\ Len(dl) \in Nat /\ Len(dl) <= N /\ N \in Nat \ {0}
      /\ pending \in Seq(Items) /\ Len(pending) \in Nat /\ cur_buf \in Items /\ nr_trb \in 0 .. N
  BY UciAssumption DEF TypeOK, Slots, Buffers
<1>2. Being \in 0 .. 1
  BY DEF Being
<1>3. Nothing \in Items
  BY UciAssumption DEF Nothing, Items, NoBuf
<1>4. QED BY <1>1, <1>2, <1>3, EmptySeq

\* A completion whatever its length: it is the first of the ring, and at most one packet is kept and
\* one buffer queued for it.
LEMMA Processed ==
  ASSUME TypeOK, Received
  PROVE  /\ dl # <<>> /\ Head(dl).pkt # 0 /\ arrived' = Head(dl).pkt
         /\ UNCHANGED <<cur_buf, life, sent, taken, copying, pm, pc, odd, early>>
         /\ \/ pending' = pending
            \/ \E e \in Items : e.pkt = Head(dl).pkt /\ pending' = Append(pending, e)
         /\ \/ dl' = Tail(dl)
            \/ Queued(Tail(dl)) /\ \E e \in Slots : e.pkt = 0 /\ dl' = Append(Tail(dl), e)
<1>1. dl # <<>> /\ Head(dl).pkt # 0 /\ arrived' = Head(dl).pkt
  BY DEF Received
<1>2. UNCHANGED <<cur_buf, life, sent, taken, copying, pm, pc, odd, early>>
  BY DEF Received, modem
<1>3. Head(dl) \in Slots
  BY <1>1, RingTyped, Tailed
<1>4. Head(dl).pkt \in 0 .. Packets /\ Head(dl).buf \in 0 .. N /\ N \in Nat /\ 0 \in 0 .. Packets
  BY <1>3, UciAssumption DEF Slots, Buffers
<1>5. pending' = pending \/ \E e \in Items : e.pkt = Head(dl).pkt /\ pending' = Append(pending, e)
  <2> DEFINE e == [buf |-> IF copying THEN NoBuf ELSE Head(dl).buf, pkt |-> Head(dl).pkt]
  <2>1. e \in Items /\ e.pkt = Head(dl).pkt
    BY <1>4 DEF Items, Buffers
  <2>2. pending' = pending \/ pending' = Append(pending, e)
    BY DEF Received
  <2> HIDE DEF e
  <2>3. QED BY <2>1, <2>2
<1>6. \/ dl' = Tail(dl)
      \/ Queued(Tail(dl)) /\ \E e \in Slots : e.pkt = 0 /\ dl' = Append(Tail(dl), e)
  <2> DEFINE e == [buf |-> Before(Head(dl).buf), pkt |-> 0]
  <2>1. Before(Head(dl).buf) \in 0 .. N
    BY <1>4 DEF Before
  <2>2. e \in Slots /\ e.pkt = 0
    BY <1>4, <2>1 DEF Slots, Buffers
  <2>3. dl' = Tail(dl) \/ (Queued(Tail(dl)) /\ dl' = Append(Tail(dl), e))
    BY DEF Received
  <2> HIDE DEF e
  <2>4. QED BY <2>2, <2>3
<1>7. QED BY <1>1, <1>2, <1>5, <1>6

\* The end of a read, whatever was read.
LEMMA ReadOver ==
  ASSUME Core, CopyInv, NEW u \in Users, ReadEnds(u)
  PROVE  /\ pc[u] = <<"copy">> /\ pc'[u] = Opened /\ \A v \in Users : v # u => pc'[v] = pc[v] /\ pc[v] # <<"copy">>
         /\ cur_buf # Nothing /\ cur_buf' = Nothing
         /\ UNCHANGED <<pending, nr_trb, rx_error, life, sent, arrived, copying, pm, odd, early>>
         /\ dl' = dl \/ (life = "bound" /\ \E e \in Slots : e.pkt = 0 /\ dl' = Append(dl, e))
         /\ taken' = taken \/ taken' = cur_buf.pkt
<1>t. TypeOK /\ LockInv
  BY DEF Core
<1>1. /\ pc[u] = <<"copy">> /\ pc'[u] = Opened /\ \A v \in Users : v # u => pc'[v] = pc[v] /\ pc[v] # <<"copy">>
  <2>1. pc[u] = <<"copy">> /\ Goto(u, Opened)
    BY DEF ReadEnds, ReadLeave, At
  <2>2. r_mutex = u
    BY <1>t, <2>1, Labels DEF LockInv
  <2>3. \A v \in Users : v # u => pc[v] # <<"copy">>
    BY <1>t, <2>2, Labels DEF LockInv
  <2>4. QED BY <1>t, <2>1, <2>3, Moves
<1>2. /\ cur_buf # Nothing /\ cur_buf' = Nothing
      /\ UNCHANGED <<pending, nr_trb, rx_error, life, sent, arrived, copying, pm, odd, early>>
  BY <1>1 DEF CopyInv, ReadEnds, order, modem
<1>3. \/ dl' = dl
      \/ /\ enabled /\ cur_buf.buf # NoBuf /\ Queued(dl)
         /\ dl' = Append(dl, [buf |-> Before(cur_buf.buf), pkt |-> 0])
  BY DEF ReadEnds
<1>4. taken' = taken \/ taken' = cur_buf.pkt
  BY DEF ReadEnds
<1>5. enabled /\ pm = "ok" <=> life = "bound"
  BY DEF Core, ErrInv, RefInv
<1>6. ASSUME cur_buf.buf # NoBuf PROVE [buf |-> Before(cur_buf.buf), pkt |-> 0] \in Slots
  <2>1. cur_buf.buf \in 0 .. N /\ N \in Nat /\ 0 \in 0 .. Packets
    <3>1. cur_buf \in Items
      BY <1>t DEF TypeOK
    <3>2. QED BY <1>6, <3>1, UciAssumption DEF Items, Buffers
  <2>2. Before(cur_buf.buf) \in 0 .. N
    BY <2>1 DEF Before
  <2>3. QED BY <2>1, <2>2 DEF Slots, Buffers
<1>7. dl' = dl \/ (life = "bound" /\ \E e \in Slots : e.pkt = 0 /\ dl' = Append(dl, e))
  <2> DEFINE e == [buf |-> Before(cur_buf.buf), pkt |-> 0]
  <2>1. e.pkt = 0 /\ (cur_buf.buf # NoBuf => e \in Slots)
    BY <1>6
  <2>2. dl' = dl \/ (enabled /\ cur_buf.buf # NoBuf /\ Queued(dl) /\ dl' = Append(dl, e))
    BY <1>3
  <2> HIDE DEF e
  <2>3. QED BY <1>5, <2>1, <2>2 DEF Queued
<1>8. QED BY <1>1, <1>2, <1>4, <1>7

\* A completion of a usable length: the buffer is the one expected.
LEMMA Drops ==
  ASSUME TypeOK, Regular, OrderInv, Received
  PROVE  /\ dl # <<>> /\ Head(dl).buf = nr_trb /\ Head(dl).pkt # 0 /\ arrived' = Head(dl).pkt
         /\ nr_trb' = After(nr_trb, 1) /\ rx_error' = rx_error /\ UNCHANGED <<cur_buf, life, sent, taken, copying>>
         /\ pending' = IF copying /\ Unheard THEN pending
                       ELSE Append(pending, [buf |-> IF copying THEN NoBuf ELSE nr_trb, pkt |-> Head(dl).pkt])
         /\ [buf |-> IF copying THEN NoBuf ELSE nr_trb, pkt |-> Head(dl).pkt] \in Items
         /\ dl' = IF copying /\ Queued(Tail(dl)) THEN Append(Tail(dl), [buf |-> Before(nr_trb), pkt |-> 0]) ELSE Tail(dl)
         /\ [buf |-> Before(nr_trb), pkt |-> 0] \in Slots
<1>1. dl # <<>> /\ Head(dl).pkt # 0
  BY DEF Received
<1>2. /\ dl \in Seq(Slots) /\ Head(dl) = dl[1] /\ Len(dl) >= 1 /\ Head(dl) \in Slots /\ nr_trb \in 0 .. N /\ N \in Nat
      /\ After(nr_trb, 0) = nr_trb
  BY <1>1, Sizes, Tailed, Circle
<1>3. Head(dl).buf = nr_trb
  BY <1>2 DEF OrderInv
<1>4. nr_trb' = After(nr_trb, 1) /\ rx_error' = rx_error
  <2> DEFINE r == <<Head(dl)>>
  <2>1. Counted(r)
    BY DEF Received
  <2>2. DOMAIN r = {1} /\ r[1] = Head(dl) /\ Len(r) = 1
    OBVIOUS
  <2> HIDE DEF r
  <2>3. InTurn(r)
    BY <1>2, <1>3, <2>2 DEF InTurn
  <2>4. QED BY <2>1, <2>2, <2>3 DEF Counted
<1>5. /\ [buf |-> IF copying THEN NoBuf ELSE nr_trb, pkt |-> Head(dl).pkt] \in Items
      /\ [buf |-> Before(nr_trb), pkt |-> 0] \in Slots
  <2>1. Head(dl).pkt \in 0 .. Packets /\ 0 \in 0 .. Packets
    BY <1>2, UciAssumption DEF Slots
  <2>2. Before(nr_trb) \in 0 .. N
    BY <1>2 DEF Before
  <2>3. QED BY <1>2, <2>1, <2>2 DEF Items, Slots, Buffers
<1>6. /\ arrived' = Head(dl).pkt /\ UNCHANGED <<cur_buf, life, sent, taken, copying>>
      /\ pending' = IF copying /\ Unheard THEN pending
                    ELSE Append(pending, [buf |-> IF copying THEN NoBuf ELSE nr_trb, pkt |-> Head(dl).pkt])
      /\ dl' = IF copying /\ Queued(Tail(dl)) THEN Append(Tail(dl), [buf |-> Before(nr_trb), pkt |-> 0]) ELSE Tail(dl)
  <2>1. Head(dl).pkt \notin odd
    BY DEF Regular
  <2>2. QED BY <1>3, <2>1 DEF Received, modem
<1>7. QED BY <1>1, <1>3, <1>4, <1>5, <1>6

\* A packet arrives in the ring.
LEMMA Receipt ==
  ASSUME TypeOK, Receive
  PROVE  /\ dl # <<>> /\ dl' \in Seq(Slots) /\ Len(dl') = Len(dl) /\ UNCHANGED <<nr_trb, rx_error, pending, cur_buf, life, copying, arrived, taken>>
         /\ sent' = sent + 1
         /\ \A k \in 1 .. Len(dl) : dl'[k].buf = dl[k].buf
         /\ \E k \in 1 .. Len(dl) : /\ dl[k].pkt = 0 /\ dl'[k].pkt = sent + 1 /\ \A j \in 1 .. k - 1 : dl[j].pkt # 0
                                    /\ \A j \in 1 .. Len(dl) : j # k => dl'[j] = dl[j]
<1>1. PICK k \in DOMAIN dl : /\ dl[k].pkt = 0 /\ \A j \in 1 .. k - 1 : dl[j].pkt # 0
                             /\ dl' = [dl EXCEPT ![k].pkt = sent + 1]
  BY DEF Receive
<1>2. dl \in Seq(Slots) /\ Len(dl) \in Nat /\ dl # <<>> /\ k \in 1 .. Len(dl) /\ DOMAIN dl = 1 .. Len(dl)
  BY <1>1, Sizes
<1>3. dl' \in Seq(Slots) /\ Len(dl') = Len(dl)
  <2>1. sent + 1 \in 0 .. Packets
    <3>1. sent \in 0 .. Packets /\ Packets \in Nat
      BY UciAssumption DEF TypeOK
    <3>2. sent < Packets
      BY DEF Receive
    <3>3. QED BY <3>1, <3>2
  <2>2. dl[k] \in Slots
    BY <1>2
  <2>3. [dl[k] EXCEPT !.pkt = sent + 1] \in Slots
    BY <2>1, <2>2 DEF Slots
  <2>4. QED BY <1>1, <1>2, <2>3
<1>4. \A j \in 1 .. Len(dl) : j # k => dl'[j] = dl[j]
  BY <1>1, <1>2
<1>5. dl'[k].buf = dl[k].buf /\ dl'[k].pkt = sent + 1
  <2>1. dl[k] \in Slots /\ dl'[k] = [dl[k] EXCEPT !.pkt = sent + 1]
    BY <1>1, <1>2
  <2>2. QED BY <2>1 DEF Slots
<1>6. UNCHANGED <<nr_trb, rx_error, pending, cur_buf, life, copying, arrived, taken>> /\ sent' = sent + 1
  BY DEF Receive, order, inbox
<1>7. QED BY <1>1, <1>2, <1>3, <1>4, <1>5, <1>6

\* A packet has been read.
LEMMA Returns ==
  ASSUME Core, CopyInv, PlaceInv, FullInv, Kept, NEW u \in Users, ReadEnds(u)
  PROVE  /\ pc[u] = <<"copy">> /\ pc'[u] = Opened /\ \A v \in Users : v # u => pc'[v] = pc[v] /\ pc[v] # <<"copy">>
         /\ cur_buf # Nothing /\ cur_buf' = Nothing /\ UNCHANGED <<pending, nr_trb, rx_error, life, sent, arrived, copying, pm>>
         /\ copying => dl' = dl
         /\ \/ dl' = dl /\ (life = "bound" => copying)
            \/ life = "bound" /\ ~copying /\ dl' = Append(dl, [buf |-> Before(cur_buf.buf), pkt |-> 0])
         /\ ~copying => Being = 1 /\ [buf |-> Before(cur_buf.buf), pkt |-> 0] \in Slots
         /\ taken' = taken \/ taken' = cur_buf.pkt
         /\ taken' # cur_buf.pkt => pm # "ok" \/ life # "bound"
<1>t. TypeOK /\ LockInv
  BY DEF Core
<1>1. /\ pc[u] = <<"copy">> /\ pc'[u] = Opened /\ \A v \in Users : v # u => pc'[v] = pc[v] /\ pc[v] # <<"copy">>
  <2>1. pc[u] = <<"copy">> /\ Goto(u, Opened)
    BY DEF ReadEnds, ReadLeave, At
  <2>2. r_mutex = u
    BY <1>t, <2>1, Labels DEF LockInv
  <2>3. \A v \in Users : v # u => pc[v] # <<"copy">>
    BY <1>t, <2>2, Labels DEF LockInv
  <2>4. QED BY <1>t, <2>1, <2>3, Moves
<1>2. cur_buf # Nothing /\ cur_buf' = Nothing /\ UNCHANGED <<pending, nr_trb, rx_error, life, sent, arrived, copying, pm>>
  BY <1>1 DEF CopyInv, ReadEnds, order, modem
<1>3. /\ dl' = IF enabled /\ cur_buf.buf # NoBuf /\ Queued(dl)
               THEN Append(dl, [buf |-> Before(cur_buf.buf), pkt |-> 0]) ELSE dl
      /\ taken' = IF enabled /\ (cur_buf.buf = NoBuf \/ Queued(dl)) THEN cur_buf.pkt ELSE taken
  BY DEF ReadEnds
<1>4. enabled /\ pm = "ok" <=> life = "bound"
  BY DEF Core, ErrInv, RefInv
<1>5. ASSUME ~copying PROVE cur_buf.buf \in Buffers /\ cur_buf.buf # NoBuf /\ Being = 1
  <2>1. Being = 1
    BY <1>2 DEF Being
  <2>2. PICK o \in Buffers : cur_buf.buf = Back(o, Len(pending) + 1)
    BY <1>2, <1>5 DEF PlaceInv, Trail
  <2>3. Len(pending) + 1 \in 0 .. N
    BY <1>t, <1>5, <2>1, Sizes DEF PlaceInv
  <2>4. cur_buf.buf \in Buffers
    BY <2>2, <2>3, Circle DEF Buffers
  <2>5. QED BY <1>t, <2>1, <2>4, Sizes DEF Buffers, NoBuf
<1>6. copying => cur_buf.buf = NoBuf
  BY DEF PlaceInv
<1>7. ASSUME life = "bound", ~copying PROVE Queued(dl)
  <2>1. Len(dl) + Len(pending) + Being = N
    BY <1>7, <1>t, Sizes DEF FullInv
  <2>2. Len(dl) < N
    BY <1>5, <1>7, <1>t, <2>1, Sizes
  <2>3. QED BY <1>4, <1>7, <2>2 DEF Queued
<1>8. ~copying => [buf |-> Before(cur_buf.buf), pkt |-> 0] \in Slots
  <2>1. \A b \in 0 .. N : Before(b) \in 0 .. N
    BY UciAssumption DEF Before
  <2>2. 0 \in 0 .. Packets
    BY UciAssumption
  <2>3. QED BY <1>5, <2>1, <2>2 DEF Slots, Buffers
<1>9. \/ dl' = dl /\ (life = "bound" => copying)
      \/ life = "bound" /\ ~copying /\ dl' = Append(dl, [buf |-> Before(cur_buf.buf), pkt |-> 0])
  BY <1>3, <1>4, <1>5, <1>6, <1>7 DEF Queued
<1>10. (copying => dl' = dl) /\ (taken' = taken \/ taken' = cur_buf.pkt)
  BY <1>3, <1>6
<1>11. taken' # cur_buf.pkt => pm # "ok" \/ life # "bound"
  BY <1>3, <1>4, <1>6, <1>7
<1>12. QED BY <1>1, <1>2, <1>5, <1>8, <1>9, <1>10, <1>11

\* Each part of the invariant is kept by each kind of step.
LEMMA EmptyStays ==
  ASSUME Core, EmptyInv, CopyInv, DataStep
  PROVE  EmptyInv'
<1>1. CASE \E u \in Users : \E i \in 0 .. N - 1 : Puts(u, i)
  BY <1>1 DEF Puts, EmptyInv
<1>2. CASE (\E u \in Users : Takes(u)) \/ Empties \/ Frees \/ Rests
  BY <1>2 DEF Takes, Empties, Frees, Rests, EmptyInv
<1>3. ASSUME NEW u \in Users, ReadEnds(u) PROVE EmptyInv'
  <2>1. life' = life /\ (dl' = dl \/ life = "bound")
    BY <1>3, ReadOver
  <2>2. QED BY <2>1 DEF EmptyInv
<1>4. CASE Receive /\ life = "bound" /\ life' = life
  BY <1>4 DEF EmptyInv
<1>5. CASE Received
  <2>1. dl # <<>> /\ life' = life
    BY <1>5 DEF Received
  <2>2. QED BY <2>1 DEF EmptyInv
<1>6. QED BY <1>1, <1>2, <1>3, <1>4, <1>5 DEF DataStep

\* Nothing has been received before the first open is done.
LEMMA FreshStays ==
  ASSUME Core, DataInv, Regular, TameStep, Kept => Kept'
  PROVE  FreshInv'
<1>e. FreshInv /\ TypeOK /\ Regular
  BY DEF DataInv, Core
<1>1. ASSUME NEW u \in Users, NEW i \in 0 .. N - 1, Puts(u, i) PROVE FreshInv'
  <2>1. /\ pending' = <<>> /\ cur_buf' = Nothing /\ dl' = Append(dl, [buf |-> i, pkt |-> 0])
        /\ \A k \in 1 .. Len(dl) : dl[k].pkt = 0
    BY <1>e, <1>1 DEF Puts, FreshInv
  <2>2. [buf |-> i, pkt |-> 0] \in Slots
    BY UciAssumption DEF Slots, Buffers
  <2>3. dl \in Seq(Slots)
    BY <1>e, Sizes
  <2>4. /\ Len(dl) \in Nat /\ Len(dl') = Len(dl) + 1 /\ \A k \in 1 .. Len(dl) : dl'[k] = dl[k]
        /\ dl'[Len(dl) + 1] = [buf |-> i, pkt |-> 0]
    BY <2>1, <2>2, <2>3, Appended
  <2>5. \A k \in 1 .. Len(dl') : dl'[k].pkt = 0
    BY <2>1, <2>4
  <2>6. QED BY <2>1, <2>5 DEF FreshInv
<1>2. CASE Kept
  BY <1>2 DEF FreshInv
<1>3. ASSUME Empties, ~Kept PROVE FreshInv'
  <2>1. dl' = <<>> /\ pending' = <<>> /\ cur_buf' = Nothing
    BY <1>e, <1>3 DEF Empties, FreshInv
  <2>2. Len(dl') = 0
    BY <2>1, EmptySeq
  <2>3. QED BY <2>1, <2>2 DEF FreshInv
<1>4. ASSUME Frees \/ Rests, ~Kept PROVE FreshInv'
  BY <1>e, <1>4 DEF Frees, Rests, FreshInv
<1>5. QED BY <1>1, <1>2, <1>3, <1>4 DEF TameStep, Takes

\* What is queued last is the buffer expected last.
LEMMA OrderStays ==
  ASSUME Core, Core', DataInv, Regular, TameStep
  PROVE  OrderInv'
<1>e. FreshInv /\ OrderInv /\ CopyInv /\ PlaceInv /\ FullInv /\ FillInv /\ TypeOK /\ Regular
  BY DEF DataInv, Core
<1>s. /\ dl \in Seq(Slots) /\ Len(dl) \in Nat /\ Len(dl) <= N /\ N \in Nat \ {0} /\ nr_trb \in 0 .. N
      /\ Len(pending) \in Nat
  BY <1>e, Sizes
<1>1. ASSUME NEW u \in Users, NEW i \in 0 .. N - 1, Puts(u, i) PROVE OrderInv'
  <2>1. /\ dl' = Append(dl, [buf |-> i, pkt |-> 0]) /\ ~rx_error' /\ nr_trb' = 0
        /\ Len(dl) = i /\ (i # 0 => nr_trb = 0)
    BY <1>e, <1>1 DEF Puts, FillInv, OrderInv
  <2>2. [buf |-> i, pkt |-> 0] \in Slots
    BY UciAssumption DEF Slots, Buffers
  <2>4. /\ Len(dl') = i + 1 /\ \A k \in 1 .. i : dl'[k] = dl[k]
        /\ dl'[i + 1] = [buf |-> i, pkt |-> 0]
    BY <1>s, <2>1, <2>2, Appended
  <2>5. ASSUME NEW k \in 1 .. i PROVE dl'[k].buf = After(nr_trb', k - 1)
    <3>1. i # 0 /\ dl[k].buf = After(nr_trb, k - 1)
      BY <1>e, <2>1, <2>5 DEF OrderInv
    <3>2. QED BY <2>1, <2>4, <3>1
  <2>6. dl'[i + 1].buf = After(nr_trb', i)
    BY <1>s, <2>1, <2>4 DEF After
  <2>7. \A k \in 1 .. Len(dl') : dl'[k].buf = After(nr_trb', k - 1)
    <3>1. ASSUME NEW k \in 1 .. Len(dl') PROVE dl'[k].buf = After(nr_trb', k - 1)
      <4>1. k \in 1 .. i \/ k = i + 1
        BY <2>4
      <4>2. CASE k \in 1 .. i
        BY <2>5, <4>2
      <4>3. CASE k = i + 1
        <5>1. k - 1 = i
          BY <4>3
        <5>2. QED BY <2>6, <4>3, <5>1
      <4>4. QED BY <4>1, <4>2, <4>3
    <3>2. QED BY <3>1
  <2>8. QED BY <2>1, <2>7 DEF OrderInv
<1>2. CASE (\E u \in Users : Takes(u)) \/ Frees
  BY <1>e, <1>2 DEF Takes, Frees, OrderInv
<1>3. CASE Rests
  <2>1. CASE dl = <<>>
    <3>1. dl' = dl /\ Len(dl) = 0 /\ rx_error' = rx_error
      BY <1>3, <2>1, EmptySeq DEF Rests
    <3>2. QED BY <1>e, <3>1 DEF OrderInv
  <2>2. CASE dl # <<>>
    BY <1>e, <1>3, <2>2 DEF Rests, OrderInv
  <2>3. QED BY <2>1, <2>2
<1>4. CASE Empties
  <2>1. InTurn(dl)
    <3>1. DOMAIN dl = 1 .. Len(dl)
      BY <1>s
    <3>2. QED BY <1>e, <3>1 DEF OrderInv, InTurn
  <2>2. rx_error' = rx_error /\ dl' = <<>>
    BY <1>4, <2>1 DEF Empties, Counted
  <2>3. Len(dl') = 0
    BY <2>2, EmptySeq
  <2>4. QED BY <1>e, <2>2, <2>3 DEF OrderInv
<1>5. CASE Receive
  <2>1. /\ Len(dl') = Len(dl) /\ UNCHANGED <<nr_trb, rx_error>> /\ \A k \in 1 .. Len(dl) : dl'[k].buf = dl[k].buf
    BY <1>e, <1>5, Receipt
  <2>2. QED BY <1>e, <2>1 DEF OrderInv
<1>6. CASE Received
  <2>1. /\ dl # <<>> /\ nr_trb' = After(nr_trb, 1) /\ rx_error' = rx_error
        /\ dl' = IF copying /\ Queued(Tail(dl)) THEN Append(Tail(dl), [buf |-> Before(nr_trb), pkt |-> 0]) ELSE Tail(dl)
        /\ [buf |-> Before(nr_trb), pkt |-> 0] \in Slots
    BY <1>e, <1>6, Drops
  <2> DEFINE t == Tail(dl)
  <2>2. t \in Seq(Slots) /\ Len(t) = Len(dl) - 1 /\ Len(dl) >= 1 /\ \A k \in 1 .. Len(dl) - 1 : t[k] = dl[k + 1]
    BY <1>s, <2>1, Tailed
  <2>3. ASSUME NEW k \in 1 .. Len(t) PROVE t[k].buf = After(nr_trb', k - 1)
    <3>1. k + 1 \in 1 .. Len(dl) /\ k \in 1 .. Len(dl) - 1 /\ k - 1 \in 0 .. N - 1 /\ (k + 1) - 1 = (k - 1) + 1
      BY <1>s, <2>2
    <3>2. t[k].buf = After(nr_trb, (k - 1) + 1)
      BY <1>e, <2>2, <3>1 DEF OrderInv
    <3>3. After(After(nr_trb, 1), k - 1) = After(nr_trb, (k - 1) + 1)
      BY <1>s, <3>1, Circle
    <3>4. QED BY <2>1, <3>2, <3>3
  <2>4. ~rx_error'
    BY <1>e, <2>1 DEF OrderInv
  <2>5. CASE dl' = t
    BY <2>3, <2>4, <2>5 DEF OrderInv
  <2>6. CASE copying /\ Queued(t) /\ dl' = Append(t, [buf |-> Before(nr_trb), pkt |-> 0])
    <3>0. Received /\ Kept /\ life = "bound"
      <4>1. pm = "ok"
        BY <2>6 DEF Queued
      <4>2. life = "bound"
        BY <1>e, <2>1, <4>1 DEF Core, ErrInv, DataInv, EmptyInv
      <4>3. Head(dl).pkt # 0
        BY <1>6 DEF Received
      <4>4. Kept
        BY <1>e, <1>s, <2>1, <4>3, Tailed DEF FreshInv
      <4>5. QED BY <1>6, <4>2, <4>4
    <3>1. Len(dl) = N
      BY <1>e, <1>s, <2>6, <3>0 DEF FullInv
    <3>2. Len(dl') = N /\ dl'[N] = [buf |-> Before(nr_trb), pkt |-> 0] /\ \A k \in 1 .. N - 1 : dl'[k] = t[k]
      <4>1. /\ Len(Append(t, [buf |-> Before(nr_trb), pkt |-> 0])) = Len(t) + 1
            /\ \A k \in 1 .. Len(t) : Append(t, [buf |-> Before(nr_trb), pkt |-> 0])[k] = t[k]
            /\ Append(t, [buf |-> Before(nr_trb), pkt |-> 0])[Len(t) + 1] = [buf |-> Before(nr_trb), pkt |-> 0]
        BY <2>1, <2>2, Appended
      <4>2. Len(t) = N - 1 /\ Len(t) + 1 = N
        BY <1>s, <2>2, <3>1
      <4> HIDE DEF t
      <4>3. QED BY <2>6, <4>1, <4>2
    <3>3. Before(nr_trb) = After(nr_trb', N - 1)
      <4>1. Before(nr_trb) = Back(nr_trb, 1) /\ Back(nr_trb, 0 + 1) = After(nr_trb, N - 0)
        <5>1. Before(Back(nr_trb, 0)) = Back(nr_trb, 0 + 1) /\ Back(nr_trb, 0) = nr_trb
              /\ Back(nr_trb, 0 + 1) = After(nr_trb, N - 0)
          <6>1. nr_trb \in 0 .. N /\ 0 \in 0 .. N - 1
            BY <1>s
          <6>2. QED BY <6>1, Circle
        <5>2. QED BY <5>1
      <4>2. After(After(nr_trb, 1), N - 1) = After(nr_trb, (N - 1) + 1)
        BY <1>s, Circle
      <4>3. (N - 1) + 1 = N /\ N - 0 = N /\ 0 + 1 = 1
        BY <1>s
      <4>4. QED BY <2>1, <4>1, <4>2, <4>3
    <3>4. ASSUME NEW k \in 1 .. Len(dl') PROVE dl'[k].buf = After(nr_trb', k - 1)
      <4>1. k \in 1 .. N - 1 \/ k = N
        BY <1>s, <3>2
      <4>2. CASE k \in 1 .. N - 1
        <5>1. k \in 1 .. Len(t)
          BY <1>s, <2>2, <3>1, <4>2
        <5>2. QED BY <2>3, <3>2, <4>2, <5>1
      <4>3. CASE k = N
        BY <3>2, <3>3, <4>3
      <4>4. QED BY <4>1, <4>2, <4>3
    <3>5. QED BY <2>4, <3>4 DEF OrderInv
  <2>7. QED BY <2>1, <2>5, <2>6
<1>7. ASSUME NEW u \in Users, ReadEnds(u), Kept PROVE OrderInv'
  <2>1. /\ UNCHANGED <<nr_trb, rx_error>>
        /\ cur_buf # Nothing /\ (~copying => Being = 1 /\ [buf |-> Before(cur_buf.buf), pkt |-> 0] \in Slots)
        /\ \/ dl' = dl
           \/ life = "bound" /\ ~copying /\ dl' = Append(dl, [buf |-> Before(cur_buf.buf), pkt |-> 0])
    BY <1>e, <1>7, Returns
  <2>2. CASE dl' = dl
    BY <1>e, <2>1, <2>2 DEF OrderInv
  <2>3. CASE life = "bound" /\ ~copying /\ dl' = Append(dl, [buf |-> Before(cur_buf.buf), pkt |-> 0])
    <3>1. Len(dl) + Len(pending) + 1 = N
      BY <1>e, <1>7, <1>s, <2>1, <2>3 DEF FullInv
    <3>2. cur_buf.buf = Back(nr_trb, Len(pending) + 1)
      BY <1>e, <2>1, <2>3 DEF PlaceInv, Trail
    <3>3. Before(cur_buf.buf) = After(nr_trb, Len(dl))
      <4> DEFINE p == Len(pending) + 1
      <4>1. Before(Back(nr_trb, p)) = Back(nr_trb, p + 1) /\ Back(nr_trb, p + 1) = After(nr_trb, N - p)
            /\ N - p = Len(dl)
        <5>1. CASE p \in 0 .. N - 1
          <6>1. N - p = Len(dl)
            BY <1>s, <3>1
          <6> HIDE DEF p
          <6>2. QED BY <1>s, <5>1, <6>1, Circle
        <5>2. CASE p = N
          <6>1. Len(dl) = 0 /\ N - p = 0
            BY <1>s, <3>1, <5>2
          <6>2. Before(Back(nr_trb, N)) = nr_trb /\ Back(nr_trb, N + 1) = nr_trb /\ After(nr_trb, 0) = nr_trb
            BY <1>s DEF Before, Back, After
          <6>3. QED BY <5>2, <6>1, <6>2
        <5>3. p \in 0 .. N
          BY <1>s, <3>1
        <5>4. QED BY <1>s, <5>1, <5>2, <5>3
      <4>2. QED BY <3>2, <4>1
    <3>4. /\ Len(dl') = Len(dl) + 1 /\ \A k \in 1 .. Len(dl) : dl'[k] = dl[k]
          /\ dl'[Len(dl) + 1] = [buf |-> Before(cur_buf.buf), pkt |-> 0]
      BY <1>s, <2>1, <2>3, Appended
    <3>5. ASSUME NEW k \in 1 .. Len(dl') PROVE dl'[k].buf = After(nr_trb', k - 1)
      <4>1. k \in 1 .. Len(dl) \/ k = Len(dl) + 1
        BY <1>s, <3>4
      <4>2. CASE k \in 1 .. Len(dl)
        BY <1>e, <2>1, <3>4, <4>2 DEF OrderInv
      <4>3. CASE k = Len(dl) + 1
        <5>1. k - 1 = Len(dl)
          BY <1>s, <4>3
        <5>2. QED BY <2>1, <3>3, <3>4, <4>3, <5>1
      <4>4. QED BY <4>1, <4>2, <4>3
    <3>6. QED BY <1>e, <2>1, <3>5 DEF OrderInv
  <2>4. QED BY <2>1, <2>2, <2>3
<1>8. QED BY <1>1, <1>2, <1>3, <1>4, <1>5, <1>6, <1>7 DEF TameStep

\* Who copies a packet has one.
LEMMA CopyStays ==
  ASSUME Core, CopyInv, DataStep
  PROVE  CopyInv'
<1>e. CopyInv /\ TypeOK
  BY DEF Core
<1>s. pending \in Seq(Items) /\ Len(pending) \in Nat
  BY <1>e, Sizes
<1>1. ASSUME NoneCopies, UNCHANGED <<pending, cur_buf>> PROVE CopyInv'
  BY <1>e, <1>1 DEF NoneCopies, CopyInv
<1>2. ASSUME NEW u \in Users, Takes(u) PROVE CopyInv'
  <2>1. pending # <<>> /\ cur_buf' = Head(pending) /\ pending' = Tail(pending)
    BY <1>2 DEF Takes
  <2>2. /\ Len(pending') = Len(pending) - 1 /\ \A k \in 1 .. Len(pending) - 1 : pending'[k] = pending[k + 1]
        /\ Head(pending) = pending[1] /\ Len(pending) >= 1
    BY <1>s, <2>1, Tailed
  <2>3. cur_buf'.pkt # 0
    BY <1>e, <1>s, <2>1, <2>2 DEF CopyInv
  <2>4. cur_buf' # Nothing
    BY <2>3 DEF Nothing
  <2>5. ASSUME NEW k \in 1 .. Len(pending') PROVE pending'[k].pkt # 0
    <3>1. k \in 1 .. Len(pending) - 1 /\ k + 1 \in 1 .. Len(pending)
      BY <1>s, <2>2
    <3>2. QED BY <1>e, <2>2, <3>1 DEF CopyInv
  <2>6. QED BY <2>4, <2>5 DEF CopyInv
<1>3. ASSUME NEW u \in Users, ReadEnds(u), Kept PROVE CopyInv'
  <2>1. pending' = pending /\ \A v \in Users : pc'[v] # <<"copy">>
    <3>1. /\ pc'[u] = Opened /\ \A v \in Users : v # u => pc'[v] = pc[v] /\ pc[v] # <<"copy">>
          /\ pending' = pending
      BY <1>e, <1>3, ReadOver
    <3>2. QED BY <3>1 DEF Opened
  <2>2. QED BY <1>e, <2>1 DEF CopyInv
<1>4. CASE Receive /\ NoneCopies
  BY <1>1, <1>4, <1>e, Receipt
<1>5. CASE Received /\ NoneCopies
  <2>1. /\ Head(dl).pkt # 0 /\ cur_buf' = cur_buf
        /\ pending' = pending \/ \E e \in Items : e.pkt = Head(dl).pkt /\ pending' = Append(pending, e)
    BY <1>e, <1>5, Processed
  <2>2. CASE pending' = pending
    BY <1>1, <1>5, <2>1, <2>2
  <2>3. ASSUME NEW e \in Items, e.pkt = Head(dl).pkt, pending' = Append(pending, e) PROVE CopyInv'
    <3>1. /\ Len(pending') = Len(pending) + 1 /\ \A k \in 1 .. Len(pending) : pending'[k] = pending[k]
          /\ pending'[Len(pending) + 1] = e
      BY <1>s, <2>1, <2>3, Appended
    <3>2. \A k \in 1 .. Len(pending') : pending'[k].pkt # 0
      BY <1>e, <1>s, <2>1, <2>3, <3>1 DEF CopyInv
    <3>3. QED BY <1>e, <1>5, <2>1, <3>2 DEF CopyInv, NoneCopies
  <2>4. QED BY <2>1, <2>2, <2>3
<1>6. CASE Empties
  BY <1>1, <1>6 DEF Empties
<1>7. CASE Frees
  BY <1>e, <1>7 DEF Frees, CopyInv, Out
<1>8. CASE Rests
  BY <1>e, <1>8 DEF Rests, CopyInv
<1>9. ASSUME NEW u \in Users, NEW i \in 0 .. N - 1, Puts(u, i) PROVE CopyInv'
  BY <1>1, <1>9 DEF Puts
<1>10. QED BY <1>2, <1>3, <1>4, <1>5, <1>6, <1>7, <1>8, <1>9 DEF DataStep

\* A thread that fills the ring has filled as much as it says.
LEMMA FillStays ==
  ASSUME Core, Core', [Next]_vars, DataInv, Regular, TameStep, life' = "bound" => life = "bound"
  PROVE  FillInv'
<1>e. FillInv /\ TypeOK /\ LockInv /\ ErrInv
  BY DEF DataInv, Core
<1>n. N \in Nat \ {0} /\ NoOne \notin Users
  BY UciAssumption
<1>s. dl \in Seq(Slots) /\ Len(dl) \in Nat
  BY <1>e, Sizes
<1> SUFFICES ASSUME life' = "bound", NEW v \in Users, NEW j \in 0 .. N - 1, pc'[v] = <<"fill", j>>
             PROVE  Len(dl') = j /\ (j > 0 => nr_trb' = 0)
  BY DEF FillInv
<1>f. ASSUME NEW u \in Users, NEW i \in 0 .. N - 1, pc[u] = <<"fill", i>>
      PROVE  drv_lock = u /\ ~Kept /\ (i = 0 => uci_buf = "none") /\ (i > 0 => uci_buf = "there")
  <2>1. pc[u] \in Opening /\ (i = 0 => pc[u] \in Bare) /\ (i > 0 => pc[u] \in Stocked)
    <3>1. i = 0 \/ i \in 1 .. N - 1
      BY <1>n
    <3>2. QED BY <1>f, <3>1, Labels DEF Opening
  <2>2. QED BY <1>e, <1>n, <2>1, Stands DEF Kept
<1>1. CASE pc'[v] = pc[v]
  <2>1. pc[v] = <<"fill", j>> /\ drv_lock = v /\ ~Kept /\ Len(dl) = j /\ (j > 0 => nr_trb = 0)
    BY <1>1, <1>e, <1>f DEF FillInv
  <2>2. ASSUME NEW u \in Users, NEW i \in 0 .. N - 1, Puts(u, i) PROVE FALSE
    <3>1. pc[u] = <<"fill", i>> /\ (pc'[u] = Opened \/ pc'[u] = <<"fill", i + 1>>)
      BY <2>2 DEF Puts
    <3>2. u = v
      BY <1>f, <2>1, <3>1
    <3>3. i = j
      BY <2>1, <3>1, <3>2
    <3>4. QED BY <1>1, <2>1, <3>1, <3>2, <3>3 DEF Opened
  <2>3. Empties \/ Frees \/ Rests
    BY <2>1, <2>2 DEF TameStep, Takes
  <2>4. Rests
    BY <2>1, <2>3 DEF Empties, Frees, Out
  <2>5. QED BY <2>1, <2>4 DEF Rests
<1>2. CASE pc'[v] # pc[v]
  <2>1. CASE \E c \in Chans : Started(v, c) /\ j = 0
    <3>1. PICK c \in Chans : At(v, <<"starting", c>>) /\ UNCHANGED dl
      BY <2>1 DEF Started
    <3>2. pc[v] \in Bare
      BY <3>1, Labels DEF At
    <3>3. dl = <<>>
      BY <1>e, <3>2, Stands DEF ErrInv
    <3>4. QED BY <2>1, <3>1, <3>3, EmptySeq
  <2>2. ASSUME NEW i \in 0 .. N - 1, Fill(v), pc[v] = <<"fill", i>>, j = i + 1
        PROVE  Len(dl') = j /\ (j > 0 => nr_trb' = 0)
    <3>1. PICK k \in 0 .. N - 1 :
            /\ pc[v] = <<"fill", k>> /\ nr_trb' = (IF uci_buf = "none" THEN 0 ELSE nr_trb)
            /\ \/ Goto(v, <<"unprepare", "dl", "fill">>)
               \/ dl' = Append(dl, [buf |-> k, pkt |-> 0])
      BY <2>2 DEF Fill, At, order
    <3>2. k = i
      BY <2>2, <3>1
    <3>3. dl' = Append(dl, [buf |-> i, pkt |-> 0])
      <4>1. ASSUME Goto(v, <<"unprepare", "dl", "fill">>) PROVE FALSE
        <5>1. pc'[v] = <<"unprepare", "dl", "fill">>
          BY <1>e, <4>1, Moves
        <5>2. QED BY <5>1
      <4>2. QED BY <3>1, <3>2, <4>1
    <3>4. Len(dl) = i /\ (i > 0 => nr_trb = 0)
      BY <1>e, <2>2 DEF FillInv
    <3>5. [buf |-> i, pkt |-> 0] \in Slots
      BY UciAssumption DEF Slots, Buffers
    <3>6. Len(dl') = i + 1
      BY <1>s, <3>3, <3>4, <3>5, Appended
    <3>7. nr_trb' = 0
      <4>1. CASE i = 0
        BY <1>f, <2>2, <3>1, <4>1
      <4>2. CASE i > 0
        BY <1>f, <2>2, <3>1, <3>4, <4>2
      <4>3. QED BY <4>1, <4>2
    <3>8. QED BY <2>2, <3>6, <3>7
  <2>3. QED BY <1>2, <1>e, <2>1, <2>2, FillEnters
<1>3. QED BY <1>1, <1>2

\* What TakePacket makes of the packets that wait.
LEMMA Taking ==
  ASSUME TypeOK, CopyInv, NEW u \in Users, Takes(u)
  PROVE  /\ Len(pending) >= 1 /\ Len(pending') = Len(pending) - 1 /\ cur_buf' = pending[1]
         /\ \A k \in 1 .. Len(pending') : pending'[k] = pending[k + 1]
         /\ cur_buf = Nothing /\ Being = 0 /\ cur_buf' # Nothing /\ Being' = 1
<1>1. pending # <<>> /\ cur_buf' = Head(pending) /\ pending' = Tail(pending) /\ cur_buf = Nothing
  BY DEF Takes
<1>s. pending \in Seq(Items) /\ Len(pending) \in Nat
  BY Sizes
<1>2. /\ Len(pending') = Len(pending) - 1 /\ \A k \in 1 .. Len(pending) - 1 : pending'[k] = pending[k + 1]
      /\ Head(pending) = pending[1] /\ Len(pending) >= 1
  BY <1>s, <1>1, Tailed
<1>3. cur_buf'.pkt # 0
  BY <1>s, <1>1, <1>2 DEF CopyInv
<1>4. cur_buf' # Nothing
  BY <1>3 DEF Nothing
<1>5. QED BY <1>1, <1>2, <1>4 DEF Being

\* No buffer is lost while the modem lives.
LEMMA FullStays ==
  ASSUME Core, DataInv, Regular, TameStep, copying' = copying, life' = "bound" => life = "bound"
  PROVE  FullInv'
<1>e. FreshInv /\ OrderInv /\ CopyInv /\ FillInv /\ PlaceInv /\ FullInv /\ TypeOK /\ ErrInv /\ Regular
  BY DEF DataInv, Core
<1>s. /\ dl \in Seq(Slots) /\ Len(dl) \in Nat /\ Len(dl) <= N /\ N \in Nat \ {0} /\ nr_trb \in 0 .. N
      /\ pending \in Seq(Items) /\ Len(pending) \in Nat /\ Being \in 0 .. 1
  BY <1>e, Sizes
<1> DEFINE More == IF copying THEN 0 ELSE Len(pending) + Being
<1> SUFFICES ASSUME life' = "bound", Kept' PROVE Len(dl') + More' = N
  BY DEF FullInv
<1>b. life = "bound" /\ pm = "ok"
  BY <1>e DEF ErrInv
<1>k. Kept => Len(dl) + More = N
  BY <1>b, <1>e DEF FullInv
<1>c. copying' = copying
  OBVIOUS
<1>1. ASSUME NEW u \in Users, NEW i \in 0 .. N - 1, Puts(u, i) PROVE Len(dl') + More' = N
  <2>1. /\ i = N - 1 /\ pending' = <<>> /\ cur_buf' = Nothing /\ dl' = Append(dl, [buf |-> i, pkt |-> 0]) /\ Len(dl) = i
    BY <1>1, <1>b, <1>e DEF Puts, FreshInv, FillInv
  <2>2. [buf |-> i, pkt |-> 0] \in Slots
    BY UciAssumption DEF Slots, Buffers
  <2>3. Len(dl') = i + 1
    BY <1>s, <2>1, <2>2, Appended
  <2>4. More' = 0
    BY <2>1, EmptySeq DEF Being
  <2> HIDE DEF More
  <2>5. QED BY <1>s, <2>1, <2>3, <2>4
<1>2. ASSUME NEW u \in Users, Takes(u) PROVE Len(dl') + More' = N
  <2>1. Len(pending) >= 1 /\ Len(pending') = Len(pending) - 1 /\ Being = 0 /\ Being' = 1
    BY <1>2, <1>e, Taking
  <2>2. dl' = dl /\ Kept
    BY <1>2 DEF Takes
  <2>3. QED BY <1>c, <1>k, <1>s, <2>1, <2>2
<1>3. ASSUME NEW u \in Users, ReadEnds(u), Kept PROVE Len(dl') + More' = N
  <2>1. /\ cur_buf' = Nothing /\ pending' = pending /\ (copying => dl' = dl)
        /\ \/ dl' = dl /\ (life = "bound" => copying)
           \/ life = "bound" /\ ~copying /\ dl' = Append(dl, [buf |-> Before(cur_buf.buf), pkt |-> 0])
        /\ ~copying => Being = 1 /\ [buf |-> Before(cur_buf.buf), pkt |-> 0] \in Slots
    BY <1>3, <1>e, Returns
  <2>2. CASE copying
    BY <1>3, <1>c, <1>k, <2>1, <2>2
  <2>3. CASE ~copying
    <3>1. Len(dl') = Len(dl) + 1
      BY <1>b, <1>s, <2>1, <2>3, Appended
    <3>2. Being' = 0
      BY <2>1 DEF Being
    <3>3. QED BY <1>3, <1>c, <1>k, <1>s, <2>1, <2>3, <3>1, <3>2
  <2>4. QED BY <2>2, <2>3
<1>4. ASSUME Receive, Kept PROVE Len(dl') + More' = N
  <2>1. Len(dl') = Len(dl) /\ UNCHANGED <<pending, cur_buf>>
    BY <1>4, <1>e, Receipt
  <2>2. Being' = Being
    BY <2>1 DEF Being
  <2>3. QED BY <1>4, <1>c, <1>k, <2>1, <2>2
<1>5. ASSUME Received, Kept PROVE Len(dl') + More' = N
  <2> DEFINE e == [buf |-> IF copying THEN NoBuf ELSE nr_trb, pkt |-> Head(dl).pkt]
             d == [buf |-> Before(nr_trb), pkt |-> 0]
             t == Tail(dl)
  <2>1. /\ dl # <<>> /\ cur_buf' = cur_buf /\ e \in Items /\ d \in Slots
        /\ pending' = IF copying /\ Unheard THEN pending ELSE Append(pending, e)
        /\ dl' = IF copying /\ Queued(t) THEN Append(t, d) ELSE t
    BY <1>5, <1>e, Drops
  <2> HIDE DEF e, d
  <2>2. t \in Seq(Slots) /\ Len(t) = Len(dl) - 1 /\ Len(dl) >= 1
    BY <1>s, <2>1, Tailed
  <2> HIDE DEF t
  <2>3. Being' = Being
    BY <2>1 DEF Being
  <2>4. CASE copying
    <3>1. Queued(t)
      BY <1>b, <1>s, <2>2 DEF Queued
    <3>2. Len(dl') = Len(t) + 1
      BY <2>1, <2>2, <2>4, <3>1, Appended
    <3>3. QED BY <1>5, <1>c, <1>k, <1>s, <2>2, <2>4, <3>2
  <2>5. CASE ~copying
    <3>1. Len(pending') = Len(pending) + 1
      BY <1>s, <2>1, <2>5, Appended
    <3>2. QED BY <1>5, <1>c, <1>k, <1>s, <2>1, <2>2, <2>3, <2>5, <3>1
  <2>6. QED BY <2>4, <2>5
<1>6. CASE Empties \/ Frees
  BY <1>6 DEF Empties, Frees
<1>7. CASE Rests
  <2>1. Kept /\ UNCHANGED <<dl, pending, cur_buf>>
    BY <1>7 DEF Rests
  <2>2. Being' = Being
    BY <2>1 DEF Being
  <2>3. QED BY <1>c, <1>k, <2>1, <2>2
<1>8. QED BY <1>1, <1>2, <1>3, <1>4, <1>5, <1>6, <1>7 DEF TameStep

\* The packets that wait keep their places.
LEMMA PlaceStays ==
  ASSUME Core, DataInv, Regular, TameStep, copying' = copying, life' = "bound" => life = "bound"
  PROVE  PlaceInv'
<1>e. FreshInv /\ OrderInv /\ CopyInv /\ FillInv /\ PlaceInv /\ FullInv /\ TypeOK /\ ErrInv /\ Regular
  BY DEF DataInv, Core
<1>s. /\ dl \in Seq(Slots) /\ Len(dl) \in Nat /\ Len(dl) <= N /\ N \in Nat \ {0} /\ nr_trb \in 0 .. N
      /\ pending \in Seq(Items) /\ Len(pending) \in Nat /\ Being \in 0 .. 1
  BY <1>e, Sizes
<1>c. copying' = copying
  OBVIOUS
<1>r. ASSUME UNCHANGED <<pending, cur_buf>>, Len(dl') <= Len(dl), Len(dl') \in Nat,
             dl' # <<>> \/ life' = "bound" => (dl # <<>> \/ life = "bound") /\ nr_trb' = nr_trb
      PROVE  PlaceInv'
  <2>1. Being' = Being
    BY <1>r DEF Being
  <2>2. CASE copying
    BY <1>c, <1>e, <1>r, <2>2 DEF PlaceInv
  <2>3. CASE ~copying
    <3>1. PICK o \in Buffers : Trail(o)
      BY <1>e, <2>3 DEF PlaceInv
    <3>2. Trail(o)'
      BY <1>r, <3>1 DEF Trail
    <3>3. Len(dl') + Len(pending') + Being' <= N
      <4>1. Len(dl) + Len(pending) + Being <= N /\ pending' = pending
        BY <1>e, <1>r, <2>3 DEF PlaceInv
      <4>2. QED BY <1>r, <1>s, <2>1, <4>1
    <3>4. QED BY <1>c, <2>3, <3>2, <3>3 DEF PlaceInv
  <2>4. QED BY <2>2, <2>3
<1>1. ASSUME NEW u \in Users, NEW i \in 0 .. N - 1, Puts(u, i) PROVE PlaceInv'
  <2>1. /\ pending' = <<>> /\ cur_buf' = Nothing /\ dl' = Append(dl, [buf |-> i, pkt |-> 0]) /\ Len(dl) = i
        /\ nr_trb' = (IF i = 0 THEN 0 ELSE nr_trb)
    BY <1>1, <1>e DEF Puts, FreshInv, FillInv
  <2>2. [buf |-> i, pkt |-> 0] \in Slots
    BY UciAssumption DEF Slots, Buffers
  <2>3. Len(dl') = i + 1 /\ Len(pending') = 0 /\ Being' = 0
    BY <1>s, <2>1, <2>2, Appended, EmptySeq DEF Being
  <2>4. cur_buf'.buf = NoBuf /\ nr_trb' \in Buffers
    BY <1>s, <2>1 DEF Nothing, Buffers
  <2>5. PICK o \in Buffers : o = nr_trb'
    BY <2>4
  <2>8. Trail(o)'
    BY <2>1, <2>3, <2>5 DEF Trail
  <2>6. Len(dl') + Len(pending') + Being' <= N
    BY <1>s, <2>3
  <2>7. QED BY <2>3, <2>4, <2>6, <2>8 DEF PlaceInv
<1>2. ASSUME NEW u \in Users, Takes(u) PROVE PlaceInv'
  <2>1. /\ Len(pending) >= 1 /\ Len(pending') = Len(pending) - 1 /\ cur_buf' = pending[1]
        /\ \A k \in 1 .. Len(pending') : pending'[k] = pending[k + 1]
        /\ Being = 0 /\ Being' = 1
    BY <1>2, <1>e, Taking
  <2>2. UNCHANGED <<dl, nr_trb, life>>
    BY <1>2 DEF Takes
  <2>3. ASSUME NEW k \in 1 .. Len(pending')
        PROVE  k + 1 \in 1 .. Len(pending) /\ Len(pending) + 1 - (k + 1) = Len(pending') + 1 - k
    <3> DEFINE p == Len(pending)
               q == Len(pending')
    <3>1. p \in Nat /\ p >= 1 /\ q = p - 1 /\ k \in 1 .. q
      BY <1>s, <2>1, <2>3
    <3> HIDE DEF p, q
    <3>2. k + 1 \in 1 .. p /\ p + 1 - (k + 1) = q + 1 - k
      BY <3>1
    <3>3. QED BY <3>2 DEF p, q
  <2>4. CASE copying
    <3>1. cur_buf'.buf = NoBuf
      BY <1>e, <1>s, <2>1, <2>4 DEF PlaceInv
    <3>2. \A k \in 1 .. Len(pending') : pending'[k].buf = NoBuf
      BY <1>e, <2>1, <2>3, <2>4 DEF PlaceInv
    <3>3. QED BY <1>c, <2>4, <3>1, <3>2 DEF PlaceInv
  <2>5. CASE ~copying
    <3>1. PICK o \in Buffers : Trail(o)
      BY <1>e, <2>5 DEF PlaceInv
    <3>2. cur_buf'.buf = Back(o, Len(pending') + 1)
      <4>1. 1 \in 1 .. Len(pending) /\ Len(pending) + 1 - 1 = Len(pending') + 1
        BY <1>s, <2>1
      <4>2. QED BY <2>1, <3>1, <4>1 DEF Trail
    <3>3. \A k \in 1 .. Len(pending') : pending'[k].buf = Back(o, Len(pending') + 1 - k)
      BY <2>1, <2>3, <3>1 DEF Trail
    <3>4. Trail(o)'
      BY <2>2, <3>1, <3>2, <3>3 DEF Trail
    <3>5. Len(dl') + Len(pending') + Being' <= N
      <4>1. Len(dl) + Len(pending) + Being <= N
        BY <1>e, <2>5 DEF PlaceInv
      <4>2. QED BY <1>s, <2>1, <2>2, <4>1
    <3>6. QED BY <1>c, <2>5, <3>4, <3>5 DEF PlaceInv
  <2>6. QED BY <2>4, <2>5
<1>3. ASSUME NEW u \in Users, ReadEnds(u), Kept PROVE PlaceInv'
  <2>1. /\ cur_buf' = Nothing /\ pending' = pending /\ UNCHANGED <<nr_trb, life>>
        /\ \/ dl' = dl
           \/ life = "bound" /\ ~copying /\ dl' = Append(dl, [buf |-> Before(cur_buf.buf), pkt |-> 0])
        /\ ~copying => Being = 1 /\ [buf |-> Before(cur_buf.buf), pkt |-> 0] \in Slots
    BY <1>3, <1>e, Returns
  <2>2. cur_buf'.buf = NoBuf /\ Being' = 0
    BY <2>1 DEF Nothing, Being
  <2>3. CASE copying
    BY <1>c, <1>e, <2>1, <2>2, <2>3 DEF PlaceInv
  <2>4. CASE ~copying
    <3>1. PICK o \in Buffers : Trail(o)
      BY <1>e, <2>4 DEF PlaceInv
    <3>2. Trail(o)'
      BY <2>1, <3>1 DEF Trail
    <3>3. Len(dl') + Len(pending') + Being' <= N
      <4>1. Len(dl) + Len(pending) + Being <= N /\ Being = 1
        BY <1>e, <2>1, <2>4 DEF PlaceInv
      <4>2. Len(dl') <= Len(dl) + 1 /\ Len(dl') \in Nat
        <5>1. CASE dl' = dl
          BY <1>s, <5>1
        <5>2. CASE dl' = Append(dl, [buf |-> Before(cur_buf.buf), pkt |-> 0])
          BY <1>s, <2>1, <2>4, <5>2, Appended
        <5>3. QED BY <2>1, <5>1, <5>2
      <4>3. QED BY <1>s, <2>1, <2>2, <4>1, <4>2
    <3>4. QED BY <1>c, <2>4, <3>2, <3>3 DEF PlaceInv
  <2>5. QED BY <2>3, <2>4
<1>4. ASSUME Receive, life' = life PROVE PlaceInv'
  <2>1. dl # <<>> /\ Len(dl') = Len(dl) /\ UNCHANGED <<nr_trb, pending, cur_buf>>
    BY <1>4, <1>e, Receipt
  <2>2. QED BY <1>r, <1>s, <2>1
<1>5. ASSUME Received PROVE PlaceInv'
  <2> DEFINE e == [buf |-> IF copying THEN NoBuf ELSE nr_trb, pkt |-> Head(dl).pkt]
             d == [buf |-> Before(nr_trb), pkt |-> 0]
             t == Tail(dl)
  <2>0. e.buf = IF copying THEN NoBuf ELSE nr_trb
    OBVIOUS
  <2>1. /\ dl # <<>> /\ cur_buf' = cur_buf /\ e \in Items /\ d \in Slots /\ nr_trb' = After(nr_trb, 1)
        /\ pending' = IF copying /\ Unheard THEN pending ELSE Append(pending, e)
        /\ dl' = IF copying /\ Queued(t) THEN Append(t, d) ELSE t
    BY <1>5, <1>e, Drops
  <2> HIDE DEF e, d
  <2>2. t \in Seq(Slots) /\ Len(t) = Len(dl) - 1 /\ Len(dl) >= 1
    BY <1>s, <2>1, Tailed
  <2> HIDE DEF t
  <2>3. Being' = Being
    BY <2>1 DEF Being
  <2>4. /\ Append(pending, e) \in Seq(Items) /\ Len(Append(pending, e)) = Len(pending) + 1
        /\ \A k \in 1 .. Len(pending) : Append(pending, e)[k] = pending[k]
        /\ Append(pending, e)[Len(pending) + 1] = e
    BY <1>s, <2>1, Appended
  <2>5. CASE copying
    <3>1. cur_buf'.buf = NoBuf
      BY <1>e, <2>1, <2>5 DEF PlaceInv
    <3>2. \A k \in 1 .. Len(pending') : pending'[k].buf = NoBuf
      <4>1. CASE pending' = pending
        BY <1>e, <2>5, <4>1 DEF PlaceInv
      <4>2. CASE pending' = Append(pending, e)
        <5>1. ASSUME NEW k \in 1 .. Len(pending') PROVE pending'[k].buf = NoBuf
          <6>1. k \in 1 .. Len(pending) \/ k = Len(pending) + 1
            BY <1>s, <2>4, <4>2
          <6>2. CASE k \in 1 .. Len(pending)
            BY <1>e, <2>4, <2>5, <4>2, <6>2 DEF PlaceInv
          <6>3. CASE k = Len(pending) + 1
            BY <2>0, <2>4, <2>5, <4>2, <6>3
          <6>4. QED BY <6>1, <6>2, <6>3
        <5>2. QED BY <5>1
      <4>3. QED BY <2>1, <4>1, <4>2
    <3>3. QED BY <1>c, <2>5, <3>1, <3>2 DEF PlaceInv
  <2>6. CASE ~copying
    <3>1. PICK o \in Buffers : Trail(o)
      BY <1>e, <2>6 DEF PlaceInv
    <3>2. o = nr_trb /\ nr_trb' \in Buffers
      <4>1. 1 \in 0 .. N
        BY <1>s
      <4>2. After(nr_trb, 1) \in 0 .. N
        BY <1>s, <4>1, Circle
      <4>3. QED BY <2>1, <3>1, <4>2 DEF Trail, Buffers
    <3>3. Len(dl) + Len(pending) + Being <= N
      BY <1>e, <2>6 DEF PlaceInv
    <3>4. ASSUME NEW k \in 0 .. N - 1 PROVE Back(nr_trb', k + 1) = Back(nr_trb, k)
      BY <1>s, <2>1, Circle
    <3>5. pending' = Append(pending, e) /\ dl' = t
      BY <2>1, <2>6
    <3>6. ASSUME NEW k \in 1 .. Len(pending') PROVE pending'[k].buf = Back(nr_trb', Len(pending') + 1 - k)
      <4>1. k \in 1 .. Len(pending) \/ k = Len(pending) + 1
        BY <1>s, <2>4, <3>5
      <4>2. CASE k \in 1 .. Len(pending)
        <5>1. Len(pending) + 1 - k \in 0 .. N - 1 /\ (Len(pending) + 1 - k) + 1 = Len(pending') + 1 - k
          BY <1>s, <2>2, <2>4, <3>3, <3>5, <4>2
        <5>2. pending'[k].buf = Back(nr_trb, Len(pending) + 1 - k)
          BY <2>4, <3>1, <3>2, <3>5, <4>2 DEF Trail
        <5>3. Back(nr_trb', (Len(pending) + 1 - k) + 1) = Back(nr_trb, Len(pending) + 1 - k)
          BY <3>4, <5>1
        <5>4. QED BY <5>1, <5>2, <5>3
      <4>3. CASE k = Len(pending) + 1
        <5>1. pending'[k].buf = nr_trb
          BY <2>0, <2>4, <2>6, <3>5, <4>3
        <5>2. Len(pending') + 1 - k = 0 + 1 /\ 0 \in 0 .. N - 1
          BY <1>s, <2>4, <3>5, <4>3
        <5>3. Back(nr_trb', 0 + 1) = Back(nr_trb, 0) /\ Back(nr_trb, 0) = nr_trb
          BY <1>s, <3>4, <5>2, Circle
        <5>4. QED BY <5>1, <5>2, <5>3
      <4>4. QED BY <4>1, <4>2, <4>3
    <3>7. ASSUME cur_buf' # Nothing PROVE cur_buf'.buf = Back(nr_trb', Len(pending') + 1)
      <4>1. Being = 1 /\ cur_buf.buf = Back(nr_trb, Len(pending) + 1) /\ cur_buf' = cur_buf
        BY <2>1, <3>1, <3>2, <3>7 DEF Being, Trail
      <4>2. Len(pending) + 1 \in 0 .. N - 1 /\ (Len(pending) + 1) + 1 = Len(pending') + 1
        BY <1>s, <2>2, <2>4, <3>3, <3>5, <4>1
      <4>3. Back(nr_trb', (Len(pending) + 1) + 1) = Back(nr_trb, Len(pending) + 1)
        BY <3>4, <4>2
      <4>4. QED BY <4>1, <4>2, <4>3
    <3>8. PICK q \in Buffers : q = nr_trb'
      BY <3>2
    <3>11. Trail(q)'
      BY <3>6, <3>7, <3>8 DEF Trail
    <3>9. Len(dl') + Len(pending') + Being' <= N
      BY <1>s, <2>2, <2>3, <2>4, <3>3, <3>5
    <3>10. QED BY <1>c, <2>6, <3>11, <3>9 DEF PlaceInv
  <2>7. QED BY <2>5, <2>6
<1>6. CASE Empties
  <2>1. UNCHANGED <<pending, cur_buf>> /\ dl' = <<>> /\ life' # "bound"
    BY <1>6 DEF Empties
  <2>2. Len(dl') = 0
    BY <2>1, EmptySeq
  <2>3. QED BY <1>r, <1>s, <2>1, <2>2
<1>7. CASE Frees
  <2>1. UNCHANGED <<pending, dl, nr_trb, life>> /\ cur_buf' = Nothing
    BY <1>7 DEF Frees
  <2>2. cur_buf'.buf = NoBuf /\ Being' = 0
    BY <2>1 DEF Nothing, Being
  <2>3. CASE copying
    BY <1>c, <1>e, <2>1, <2>2, <2>3 DEF PlaceInv
  <2>4. CASE ~copying
    <3>1. PICK o \in Buffers : Trail(o)
      BY <1>e, <2>4 DEF PlaceInv
    <3>2. Trail(o)'
      BY <2>1, <3>1 DEF Trail
    <3>3. Len(dl') + Len(pending') + Being' <= N
      <4>1. Len(dl) + Len(pending) + Being <= N
        BY <1>e, <2>4 DEF PlaceInv
      <4>2. QED BY <1>s, <2>1, <2>2, <4>1
    <3>4. QED BY <1>c, <2>4, <3>2, <3>3 DEF PlaceInv
  <2>5. QED BY <2>3, <2>4
<1>8. CASE Rests
  <2>1. /\ UNCHANGED <<dl, pending, cur_buf>> /\ (nr_trb' = nr_trb \/ (dl = <<>> /\ life' # "bound"))
    BY <1>8 DEF Rests
  <2>2. QED BY <1>r, <1>s, <2>1
<1>9. QED BY <1>1, <1>2, <1>3, <1>4, <1>5, <1>6, <1>7, <1>8 DEF TameStep

\* The parts hold together.
LEMMA DataStarts == Init => DataInv
<1> SUFFICES ASSUME Init PROVE DataInv
  OBVIOUS
<1>n. N \in Nat \ {0}
  BY UciAssumption
<1>1. Len(dl) = 0 /\ Len(pending) = 0 /\ Being = 0 /\ cur_buf = Nothing /\ ~rx_error /\ nr_trb = 0 /\ dl = <<>>
  BY EmptySeq DEF Init, Being
<1>2. EmptyInv /\ FreshInv /\ OrderInv /\ ~Kept
  BY <1>1 DEF EmptyInv, FreshInv, OrderInv, Init, Kept
<1>3. \A u \in Users : pc[u] = Out
  BY DEF Init
<1>4. CopyInv /\ FillInv
  BY <1>1, <1>3 DEF CopyInv, FillInv, Out
<1>5. PlaceInv
  <2>1. Trail(0)
    BY <1>1 DEF Trail
  <2>2. 0 \in Buffers /\ cur_buf.buf = NoBuf /\ Len(dl) + Len(pending) + Being <= N
    BY <1>n, <1>1 DEF Buffers, Nothing
  <2>3. QED BY <1>1, <2>1, <2>2 DEF PlaceInv
<1>6. FullInv
  BY <1>2 DEF FullInv
<1>7. QED BY <1>2, <1>4, <1>5, <1>6 DEF DataInv

\* Together they are kept by every step: two of them always, all of them while the modem does what
\* mhi_dl_xfer_cb counts on.
LEMMA DataStays ==
  ASSUME Core, Core', [Next]_vars, StageInv, EmptyInv, CopyInv, Regular => DataInv
  PROVE  EmptyInv' /\ CopyInv' /\ (Regular' => DataInv')
<1>1. copying' = copying /\ (life' = "bound" => life = "bound") /\ (Kept => Kept') /\ DataStep
  BY DataSteps
<1>2. EmptyInv' /\ CopyInv'
  BY <1>1, EmptyStays, CopyStays
<1>3. ASSUME Regular' PROVE DataInv'
  <2>1. Regular /\ DataInv /\ TypeOK
    BY <1>3, OddTyped DEF Core
  <2>2. TameStep
    BY <1>1, <1>3, <2>1, TameSteps DEF DataInv
  <2>3. FreshInv' /\ OrderInv'
    BY <1>1, <2>1, <2>2, FreshStays, OrderStays
  <2>4. FillInv' /\ PlaceInv' /\ FullInv'
    BY <1>1, <2>1, <2>2, FillStays, PlaceStays, FullStays
  <2>5. QED BY <1>2, <2>3, <2>4 DEF DataInv
<1>4. QED BY <1>2, <1>3

\* They hold in every state.
LEMMA DataHolds == Spec => [](Core /\ QuietInv /\ StageInv /\ EmptyInv /\ CopyInv /\ (Regular => DataInv))
<1>1. Core /\ QuietInv /\ StageInv /\ EmptyInv /\ CopyInv /\ (Regular => DataInv) /\ [Next]_vars
        => EmptyInv' /\ CopyInv' /\ (Regular' => DataInv')
  BY CoreStays, DataStays
<1>2. Init => EmptyInv /\ CopyInv /\ DataInv
  BY DataStarts DEF DataInv
<1>3. QED BY <1>1, <1>2, StagesHold, PTL DEF Spec

\* A set without two elements has none or one.
LEMMA AtMostOne ==
  ASSUME NEW S, \A j, k \in S : j = k
  PROVE  Cardinality(S) = IF S = {} THEN 0 ELSE 1
<1>1. CASE S = {}
  BY <1>1, FS_EmptySet
<1>2. CASE S # {}
  <2>1. PICK x \in S : S = {x}
    BY <1>2
  <2>2. QED BY <1>2, <2>1, FS_Singleton
<1>3. QED BY <1>1, <1>2

\* In the ring, waiting or being read, a buffer is in one place.
LEMMA OwnedOnce ==
  ASSUME TypeOK, OrderInv, PlaceInv
  PROVE  BufferOwned
<1> SUFFICES ASSUME NEW b \in Buffers PROVE Held(b) <= 1
  BY DEF BufferOwned
<1>s. /\ dl \in Seq(Slots) /\ Len(dl) \in Nat /\ Len(dl) <= N /\ N \in Nat \ {0} /\ nr_trb \in 0 .. N
      /\ pending \in Seq(Items) /\ Len(pending) \in Nat /\ Being \in 0 .. 1
  BY Sizes
<1> DEFINE D == {k \in DOMAIN dl : dl[k].buf = b}
           P == {k \in DOMAIN pending : pending[k].buf = b}
<1>d. DOMAIN dl = 1 .. Len(dl) /\ DOMAIN pending = 1 .. Len(pending)
  BY <1>s
<1>b. b # NoBuf
  BY <1>s DEF Buffers, NoBuf
<1>1. ASSUME NEW j \in D PROVE j \in 1 .. Len(dl) /\ j - 1 \in 0 .. N /\ After(nr_trb, j - 1) = b
  BY <1>1, <1>d, <1>s DEF OrderInv
<1>2. \A j, k \in D : j = k
  <2>1. ASSUME NEW j \in D, NEW k \in D PROVE j = k
    <3>1. j - 1 = k - 1
      BY <1>1, <1>s, Apart
    <3>2. QED BY <1>1, <3>1
  <2>2. QED BY <2>1
<1>3. Cardinality(D) = IF D = {} THEN 0 ELSE 1
  BY <1>2, AtMostOne
<1>4. CASE copying
  <2>1. P = {}
    BY <1>4, <1>b, <1>d DEF PlaceInv
  <2>2. Cardinality(P) = 0
    BY <2>1, FS_EmptySet
  <2>3. cur_buf.buf # b
    BY <1>4, <1>b DEF PlaceInv
  <2>4. QED BY <1>3, <2>2, <2>3 DEF Held
<1>5. CASE ~copying
  <2>1. PICK o \in Buffers : Trail(o)
    BY <1>5 DEF PlaceInv
  <2>2. Len(dl) + Len(pending) + Being <= N /\ o \in 0 .. N
    BY <1>5 DEF PlaceInv, Buffers
  <2> DEFINE p == Len(pending)
  <2>3. ASSUME NEW j \in P PROVE j \in 1 .. p /\ p + 1 - j \in 1 .. N /\ p + 1 - j <= p /\ Back(o, p + 1 - j) = b
    <3>1. j \in 1 .. p /\ Back(o, p + 1 - j) = b
      BY <1>d, <2>1, <2>3 DEF Trail
    <3>2. QED BY <1>s, <2>2, <3>1
  <2>4. \A j, k \in P : j = k
    <3>1. ASSUME NEW j \in P, NEW k \in P PROVE j = k
      <4>1. p + 1 - j = p + 1 - k
        <5>1. p + 1 - j \in 0 .. N /\ p + 1 - k \in 0 .. N /\ Back(o, p + 1 - j) = Back(o, p + 1 - k)
          BY <2>3
        <5> HIDE DEF p, P
        <5>2. QED BY <2>2, <5>1, Apart
      <4>2. j \in 1 .. p /\ k \in 1 .. p
        BY <2>3
      <4>3. QED BY <1>s, <4>1, <4>2
    <3>2. QED BY <3>1
  <2>5. Cardinality(P) = IF P = {} THEN 0 ELSE 1
    BY <2>4, AtMostOne
  <2>6. ASSUME NEW i \in D, NEW j \in P PROVE FALSE
    <3>1. dl # <<>> /\ o = nr_trb
      <4>1. dl # <<>>
        BY <1>1, <1>s
      <4>2. QED BY <2>1, <4>1 DEF Trail
    <3>2. /\ p + 1 - j \in 0 .. N /\ p + 1 - j > 0 /\ i - 1 \in 0 .. N /\ (p + 1 - j) + (i - 1) <= N
          /\ Back(o, p + 1 - j) = b /\ After(nr_trb, i - 1) = b
      <4>1. i \in 1 .. Len(dl) /\ i - 1 \in 0 .. N /\ After(nr_trb, i - 1) = b
        BY <1>1
      <4>2. j \in 1 .. p /\ p + 1 - j \in 1 .. N /\ p + 1 - j <= p /\ Back(o, p + 1 - j) = b
        BY <2>3
      <4> HIDE DEF P, D
      <4>3. (p + 1 - j) + (i - 1) <= N
        BY <1>s, <2>2, <4>1, <4>2
      <4>4. QED BY <4>1, <4>2, <4>3
    <3> HIDE DEF p, P, D
    <3>3. QED BY <2>2, <3>1, <3>2, Apart
  <2>7. ASSUME cur_buf.buf = b PROVE D = {} /\ P = {}
    <3>1. cur_buf # Nothing
      BY <1>b, <2>7 DEF Nothing
    <3>2. Being = 1 /\ Back(o, p + 1) = b
      BY <2>1, <2>7, <3>1 DEF Being, Trail
    <3>3. p + 1 \in 0 .. N /\ p + 1 > 0
      BY <1>s, <2>2, <3>2
    <3>4. ASSUME NEW i \in D PROVE FALSE
      <4>1. dl # <<>> /\ o = nr_trb
        <5>1. dl # <<>>
          BY <1>1, <1>s
        <5>2. QED BY <2>1, <5>1 DEF Trail
      <4>2. i \in 1 .. Len(dl) /\ i - 1 \in 0 .. N /\ After(nr_trb, i - 1) = b
        BY <1>1
      <4> HIDE DEF P, D
      <4>3. (p + 1) + (i - 1) <= N
        BY <1>s, <2>2, <3>2, <4>2
      <4> HIDE DEF p
      <4>4. QED BY <2>2, <3>2, <3>3, <4>1, <4>2, <4>3, Apart
    <3>5. ASSUME NEW j \in P PROVE FALSE
      <4>1. j \in 1 .. p /\ p + 1 - j \in 1 .. N /\ Back(o, p + 1 - j) = b
        BY <2>3
      <4> HIDE DEF P, D
      <4>2. p + 1 - j # p + 1
        BY <1>s, <4>1
      <4> HIDE DEF p
      <4>3. QED BY <2>2, <3>2, <3>3, <4>1, <4>2, Apart
    <3>6. QED BY <3>4, <3>5
  <2>8. D = {} \/ P = {}
    BY <2>6
  <2> HIDE DEF D, P
  <2>9. Cardinality(D) + Cardinality(P) + (IF cur_buf.buf = b THEN 1 ELSE 0) <= 1
    BY <1>3, <2>5, <2>7, <2>8
  <2>10. QED BY <2>9 DEF Held, D, P
<1>6. QED BY <1>4, <1>5

\* While the modem does what mhi_dl_xfer_cb counts on (packets of a usable length, none before
\* mhi_queue_inbound is done), a receive buffer is never in the ring and with a reader, nor twice in
\* either, and the callback always gets the buffer it expects: one buffer more than descriptors,
\* requeued one behind, keeps the order of the addresses.
THEOREM BuffersInPlace == Spec => [](TypeOK /\ (Regular => WellFormed))
<1>1. Core /\ (Regular => DataInv) => TypeOK /\ (Regular => WellFormed)
  BY OwnedOnce DEF Core, DataInv, OrderInv, WellFormed, InOrder
<1>2. QED BY <1>1, DataHolds, PTL

-----------------------------------------------------------------------------
(* Packets come in their order.                                            *)

\* The packets that have come and are not yet processed are the first of the ring.
PktInv ==
  /\ arrived <= sent
  /\ \A k \in 1 .. Len(dl) : dl[k].pkt = IF arrived + k <= sent THEN arrived + k ELSE 0
  /\ life = "bound" => sent <= arrived + Len(dl)

\* They stay the first: packets come into the first empty descriptor.
LEMMA PktStays ==
  ASSUME Core, EmptyInv, CopyInv, DataStep, PktInv, life' = "bound" => life = "bound"
  PROVE  PktInv'
<1>e. EmptyInv /\ TypeOK /\ ErrInv
  BY DEF Core
<1>s. dl \in Seq(Slots) /\ Len(dl) \in Nat /\ N \in Nat \ {0} /\ sent \in Nat /\ arrived \in Nat
  <2>1. sent \in 0 .. Packets /\ arrived \in 0 .. Packets
    BY <1>e DEF TypeOK
  <2>2. QED BY <1>e, <2>1, Sizes
<1>r. ASSUME dl' = dl, arrived' = arrived, sent' = sent PROVE PktInv'
  BY <1>r DEF PktInv
<1>a. ASSUME NEW e \in Slots, e.pkt = 0, dl' = Append(dl, e), arrived' = arrived, sent' = sent, life = "bound"
      PROVE  PktInv'
  <2>1. Len(dl') = Len(dl) + 1 /\ dl'[Len(dl) + 1] = e /\ \A k \in 1 .. Len(dl) : dl'[k] = dl[k]
    BY <1>a, <1>s, Appended
  <2>2. arrived <= sent /\ sent <= arrived + Len(dl)
    BY <1>a DEF PktInv
  <2>3. ASSUME NEW k \in 1 .. Len(dl') PROVE dl'[k].pkt = IF arrived + k <= sent THEN arrived + k ELSE 0
    <3>1. k \in 1 .. Len(dl) \/ k = Len(dl) + 1
      BY <1>s, <2>1
    <3>2. CASE k \in 1 .. Len(dl)
      BY <2>1, <3>2 DEF PktInv
    <3>3. CASE k = Len(dl) + 1
      <4>1. ~(arrived + k <= sent)
        BY <1>s, <2>2, <3>3
      <4>2. QED BY <1>a, <2>1, <3>3, <4>1
    <3>4. QED BY <3>1, <3>2, <3>3
  <2>4. sent <= arrived + Len(dl')
    BY <1>s, <2>1, <2>2
  <2>5. QED BY <1>a, <2>2, <2>3, <2>4 DEF PktInv
<1>1. ASSUME NEW u \in Users, NEW i \in 0 .. N - 1, Puts(u, i) PROVE PktInv'
  <2> DEFINE e == [buf |-> i, pkt |-> 0]
  <2>1. e.pkt = 0 /\ e \in Slots
    BY UciAssumption DEF Slots, Buffers
  <2>2. dl' = Append(dl, e) /\ arrived' = arrived /\ sent' = sent /\ life = "bound"
    BY <1>1 DEF Puts, Hist
  <2> HIDE DEF e
  <2>3. QED BY <1>a, <2>1, <2>2
<1>2. CASE (\E u \in Users : Takes(u)) \/ Frees \/ Rests
  BY <1>r, <1>2 DEF Takes, Frees, Rests, Hist
<1>3. ASSUME NEW u \in Users, ReadEnds(u) PROVE PktInv'
  <2>1. /\ arrived' = arrived /\ sent' = sent
        /\ dl' = dl \/ (life = "bound" /\ \E e \in Slots : e.pkt = 0 /\ dl' = Append(dl, e))
    BY <1>3, ReadOver
  <2>2. QED BY <1>a, <1>r, <2>1
<1>4. CASE Receive
  <2>1. /\ Len(dl') = Len(dl) /\ sent' = sent + 1 /\ UNCHANGED <<life, arrived>>
    BY <1>4, <1>e, Receipt
  <2>2. PICK k \in 1 .. Len(dl) : /\ dl[k].pkt = 0 /\ dl'[k].pkt = sent + 1 /\ \A j \in 1 .. k - 1 : dl[j].pkt # 0
                                  /\ \A j \in 1 .. Len(dl) : j # k => dl'[j] = dl[j]
    BY <1>4, <1>e, Receipt
  <2>3. arrived + k = sent + 1
    <3>1. ~(arrived + k <= sent)
      <4>1. dl[k].pkt = IF arrived + k <= sent THEN arrived + k ELSE 0
        BY DEF PktInv
      <4>2. arrived + k # 0
        BY <1>s
      <4>3. QED BY <2>2, <4>1, <4>2
    <3>2. CASE k = 1
      BY <1>s, <3>1, <3>2 DEF PktInv
    <3>3. CASE k # 1
      <4>1. k - 1 \in 1 .. Len(dl) /\ k - 1 \in 1 .. k - 1
        BY <1>s, <3>3
      <4>2. dl[k - 1].pkt = (IF arrived + (k - 1) <= sent THEN arrived + (k - 1) ELSE 0) /\ dl[k - 1].pkt # 0
        BY <2>2, <4>1 DEF PktInv
      <4>3. arrived + (k - 1) <= sent
        BY <4>2
      <4>4. QED BY <1>s, <3>1, <4>3
    <3>4. QED BY <3>2, <3>3
  <2>4. ASSUME NEW j \in 1 .. Len(dl') PROVE dl'[j].pkt = IF arrived' + j <= sent' THEN arrived' + j ELSE 0
    <3>1. CASE j = k
      <4>1. arrived' + j = sent' /\ arrived' + j <= sent'
        BY <1>s, <2>1, <2>3, <3>1
      <4>2. QED BY <2>1, <2>2, <2>3, <3>1, <4>1
    <3>2. CASE j # k
      <4>1. dl'[j].pkt = IF arrived + j <= sent THEN arrived + j ELSE 0
        BY <2>1, <2>2, <3>2 DEF PktInv
      <4>2. arrived + j <= sent + 1 <=> arrived + j <= sent
        BY <1>s, <2>3, <3>2
      <4>3. QED BY <2>1, <4>1, <4>2
    <3>3. QED BY <3>1, <3>2
  <2>5. arrived' <= sent' /\ sent' <= arrived' + Len(dl')
    BY <1>s, <2>1, <2>3
  <2>6. QED BY <2>4, <2>5 DEF PktInv
<1>5. CASE Received
  <2> DEFINE t == Tail(dl)
  <2>1. /\ dl # <<>> /\ Head(dl).pkt # 0 /\ arrived' = Head(dl).pkt /\ UNCHANGED <<life, sent>>
        /\ dl' = t \/ (Queued(t) /\ \E d \in Slots : d.pkt = 0 /\ dl' = Append(t, d))
    BY <1>5, <1>e, Processed
  <2>2. /\ t \in Seq(Slots) /\ Len(t) = Len(dl) - 1 /\ Len(dl) >= 1 /\ Head(dl) = dl[1]
        /\ \A k \in 1 .. Len(dl) - 1 : t[k] = dl[k + 1]
    BY <1>s, <2>1, Tailed
  <2> HIDE DEF t
  <2>3. arrived' = arrived + 1 /\ arrived + 1 <= sent
    <3>1. 1 \in 1 .. Len(dl)
      BY <1>s, <2>2
    <3>2. dl[1].pkt = IF arrived + 1 <= sent THEN arrived + 1 ELSE 0
      BY <3>1 DEF PktInv
    <3>3. QED BY <2>1, <2>2, <3>2
  <2>4. ASSUME NEW k \in 1 .. Len(t) PROVE t[k].pkt = IF arrived' + k <= sent' THEN arrived' + k ELSE 0
    <3>1. k \in 1 .. Len(dl) - 1 /\ k + 1 \in 1 .. Len(dl) /\ arrived + (k + 1) = arrived' + k
      BY <1>s, <2>2, <2>3
    <3>2. dl[k + 1].pkt = IF arrived + (k + 1) <= sent THEN arrived + (k + 1) ELSE 0
      BY <3>1 DEF PktInv
    <3>3. QED BY <2>1, <2>2, <3>1, <3>2
  <2>5. life = "bound" => sent' <= arrived' + Len(t)
    <3>1. life = "bound" => sent <= arrived + Len(dl)
      BY DEF PktInv
    <3>2. QED BY <1>s, <2>1, <2>2, <2>3, <3>1
  <2>6. CASE dl' = t
    BY <2>1, <2>3, <2>4, <2>5, <2>6 DEF PktInv
  <2>7. ASSUME Queued(t), NEW d \in Slots, d.pkt = 0, dl' = Append(t, d) PROVE PktInv'
    <3>1. Len(dl') = Len(t) + 1 /\ dl'[Len(t) + 1] = d /\ \A k \in 1 .. Len(t) : dl'[k] = t[k]
      BY <2>1, <2>2, <2>7, Appended
    <3>2. life = "bound"
      BY <1>e, <2>1, <2>7 DEF Queued, ErrInv, EmptyInv
    <3>3. ~(arrived' + (Len(t) + 1) <= sent')
      BY <1>s, <2>1, <2>2, <2>3, <2>5, <3>2
    <3>4. ASSUME NEW k \in 1 .. Len(dl') PROVE dl'[k].pkt = IF arrived' + k <= sent' THEN arrived' + k ELSE 0
      <4>1. k \in 1 .. Len(t) \/ k = Len(t) + 1
        BY <1>s, <2>2, <3>1
      <4>2. CASE k \in 1 .. Len(t)
        BY <2>4, <3>1, <4>2
      <4>3. CASE k = Len(t) + 1
        BY <2>7, <3>1, <3>3, <4>3
      <4>4. QED BY <4>1, <4>2, <4>3
    <3>5. sent' <= arrived' + Len(dl')
      BY <1>s, <2>1, <2>2, <2>3, <2>5, <3>1, <3>2
    <3>6. QED BY <2>1, <2>3, <3>4, <3>5 DEF PktInv
  <2>8. QED BY <2>1, <2>6, <2>7
<1>6. CASE Empties
  <2>1. dl' = <<>> /\ arrived' = arrived /\ sent' = sent /\ life' # "bound"
    BY <1>6 DEF Empties, Hist
  <2>2. Len(dl') = 0
    BY <2>1, EmptySeq
  <2>3. QED BY <2>1, <2>2 DEF PktInv
<1>7. QED BY <1>1, <1>2, <1>3, <1>4, <1>5, <1>6 DEF DataStep

-----------------------------------------------------------------------------
(* The packet pipe.                                                        *)

\* The packets that wait, the one half read first.
Waits == [k \in 1 .. Len(pending) + (IF cur_buf = Nothing THEN 0 ELSE 1) |->
            IF cur_buf = Nothing THEN pending[k].pkt
            ELSE IF k = 1 THEN cur_buf.pkt ELSE pending[k - 1].pkt]
Listens == \E u \in Users : pc[u][1] \in {"open", "read", "copy", "write", "queue"}
Lives == pm = "ok" /\ life = "bound" /\ Regular

WaitsOK ==
  /\ Waits \in Seq(Nat) /\ Len(Waits) = Len(pending) + Being /\ Len(Waits) \in Nat
  /\ cur_buf = Nothing => \A k \in 1 .. Len(pending) : Waits[k] = pending[k].pkt
  /\ cur_buf # Nothing => /\ Waits[1] = cur_buf.pkt
                          /\ \A k \in 1 .. Len(pending) : Waits[k + 1] = pending[k].pkt

\* What they are, in this state
LEMMA WaitsAre == TypeOK => WaitsOK
<1> SUFFICES ASSUME TypeOK PROVE WaitsOK
  OBVIOUS
<1>s. pending \in Seq(Items) /\ Len(pending) \in Nat /\ Being \in 0 .. 1 /\ cur_buf \in Items
  BY Sizes
<1>p. /\ \A k \in 1 .. Len(pending) : pending[k].pkt \in Nat
      /\ cur_buf.pkt \in Nat
  <2>1. \A x \in Items : x.pkt \in Nat
    <3>1. Packets \in Nat
      BY UciAssumption
    <3>2. QED BY <3>1 DEF Items
  <2>2. QED BY <1>s, <2>1
<1> DEFINE n == Len(pending) + Being
<1>n. n \in Nat
  BY <1>s
<1>1. Waits = [k \in 1 .. n |-> IF cur_buf = Nothing THEN pending[k].pkt
                                ELSE IF k = 1 THEN cur_buf.pkt ELSE pending[k - 1].pkt]
  BY DEF Waits, Being
<1>2. ASSUME NEW k \in 1 .. n PROVE Waits[k] \in Nat
  <2>1. CASE cur_buf = Nothing
    <3>1. k \in 1 .. Len(pending)
      BY <1>s, <2>1 DEF Being
    <3>2. QED BY <1>1, <1>p, <2>1, <3>1
  <2>2. CASE cur_buf # Nothing
    <3>1. k # 1 => k - 1 \in 1 .. Len(pending)
      BY <1>s, <2>2 DEF Being
    <3>2. QED BY <1>1, <1>p, <2>2, <3>1
  <2>3. QED BY <2>1, <2>2
<1>3. ASSUME cur_buf = Nothing, NEW k \in 1 .. Len(pending) PROVE Waits[k] = pending[k].pkt
  <2>1. k \in 1 .. n
    BY <1>3, <1>s DEF Being
  <2>2. QED BY <1>1, <1>3, <2>1
<1>4. ASSUME cur_buf # Nothing PROVE Waits[1] = cur_buf.pkt
  <2>1. 1 \in 1 .. n
    BY <1>4, <1>s DEF Being
  <2>2. QED BY <1>1, <1>4, <2>1
<1>5. ASSUME cur_buf # Nothing, NEW k \in 1 .. Len(pending) PROVE Waits[k + 1] = pending[k].pkt
  <2>1. k + 1 \in 1 .. n /\ k + 1 # 1 /\ (k + 1) - 1 = k
    BY <1>5, <1>s DEF Being
  <2> HIDE DEF n
  <2>2. Waits[k + 1] = pending[(k + 1) - 1].pkt
    BY <1>1, <1>5, <2>1
  <2>3. QED BY <2>1, <2>2
<1> HIDE DEF n
<1>6. Waits \in Seq(Nat) /\ Len(Waits) = n
  <2>1. DOMAIN Waits = 1 .. n /\ Waits \in [1 .. n -> Nat]
    BY <1>1, <1>2
  <2>2. QED BY <1>n, <2>1
<1>7. QED BY <1>3, <1>4, <1>5, <1>6, <1>n DEF n, WaitsOK

\* and in the next.
LEMMA WaitsAreToo == TypeOK' => WaitsOK'
  BY WaitsAre, PTL

\* They are the same when nothing is put into the queue or taken from it,
LEMMA SameWaits ==
  ASSUME UNCHANGED <<pending, cur_buf>>
  PROVE  Waits' = Waits
  BY DEF Waits

\* and when a reader takes the first in hand;
LEMMA WaitsTaken ==
  ASSUME TypeOK, TypeOK', CopyInv, NEW u \in Users, Takes(u)
  PROVE  Waits' = Waits
<1>1. /\ Len(pending) >= 1 /\ Len(pending') = Len(pending) - 1 /\ cur_buf' = pending[1]
      /\ \A k \in 1 .. Len(pending') : pending'[k] = pending[k + 1]
      /\ cur_buf = Nothing /\ Being = 0 /\ cur_buf' # Nothing /\ Being' = 1
  BY Taking
<1>s. Len(pending) \in Nat
  BY Sizes
<1>2. /\ Waits \in Seq(Nat) /\ Len(Waits) = Len(pending) /\ \A k \in 1 .. Len(pending) : Waits[k] = pending[k].pkt
  BY <1>1, <1>s, WaitsAre DEF WaitsOK
<1>3. /\ Waits' \in Seq(Nat) /\ Len(Waits') = Len(pending') + 1 /\ Waits'[1] = cur_buf'.pkt
      /\ \A k \in 1 .. Len(pending') : Waits'[k + 1] = pending'[k].pkt
  BY <1>1, WaitsAreToo DEF WaitsOK
<1>4. ASSUME NEW k \in 1 .. Len(Waits) PROVE Waits[k] = Waits'[k]
  <2>1. CASE k = 1
    <3>1. 1 \in 1 .. Len(pending)
      BY <1>1, <1>s
    <3>2. QED BY <1>1, <1>2, <1>3, <2>1, <3>1
  <2>2. CASE k # 1
    <3>1. k - 1 \in 1 .. Len(pending') /\ (k - 1) + 1 = k /\ k \in 1 .. Len(pending)
      BY <1>1, <1>2, <1>s, <2>2
    <3>2. Waits'[(k - 1) + 1] = pending'[k - 1].pkt /\ pending'[k - 1] = pending[(k - 1) + 1]
      BY <1>1, <1>3, <3>1
    <3>3. QED BY <1>2, <3>1, <3>2
  <2>3. QED BY <2>1, <2>2
<1>5. Len(Waits) = Len(Waits')
  BY <1>1, <1>2, <1>3, <1>s
<1>6. QED BY <1>2, <1>3, <1>4, <1>5, SeqEqual

\* the first is gone when it has been read to its end,
LEMMA WaitsLeft ==
  ASSUME TypeOK, TypeOK', cur_buf # Nothing, cur_buf' = Nothing, pending' = pending
  PROVE  Waits # <<>> /\ Head(Waits) = cur_buf.pkt /\ Waits' = Tail(Waits)
<1>s. Len(pending) \in Nat /\ Being = 1 /\ Being' = 0
  BY Sizes DEF Being
<1>1. /\ Waits \in Seq(Nat) /\ Len(Waits) = Len(pending) + 1 /\ Waits[1] = cur_buf.pkt
      /\ \A k \in 1 .. Len(pending) : Waits[k + 1] = pending[k].pkt
  BY <1>s, WaitsAre DEF WaitsOK
<1>2. /\ Waits' \in Seq(Nat) /\ Len(Waits') = Len(pending) /\ \A k \in 1 .. Len(pending) : Waits'[k] = pending[k].pkt
  <2>1. /\ Waits' \in Seq(Nat) /\ Len(Waits') = Len(pending') + Being'
        /\ cur_buf' = Nothing => \A k \in 1 .. Len(pending') : Waits'[k] = pending'[k].pkt
    BY WaitsAreToo DEF WaitsOK
  <2>2. QED BY <1>s, <2>1
<1>3. Waits # <<>>
  BY <1>1, <1>s, EmptySeq
<1>4. /\ Tail(Waits) \in Seq(Nat) /\ Len(Tail(Waits)) = Len(Waits) - 1
      /\ \A k \in 1 .. Len(Waits) - 1 : Tail(Waits)[k] = Waits[k + 1] /\ Head(Waits) = Waits[1]
      /\ Head(Waits) = Waits[1]
  BY <1>1, <1>3, Tailed
<1>5. Len(Waits') = Len(Tail(Waits)) /\ \A k \in 1 .. Len(Waits') : Waits'[k] = Tail(Waits)[k]
  <2>1. Len(Waits) - 1 = Len(pending)
    BY <1>1, <1>s
  <2>2. QED BY <1>1, <1>2, <1>4, <2>1
<1>6. Waits' = Tail(Waits)
  BY <1>2, <1>4, <1>5, SeqEqual
<1>7. QED BY <1>1, <1>3, <1>4, <1>6

\* and one more is there when mhi_dl_xfer_cb has queued it.
LEMMA WaitsMore ==
  ASSUME TypeOK, TypeOK', NEW e \in Items, cur_buf' = cur_buf, pending' = Append(pending, e)
  PROVE  Waits' = Append(Waits, e.pkt)
<1>s. pending \in Seq(Items) /\ Len(pending) \in Nat /\ Being \in 0 .. 1 /\ Being' = Being /\ e.pkt \in Nat
  BY Sizes, UciAssumption DEF Being, Items
<1>1. /\ Len(pending') = Len(pending) + 1 /\ pending'[Len(pending) + 1] = e
      /\ \A k \in 1 .. Len(pending) : pending'[k] = pending[k]
  BY <1>s, Appended
<1>2. /\ Waits \in Seq(Nat) /\ Len(Waits) = Len(pending) + Being /\ Len(Waits) \in Nat
      /\ cur_buf = Nothing => \A k \in 1 .. Len(pending) : Waits[k] = pending[k].pkt
      /\ cur_buf # Nothing => /\ Waits[1] = cur_buf.pkt
                              /\ \A k \in 1 .. Len(pending) : Waits[k + 1] = pending[k].pkt
  BY WaitsAre DEF WaitsOK
<1>3. /\ Waits' \in Seq(Nat) /\ Len(Waits') = Len(pending') + Being'
      /\ cur_buf = Nothing => \A k \in 1 .. Len(pending') : Waits'[k] = pending'[k].pkt
      /\ cur_buf # Nothing => /\ Waits'[1] = cur_buf.pkt
                              /\ \A k \in 1 .. Len(pending') : Waits'[k + 1] = pending'[k].pkt
  BY WaitsAreToo DEF WaitsOK
<1>4. Len(Waits') = Len(Waits) + 1
  BY <1>1, <1>2, <1>3, <1>s
<1> DEFINE m == Append(Waits, e.pkt)
<1>5. /\ m \in Seq(Nat) /\ Len(m) = Len(Waits) + 1 /\ m[Len(Waits) + 1] = e.pkt
      /\ \A k \in 1 .. Len(Waits) : m[k] = Waits[k]
  BY <1>2, <1>s, Appended
<1> HIDE DEF m
<1>6. ASSUME NEW k \in 1 .. Len(Waits') PROVE Waits'[k] = m[k]
  <2>1. CASE cur_buf = Nothing
    <3>1. Being = 0
      BY <2>1 DEF Being
    <3>2. Len(Waits) = Len(pending) /\ (k \in 1 .. Len(pending) \/ k = Len(pending) + 1) /\ k \in 1 .. Len(pending')
      BY <1>1, <1>2, <1>4, <1>s, <3>1
    <3>3. CASE k \in 1 .. Len(pending)
      BY <1>1, <1>2, <1>3, <1>5, <2>1, <3>2, <3>3
    <3>4. CASE k = Len(pending) + 1
      BY <1>1, <1>3, <1>5, <2>1, <3>2, <3>4
    <3>5. QED BY <3>2, <3>3, <3>4
  <2>2. CASE cur_buf # Nothing
    <3>1. Being = 1
      BY <2>2 DEF Being
    <3>2. Len(Waits) = Len(pending) + 1 /\ k \in 1 .. Len(pending) + 2
      BY <1>1, <1>2, <1>4, <1>s, <3>1
    <3>3. CASE k = 1
      <4>1. 1 \in 1 .. Len(Waits)
        BY <1>s, <3>2
      <4>2. QED BY <1>2, <1>3, <1>5, <2>2, <3>3, <4>1
    <3>4. CASE k # 1 /\ k # Len(pending) + 2
      <4>1. k - 1 \in 1 .. Len(pending) /\ k - 1 \in 1 .. Len(pending') /\ (k - 1) + 1 = k /\ k \in 1 .. Len(Waits)
        BY <1>1, <1>s, <3>2, <3>4
      <4>2. Waits'[(k - 1) + 1] = pending'[k - 1].pkt /\ Waits[(k - 1) + 1] = pending[k - 1].pkt
        BY <1>2, <1>3, <2>2, <4>1
      <4>3. QED BY <1>1, <1>5, <4>1, <4>2
    <3>5. CASE k = Len(pending) + 2
      <4>1. k - 1 \in 1 .. Len(pending') /\ k - 1 = Len(pending) + 1 /\ (k - 1) + 1 = k /\ k = Len(Waits) + 1
        BY <1>1, <1>s, <3>2, <3>5
      <4>2. Waits'[(k - 1) + 1] = pending'[k - 1].pkt
        BY <1>3, <2>2, <4>1
      <4>3. QED BY <1>1, <1>5, <4>1, <4>2
    <3>6. QED BY <3>3, <3>4, <3>5
  <2>3. QED BY <2>1, <2>2
<1>7. QED BY <1>3, <1>4, <1>5, <1>6, SeqEqual DEF m

\* A packet arrives, is missed, is taken, is lost; and a step that does nothing to packets.
Arrives == /\ arrived' = arrived + 1 /\ Waits' = Append(Waits, arrived + 1)
           /\ Lives' = Lives /\ Listens' = Listens /\ taken' = taken
Misses == /\ ~Listens \/ ~Lives
          /\ arrived' = arrived + 1
          /\ Lives' = Lives /\ Listens' = Listens /\ Waits' = Waits /\ taken' = taken
Given == /\ Waits # <<>> /\ taken' = Head(Waits) /\ Waits' = Tail(Waits)
         /\ Lives' = Lives /\ Listens' = Listens /\ arrived' = arrived
Lost == /\ ~Lives /\ Waits # <<>> /\ Waits' = Tail(Waits)
        /\ Lives' = Lives /\ arrived' = arrived /\ taken' = taken
Passes == arrived' = arrived /\ Waits' = Waits /\ taken' = taken

\* Every step is one of these.
LEMMA PipeStep ==
  ASSUME Core, Core', EmptyInv, CopyInv, Regular => DataInv, PktInv, DataStep
  PROVE  Arrives \/ Misses \/ Given \/ Lost \/ Passes
<1>e. TypeOK /\ ErrInv /\ RefInv /\ TypeOK'
  BY DEF Core
<1>d. Regular => FreshInv /\ OrderInv /\ PlaceInv /\ FullInv
  BY DEF DataInv
<1>1. ASSUME NEW u \in Users, NEW i \in 0 .. N - 1, Puts(u, i) PROVE Passes
  BY <1>1, SameWaits DEF Puts, Hist, Passes
<1>2. ASSUME NEW u \in Users, Takes(u) PROVE Passes
  BY <1>2, <1>e, WaitsTaken DEF Takes, Hist, Passes
<1>3. CASE Empties \/ Rests
  BY <1>3, SameWaits DEF Empties, Rests, Hist, Passes
<1>4. CASE Receive
  BY <1>4, <1>e, Receipt, SameWaits DEF Passes
<1>5. ASSUME Frees PROVE Lost \/ Passes
  <2>1. /\ UNCHANGED <<pending, life>> /\ life # "bound" /\ cur_buf' = Nothing
        /\ arrived' = arrived /\ taken' = taken
    BY <1>5 DEF Frees, Hist
  <2>2. CASE cur_buf = Nothing
    BY <2>1, <2>2, SameWaits DEF Passes
  <2>3. CASE cur_buf # Nothing
    <3>1. Waits # <<>> /\ Waits' = Tail(Waits)
      BY <1>e, <2>1, <2>3, WaitsLeft
    <3>2. ~Lives /\ ~Lives'
      BY <2>1 DEF Lives
    <3>4. Lives' = Lives
      BY <3>2 DEF Lives
    <3>3. QED BY <2>1, <3>1, <3>2, <3>4 DEF Lost
  <2>4. QED BY <2>2, <2>3
<1>6. ASSUME NEW u \in Users, ReadEnds(u), Kept PROVE Given \/ Lost
  <2>1. /\ pc[u] = <<"copy">> /\ pc'[u] = Opened
        /\ cur_buf # Nothing /\ cur_buf' = Nothing /\ UNCHANGED <<pending, life, arrived, pm, odd, early>>
        /\ taken' = taken \/ taken' = cur_buf.pkt
    BY <1>6, ReadOver
  <2>8. taken' # cur_buf.pkt => ~Lives
    <3>1. CASE Regular
      <4>1. taken' # cur_buf.pkt => pm # "ok" \/ life # "bound"
        BY <1>6, <1>d, <3>1, Returns
      <4>2. QED BY <4>1 DEF Lives
    <3>2. CASE ~Regular
      BY <3>2 DEF Lives
    <3>3. QED BY <3>1, <3>2
  <2>2. Waits # <<>> /\ Head(Waits) = cur_buf.pkt /\ Waits' = Tail(Waits)
    BY <1>e, <2>1, WaitsLeft
  <2>3. Lives' = Lives
    BY <2>1 DEF Lives, Regular
  <2>4. Listens' = Listens
    <3>1. pc[u][1] = "copy" /\ pc'[u][1] = "open"
      BY <2>1 DEF Opened
    <3>2. Listens /\ Listens'
      BY <3>1 DEF Listens
    <3>3. QED BY <3>2 DEF Listens
  <2>5. CASE taken' = cur_buf.pkt
    BY <2>1, <2>2, <2>3, <2>4, <2>5 DEF Given
  <2>6. CASE taken' # cur_buf.pkt
    <3>1. ~Lives
      BY <2>6, <2>8
    <3>2. QED BY <2>1, <2>2, <2>3, <2>6, <3>1 DEF Lost
  <2>7. QED BY <2>5, <2>6
<1>7. ASSUME Received PROVE Arrives \/ Misses
  <2>1. /\ dl # <<>> /\ Head(dl).pkt # 0 /\ arrived' = Head(dl).pkt
        /\ UNCHANGED <<cur_buf, life, taken, pm, pc, odd, early>>
        /\ pending' = pending \/ \E e \in Items : e.pkt = Head(dl).pkt /\ pending' = Append(pending, e)
    BY <1>7, <1>e, Processed
  <2>2. Head(dl).pkt = arrived + 1
    <3>1. dl \in Seq(Slots) /\ Len(dl) \in Nat /\ Head(dl) = dl[1] /\ 1 \in 1 .. Len(dl)
      BY <1>e, <2>1, Sizes
    <3>2. dl[1].pkt = IF arrived + 1 <= sent THEN arrived + 1 ELSE 0
      BY <3>1 DEF PktInv
    <3>3. QED BY <2>1, <3>1, <3>2
  <2>3. Lives' = Lives /\ Listens' = Listens
    BY <2>1 DEF Lives, Listens, Regular
  <2>4. ASSUME NEW e \in Items, e.pkt = Head(dl).pkt, pending' = Append(pending, e) PROVE Arrives
    <3>1. Waits' = Append(Waits, e.pkt)
      BY <1>e, <2>1, <2>4, WaitsMore
    <3>2. QED BY <2>1, <2>2, <2>3, <2>4, <3>1 DEF Arrives
  <2>5. ASSUME pending' = pending PROVE Misses
    <3>1. ~Listens \/ ~Lives
      <4>1. ASSUME Lives PROVE ~Listens
        <5>r. Regular
          BY <4>1 DEF Lives
        <5>u. Unheard
          <6> DEFINE e == [buf |-> IF copying THEN NoBuf ELSE nr_trb, pkt |-> Head(dl).pkt]
          <6>1. e \in Items /\ pending' = (IF copying /\ Unheard THEN pending ELSE Append(pending, e))
            BY <1>7, <1>d, <1>e, <5>r, Drops
          <6> HIDE DEF e
          <6>2. pending \in Seq(Items)
            BY <1>e, Sizes
          <6>3. Append(pending, e) # pending
            <7>1. Len(Append(pending, e)) = Len(pending) + 1 /\ Len(pending) \in Nat
              BY <6>1, <6>2, Appended
            <7>2. QED BY <7>1
          <6>4. QED BY <2>5, <6>1, <6>3
        <5>k. Kept
          <6>1. dl \in Seq(Slots) /\ Len(dl) \in Nat /\ Head(dl) = dl[1] /\ 1 \in 1 .. Len(dl)
            BY <1>e, <2>1, Sizes
          <6>2. QED BY <1>d, <2>1, <5>r, <6>1 DEF FreshInv
        <5>1. node = "listed" /\ ref_count = 1
          BY <1>e, <4>1, <5>u DEF Lives, ErrInv, Unheard
        <5>2. Cardinality(Inside) = 0
          BY <1>e, <5>1, <5>k, Heads0 DEF RefInv
        <5>3. \A u \in Users : pc[u] = Out
          BY <5>2, Heads0 DEF Inside
        <5>4. Out[1] \notin {"open", "read", "copy", "write", "queue"}
          BY DEF Out
        <5>5. QED BY <5>3, <5>4 DEF Listens
      <4>2. QED BY <4>1
    <3>2. Waits' = Waits
      BY <2>1, <2>5, SameWaits
    <3>3. QED BY <2>1, <2>2, <2>3, <3>1, <3>2 DEF Misses
  <2>6. QED BY <2>1, <2>4, <2>5
<1>8. QED BY <1>1, <1>2, <1>3, <1>4, <1>5, <1>6, <1>7 DEF DataStep

\* mhi_uci_read gives packets out in the order mhi_dl_xfer_cb received them and none twice, and none
\* is lost while a file is open and the modem lives and does what mhi_dl_xfer_cb counts on: MhiUci
\* implements PacketPipe.  After a packet of an unusable length some may be lost, but what comes out
\* still comes in order and once.
THEOREM PacketsInOrder == Spec => PipeSpec
<1> DEFINE IInv == Core /\ StageInv /\ EmptyInv /\ CopyInv /\ (Regular => DataInv) /\ PktInv
<1>1. ASSUME Init PROVE PktInv
  <2>1. Len(dl) = 0 /\ sent = 0 /\ arrived = 0
    BY <1>1, EmptySeq DEF Init
  <2>2. QED BY <2>1 DEF PktInv
<1>2. ASSUME Core, Core', StageInv, EmptyInv, CopyInv, PktInv, [Next]_vars PROVE PktInv'
  BY <1>2, DataSteps, PktStays
<1>3. Core /\ StageInv /\ EmptyInv /\ CopyInv /\ PktInv /\ [Next]_vars => PktInv'
  BY <1>2, CoreStays
<1>4. Init => Pipe!Init
  <2> SUFFICES ASSUME Init PROVE Pipe!Init
    OBVIOUS
  <2>1. Waits = <<>>
    <3>1. Len(pending) = 0 /\ Being = 0
      BY EmptySeq DEF Init, Being
    <3>2. Waits \in Seq(Nat) /\ Len(Waits) = 0
      BY <3>1, CoreStarts, WaitsAre DEF WaitsOK, Core
    <3>3. QED BY <3>2, EmptySeq
  <2>2. ~Listens
    <3>1. Out[1] \notin {"open", "read", "copy", "write", "queue"}
      BY DEF Out
    <3>2. QED BY <3>1 DEF Init, Listens
  <2>3. Lives /\ arrived = 0 /\ taken = 0
    BY DEF Init, Lives, Regular
  <2>4. Listens = FALSE /\ Lives = TRUE
    BY <2>2, <2>3 DEF Listens, Lives
  <2>5. QED BY <2>1, <2>3, <2>4 DEF Pipe!Init, Waits, Listens, Lives
<1>5. ASSUME IInv, IInv', [Next]_vars PROVE [Pipe!Next]_(Pipe!vars)
  <2>1. Arrives \/ Misses \/ Given \/ Lost \/ Passes
    BY <1>5, DataSteps, PipeStep
  <2>2. CASE Arrives
    <3>1. Pipe!Arrive
      BY <2>2 DEF Arrives, Pipe!Arrive, Waits, Listens, Lives
    <3>2. QED BY <3>1 DEF Pipe!Next
  <2>3. CASE Misses
    <3>1. Pipe!Miss
      BY <2>3 DEF Misses, Pipe!Miss, Waits, Listens, Lives
    <3>2. QED BY <3>1 DEF Pipe!Next
  <2>4. CASE Given
    <3>1. Pipe!Take
      BY <2>4 DEF Given, Pipe!Take, Waits, Listens, Lives
    <3>2. QED BY <3>1 DEF Pipe!Next
  <2>5. CASE Lost
    <3>1. Listens' \in BOOLEAN
      BY DEF Listens
    <3>2. Pipe!Lose
      BY <2>5, <3>1 DEF Lost, Pipe!Lose, Waits, Listens, Lives
    <3>3. QED BY <3>2 DEF Pipe!Next
  <2>6. CASE Passes
    <3>1. Listens' \in BOOLEAN /\ Lives' \in BOOLEAN
      BY DEF Listens, Lives
    <3>2. Pipe!Come
      BY <2>6, <3>1 DEF Passes, Pipe!Come, Waits, Listens, Lives
    <3>3. QED BY <3>2 DEF Pipe!Next
  <2>7. QED BY <2>1, <2>2, <2>3, <2>4, <2>5, <2>6
<1>6. Spec => []IInv
  BY <1>1, <1>3, DataHolds, PTL DEF Spec
<1>7. IInv /\ IInv' /\ [Next]_vars => [Pipe!Next]_(Pipe!vars)
  BY <1>5
<1> HIDE DEF IInv
<1>8. QED BY <1>4, <1>6, <1>7, PTL DEF Spec, PipeSpec, Pipe!Spec
=============================================================================

---------------------------- MODULE MhiDtrProofs ----------------------------
(***************************************************************************)
(* Host and modem agree on the signals of every channel, for any number of *)
(* channels, calls, reports, failures, late answers and removals.          *)
(*                                                                         *)
(* Agreement is about a channel between calls; Talk follows the message    *)
(* from the caller to the modem and its completion back, and needs that    *)
(* the mutex keeps other completions away.  SignalsKnown is about a        *)
(* channel without a report on its way; Latest is about the last report,   *)
(* wherever it is.  Locks says that nobody writes back a word that is old. *)
(***************************************************************************)
EXTENDS MhiDtr, FiniteSetTheorems, SequenceTheorems, TLAPS

\* Where a caller holds the mutex.
Inside == {"queue", "wait", "update", "store", "exit", "fault"}

Holders == \A c \in Chans : mutex = c <=> pc[c] \in Inside

Locks ==
  /\ cb = None \/ cb.dest \in Chans
  /\ \A c \in Chans : /\ lock[c] = "call" <=> pc[c] = "store"
                      /\ lock[c] = "cb" <=> cb.dest = c
                      /\ pc[c] = "store" => word["call"] = tiocm[c]
                      /\ cb.dest = c => word["cb"] = tiocm[c]

\* The control device is not, or not yet, removed.
Present == dtr \in {"down", "up", "unbound"}

\* Of a caller that waits, one thing is under way: its message, the completion of it, or the
\* wake-up.  Of nobody else is anything.
Talk ==
  /\ dtr = "down" => \A c \in Chans : pc[c] = "idle"
  /\ Present /\ budget.late = Late =>
     /\ (\A c \in Chans : pc[c] # "wait") => out = <<>> /\ acks = 0
     /\ \A c \in Chans :
        /\ pc[c] # "fault"
        /\ pc[c] \in {"idle", "mutex", "queue", "exit"} => tiocm[c] \cap Host = view[c]
        /\ pc[c] \in {"update", "store"} => view[c] = arg[c]
        /\ pc[c] = "queue" => done = 0
        /\ pc[c] = "wait" =>
             \/ /\ out = <<[chan |-> c, msg |-> arg[c], live |-> TRUE]>> /\ acks = 0 /\ done = 0
                /\ tiocm[c] \cap Host = view[c]
             \/ out = <<>> /\ acks + done = 1 /\ view[c] = arg[c]

About(c, i) == in[i].dest = c /\ in[i].whole

\* The last report about a channel is in a buffer, or its callback runs, or the word has it.
Latest ==
  Present => \A c \in Chans :
    /\ \A i \in 1 .. Len(in) :
         About(c, i) /\ (\A j \in 1 .. Len(in) : About(c, j) => j <= i) => in[i].msg = sent[c]
    /\ (\A i \in 1 .. Len(in) : ~About(c, i)) =>
         (IF cb.dest = c THEN cb.msg ELSE tiocm[c] \cap Modem) = sent[c]

Busy == IF cb # None THEN 1 ELSE 0

\* The reports of the wrong length.
Wrong(s) == {i \in 1 .. Len(s) : ~s[i].whole}

\* Where the inbound buffers are, and what became of those that are nowhere.
Unused  == dtr = "down" => in = <<>> /\ cb = None
AtMost  == inbound + Len(in) + Busy <= Bufs
Kept    == inbound + Len(in) - Cardinality(Wrong(in)) + Busy
Lost    == (Short - budget.short) + (Fails - budget.fail)
AtLeast == dtr = "up" => Kept + Lost >= Bufs
Buffers == Unused /\ AtMost /\ AtLeast

IInv == TypeOK /\ Holders /\ Locks /\ Talk /\ Latest /\ Buffers

\* The assumption, constant by constant, and what follows for Many.
LEMMA Consts ==
  /\ \A s \in Settings : s \subseteq Host
  /\ \A s \in Signals : s \subseteq Modem
  /\ Stray \notin Chans /\ Ring \in Nat \ {0} /\ Bufs \in Nat \ {0}
  /\ Calls \in Nat /\ Reports \in Nat /\ Short \in Nat /\ Fails \in Nat /\ Late \in Nat
  /\ Removals \in {0, 1}
  /\ Many \in Nat /\ Many >= 2
<1>1. Cardinality(Chans) \in Nat /\ Calls \in Nat
  BY DtrAssumption, FS_CardinalityType DEF DtrAssumption
<1>2. Cardinality(Chans) * Calls \in Nat
  BY <1>1
<1>3. QED
  BY <1>2, DtrAssumption DEF DtrAssumption, Many

Message == [dest : Dests, msg : SUBSET Modem, whole : BOOLEAN]

\* A function on 1 .. n is a sequence.
LEMMA Listed ==
  ASSUME NEW S, NEW n \in Nat, NEW f \in [1 .. n -> S]
  PROVE  f \in Seq(S) /\ Len(f) = n
<1>1. f \in Seq(S)
  BY SeqDef
<1>2. QED
  BY <1>1, LenProperties

\* Taking the first report.
LEMMA Rest ==
  ASSUME NEW S, NEW s \in Seq(S), s # <<>>
  PROVE  /\ Len(s) \in Nat /\ Len(s) >= 1 /\ Head(s) = s[1] /\ Head(s) \in S
         /\ Tail(s) \in Seq(S) /\ Len(Tail(s)) = Len(s) - 1
         /\ \A i \in 1 .. Len(s) - 1 : Tail(s)[i] = s[i + 1]
<1>1. Len(s) \in Nat /\ Len(s) >= 1 /\ Head(s) = s[1]
  BY EmptySeq
<1>2. QED
  BY <1>1, HeadTailProperties

\* Counting the reports of the wrong length: there are finitely many, ...
LEMMA WrongFinite ==
  ASSUME NEW s \in Seq(Message)
  PROVE  IsFiniteSet(Wrong(s)) /\ Cardinality(Wrong(s)) \in Nat
<1>1. Len(s) \in Nat
  OBVIOUS
<1>2. IsFiniteSet(1 .. Len(s)) /\ Wrong(s) \in SUBSET (1 .. Len(s))
  BY <1>1, FS_Interval DEF Wrong
<1>3. QED
  BY <1>2, FS_Subset, FS_CardinalityType

\* ... none in an empty ring, ...
LEMMA WrongEmpty ==
  Cardinality(Wrong(<<>>)) = 0
<1>1. Wrong(<<>>) = {}
  BY DEF Wrong
<1>2. QED
  BY <1>1, FS_EmptySet

\* ... one more when such a report is appended (ModemReport), ...
LEMMA WrongAppend ==
  ASSUME NEW s \in Seq(Message), NEW r \in Message
  PROVE  Cardinality(Wrong(Append(s, r))) = Cardinality(Wrong(s)) + (IF r.whole THEN 0 ELSE 1)
<1> DEFINE n == Len(s)  t == Append(s, r)
<1>1. /\ n \in Nat /\ Len(t) = n + 1 /\ t[n + 1] = r
      /\ \A i \in 1 .. n : t[i] = s[i]
  OBVIOUS
<1>2. CASE r.whole
  <2>1. Wrong(t) = Wrong(s)
    BY <1>1, <1>2 DEF Wrong
  <2>2. QED
    BY <2>1, <1>2, WrongFinite
<1>3. CASE ~r.whole
  <2>1. Wrong(t) = Wrong(s) \cup {n + 1}
    BY <1>1, <1>3 DEF Wrong
  <2>2. n + 1 \notin Wrong(s)
    BY <1>1 DEF Wrong
  <2>3. QED
    BY <2>1, <2>2, <1>3, WrongFinite, FS_AddElement
<1>4. QED
  BY <1>2, <1>3

\* ... and one less when the callback takes one (mhi_dtr_dl_xfer_cb).
LEMMA WrongTail ==
  ASSUME NEW s \in Seq(Message), s # <<>>
  PROVE  Cardinality(Wrong(Tail(s))) = Cardinality(Wrong(s)) - (IF Head(s).whole THEN 0 ELSE 1)
<1> DEFINE n == Len(s)  t == Tail(s)  W == Wrong(s) \ {1}
           f == [i \in W |-> i - 1]
<1>1. /\ n \in Nat /\ n >= 1 /\ Len(t) = n - 1 /\ Head(s) = s[1]
      /\ \A i \in 1 .. n - 1 : t[i] = s[i + 1]
  BY Rest
<1>2. W \subseteq 2 .. n
  BY <1>1 DEF Wrong
<1>3. \A i \in W : i - 1 \in Wrong(t)
  BY <1>1, <1>2 DEF Wrong
<1>4. \A j \in Wrong(t) : j + 1 \in W /\ (j + 1) - 1 = j
  BY <1>1 DEF Wrong
<1>5. f \in Bijection(W, Wrong(t))
  <2>1. f \in [W -> Wrong(t)]
    BY <1>3
  <2>2. \A i, j \in W : f[i] = f[j] => i = j
    BY <1>2
  <2>3. \A j \in Wrong(t) : \E i \in W : f[i] = j
    BY <1>4
  <2>4. QED
    BY <2>1, <2>2, <2>3 DEF Bijection, Injection, Surjection, IsInjective
<1>6. Cardinality(Wrong(t)) = Cardinality(W)
  <2>1. IsFiniteSet(W)
    BY WrongFinite, FS_RemoveElement
  <2>2. QED
    BY <1>5, <2>1, FS_Bijection DEF ExistsBijection
<1>7. 1 \in Wrong(s) <=> ~Head(s).whole
  BY <1>1 DEF Wrong
<1>8. Cardinality(W) = IF 1 \in Wrong(s) THEN Cardinality(Wrong(s)) - 1 ELSE Cardinality(Wrong(s))
  BY WrongFinite, FS_RemoveElement
<1>9. QED
  BY <1>6, <1>7, <1>8, WrongFinite

\* Only who takes the mutex is inside, and only the holder leaves.
LEMMA HoldersKept ==
  ASSUME TypeOK, Holders, [Next]_vars
  PROVE  Holders'
<1>0. /\ pc \in [Chans -> {"idle", "mutex", "queue", "wait", "update", "store", "exit", "fault"}]
      /\ mutex \in Chans \cup {Stray} /\ Stray \notin Chans
  BY Consts DEF TypeOK, Dests
<1> USE DEF Holders, Inside, Goto, call
<1>1. ASSUME Probe PROVE Holders'
  BY <1>0, <1>1 DEF Probe
<1>2. ASSUME NEW c \in Chans, NEW s \in Settings, Ioctl(c, s) PROVE Holders'
  BY <1>0, <1>2 DEF Ioctl
<1>3. ASSUME NEW c \in Chans, Lock(c) PROVE Holders'
  BY <1>0, <1>3 DEF Lock
<1>4. ASSUME NEW c \in Chans, Queue(c) PROVE Holders'
  BY <1>0, <1>4 DEF Queue
<1>5. ASSUME NEW c \in Chans, Answered(c) PROVE Holders'
  BY <1>0, <1>5 DEF Answered
<1>6. ASSUME NEW c \in Chans, Timeout(c) PROVE Holders'
  BY <1>0, <1>6 DEF Timeout
<1>7. ASSUME NEW c \in Chans, Update(c) PROVE Holders'
  BY <1>0, <1>7 DEF Update
<1>8. ASSUME NEW c \in Chans, Store(c) PROVE Holders'
  BY <1>0, <1>8 DEF Store
<1>9. ASSUME NEW c \in Chans, Exit(c) PROVE Holders'
  BY <1>0, <1>9 DEF Exit
<1>10. ASSUME ModemTake PROVE Holders'
  BY <1>0, <1>10 DEF ModemTake
<1>11. ASSUME NEW d \in Dests, NEW s \in Signals, ModemReport(d, s) PROVE Holders'
  BY <1>0, <1>11 DEF ModemReport
<1>12. ASSUME UlCb PROVE Holders'
  BY <1>0, <1>12 DEF UlCb
<1>13. ASSUME DlShort PROVE Holders'
  BY <1>0, <1>13 DEF DlShort
<1>14. ASSUME DlStray PROVE Holders'
  BY <1>0, <1>14 DEF DlStray, Requeue
<1>15. ASSUME DlRead PROVE Holders'
  BY <1>0, <1>15 DEF DlRead
<1>16. ASSUME DlStore PROVE Holders'
  BY <1>0, <1>16 DEF DlStore, Requeue
<1>17. ASSUME RemoveWake PROVE Holders'
  BY <1>0, <1>17 DEF RemoveWake
<1>18. ASSUME RemoveReset PROVE Holders'
  BY <1>0, <1>18 DEF RemoveReset
<1>19. ASSUME Remove PROVE Holders'
  BY <1>0, <1>19 DEF Remove
<1>20. CASE UNCHANGED vars
  BY <1>0, <1>20 DEF vars
<1>21. QED
  BY <1>1, <1>2, <1>3, <1>4, <1>5, <1>6, <1>7, <1>8, <1>9, <1>10, <1>11, <1>12, <1>13, <1>14, <1>15,
     <1>16, <1>17, <1>18, <1>19, <1>20 DEF Next, Tiocmset, DlCb

\* An inbound buffer is in the ring, on its way, or in the callback.
LEMMA BuffersKept ==
  ASSUME TypeOK, Locks, Buffers, [Next]_vars
  PROVE  Buffers'
<1>b. /\ budget \in [call : [Chans -> 0 .. Calls], report : 0 .. Reports, short : 0 .. Short,
                     fail : 0 .. Fails, late : 0 .. Late]
      /\ Bufs \in Nat /\ Fails \in Nat /\ Short \in Nat
  BY Consts DEF TypeOK
<1>m. in \in Seq(Message)
  BY DEF TypeOK, Message
<1>f. budget.fail \in 0 .. Fails /\ budget.short \in 0 .. Short
  BY <1>b
<1>0. /\ inbound \in Int /\ Len(in) \in Int /\ Cardinality(Wrong(in)) \in Int
      /\ budget.short \in Int /\ budget.fail \in Int /\ Kept \in Int /\ Lost \in Int
      /\ Bufs \in Nat /\ Fails \in Nat /\ Short \in Nat
  <2>1. Cardinality(Wrong(in)) \in Nat
    BY <1>m, WrongFinite
  <2>2. inbound \in Int /\ Len(in) \in Int
    BY <1>m, Consts DEF TypeOK
  <2>3. Kept \in Int /\ Lost \in Int
    BY <1>b, <2>1, <2>2 DEF Kept, Lost, Busy
  <2>4. QED
    BY <1>b, <2>1, <2>2, <2>3
<1>e. Cardinality(Wrong(<<>>)) = 0 /\ Len(<<>>) = 0
  BY WrongEmpty
<1> USE DEF dev
<1>1. ASSUME Probe PROVE Buffers'
  <2>1. /\ in = <<>> /\ cb = None /\ in' = in /\ cb' = cb /\ dtr' # "down"
        /\ \/ dtr' = "up" /\ inbound' = Bufs /\ budget' = budget
           \/ dtr' = "unbound" /\ inbound' \in 0 .. Bufs - 1
    BY <1>0, <1>1 DEF Probe, Buffers, Unused
  <2>2. Unused' /\ AtMost'
    BY <1>0, <1>e, <2>1 DEF Unused, AtMost, Busy
  <2>3. AtLeast'
    BY <1>0, <1>e, <1>f, <2>1, SMTT(120) DEF AtLeast, Kept, Lost, Busy
  <2>4. QED
    BY <2>2, <2>3 DEF Buffers
<1>2. ASSUME NEW c \in Chans, NEW s \in Settings, Ioctl(c, s) PROVE Buffers'
  BY <1>0, <1>2 DEF Ioctl, Buffers, Unused, AtMost, AtLeast, Kept, Lost, Busy
<1>3. ASSUME NEW c \in Chans, Lock(c) PROVE Buffers'
  <2>1. in' = in /\ inbound' = inbound /\ cb' = cb /\ dtr' = dtr
    BY <1>3 DEF Lock
  <2>2. budget'.fail <= budget.fail /\ budget'.short = budget.short /\ budget'.fail \in Int
    BY <1>b, <1>3 DEF Lock
  <2>3. Unused'
    BY <1>0, <2>1, <2>2 DEF Buffers, Unused
  <2>4. AtMost'
    BY <1>0, <2>1, <2>2 DEF Buffers, AtMost, Busy
  <2>5. AtLeast'
    BY <1>0, <2>1, <2>2, SMTT(120) DEF Buffers, AtLeast, Kept, Lost, Busy
  <2>6. QED
    BY <2>3, <2>4, <2>5 DEF Buffers
<1>4. ASSUME NEW c \in Chans, Queue(c) PROVE Buffers'
  <2>1. in' = in /\ inbound' = inbound /\ cb' = cb /\ dtr' = dtr
    BY <1>4 DEF Queue
  <2>2. budget'.fail <= budget.fail /\ budget'.short = budget.short /\ budget'.fail \in Int
    BY <1>b, <1>4 DEF Queue
  <2>3. Unused'
    BY <1>0, <2>1, <2>2 DEF Buffers, Unused
  <2>4. AtMost'
    BY <1>0, <2>1, <2>2 DEF Buffers, AtMost, Busy
  <2>5. AtLeast'
    BY <1>0, <2>1, <2>2, SMTT(120) DEF Buffers, AtLeast, Kept, Lost, Busy
  <2>6. QED
    BY <2>3, <2>4, <2>5 DEF Buffers
<1>5. ASSUME NEW c \in Chans, Answered(c) PROVE Buffers'
  BY <1>0, <1>5 DEF Answered, Buffers, Unused, AtMost, AtLeast, Kept, Lost, Busy
<1>6. ASSUME NEW c \in Chans, Timeout(c) PROVE Buffers'
  <2>1. in' = in /\ inbound' = inbound /\ cb' = cb /\ dtr' = dtr
    BY <1>6 DEF Timeout
  <2>2. budget'.fail <= budget.fail /\ budget'.short = budget.short /\ budget'.fail \in Int
    BY <1>b, <1>6 DEF Timeout
  <2>3. Unused'
    BY <1>0, <2>1, <2>2 DEF Buffers, Unused
  <2>4. AtMost'
    BY <1>0, <2>1, <2>2 DEF Buffers, AtMost, Busy
  <2>5. AtLeast'
    BY <1>0, <2>1, <2>2, SMTT(120) DEF Buffers, AtLeast, Kept, Lost, Busy
  <2>6. QED
    BY <2>3, <2>4, <2>5 DEF Buffers
<1>7. ASSUME NEW c \in Chans, Update(c) PROVE Buffers'
  BY <1>0, <1>7 DEF Update, Buffers, Unused, AtMost, AtLeast, Kept, Lost, Busy
<1>8. ASSUME NEW c \in Chans, Store(c) PROVE Buffers'
  BY <1>0, <1>8 DEF Store, Buffers, Unused, AtMost, AtLeast, Kept, Lost, Busy
<1>9. ASSUME NEW c \in Chans, Exit(c) PROVE Buffers'
  BY <1>0, <1>9 DEF Exit, Buffers, Unused, AtMost, AtLeast, Kept, Lost, Busy
<1>10. ASSUME ModemTake PROVE Buffers'
  BY <1>0, <1>10 DEF ModemTake, Buffers, Unused, AtMost, AtLeast, Kept, Lost, Busy
<1>11. ASSUME NEW d \in Dests, NEW s \in Signals, ModemReport(d, s) PROVE Buffers'
  <2> DEFINE whole == [dest |-> d, msg |-> s, whole |-> TRUE]
             short == [dest |-> d, msg |-> s, whole |-> FALSE]
  <2>1. whole \in Message /\ short \in Message /\ whole.whole = TRUE /\ short.whole = FALSE
    BY Consts DEF Message
  <2>2. inbound' = inbound - 1 /\ dtr' = dtr /\ dtr # "down" /\ cb' = cb
    BY <1>11 DEF ModemReport, Serving
  <2>3. \/ in' = Append(in, whole) /\ budget'.short = budget.short /\ budget'.fail = budget.fail
        \/ in' = Append(in, short) /\ budget'.short = budget.short - 1 /\ budget'.fail = budget.fail
    BY <1>b, <1>11 DEF ModemReport
  <2> HIDE DEF whole, short
  <2>4. CASE in' = Append(in, whole) /\ budget'.short = budget.short /\ budget'.fail = budget.fail
    <3>1. Len(in') = Len(in) + 1 /\ Cardinality(Wrong(in')) = Cardinality(Wrong(in))
      BY <1>0, <1>m, <2>1, <2>4, WrongAppend
    <3>2. Unused' /\ AtMost'
      BY <1>0, <2>2, <3>1 DEF Buffers, Unused, AtMost, Busy
    <3>3. AtLeast'
      BY <1>0, <2>2, <2>4, <3>1, SMTT(120) DEF Buffers, AtLeast, Kept, Lost, Busy
    <3>4. QED
      BY <3>2, <3>3 DEF Buffers
  <2>5. CASE in' = Append(in, short) /\ budget'.short = budget.short - 1 /\ budget'.fail = budget.fail
    <3>1. Len(in') = Len(in) + 1 /\ Cardinality(Wrong(in')) = Cardinality(Wrong(in)) + 1
      BY <1>0, <1>m, <2>1, <2>5, WrongAppend
    <3>2. Unused' /\ AtMost'
      BY <1>0, <2>2, <3>1 DEF Buffers, Unused, AtMost, Busy
    <3>3. AtLeast'
      <4>1. dtr = "up" =>
              ((inbound - 1) + (Len(in) + 1) - (Cardinality(Wrong(in)) + 1) + Busy)
                + ((Short - (budget.short - 1)) + (Fails - budget.fail)) >= Bufs
        <5>1. Busy \in Int
          BY DEF Busy
        <5>2. (inbound - 1) + (Len(in) + 1) - (Cardinality(Wrong(in)) + 1) + Busy = Kept - 1
          BY <1>0, <5>1 DEF Kept
        <5>3. (Short - (budget.short - 1)) + (Fails - budget.fail) = Lost + 1
          BY <1>0 DEF Lost
        <5>4. dtr = "up" => (Kept - 1) + (Lost + 1) >= Bufs
          BY <1>0 DEF Buffers, AtLeast
        <5>5. QED
          BY <5>2, <5>3, <5>4
      <4>2. QED
        BY <1>0, <2>2, <2>5, <3>1, <4>1, SMTT(120) DEF AtLeast, Kept, Lost, Busy
    <3>4. QED
      BY <3>2, <3>3 DEF Buffers
  <2>6. QED
    BY <2>3, <2>4, <2>5
<1>12. ASSUME UlCb PROVE Buffers'
  BY <1>0, <1>12 DEF UlCb, Buffers, Unused, AtMost, AtLeast, Kept, Lost, Busy
<1>13. ASSUME DlShort PROVE Buffers'
  <2>1. /\ in # <<>> /\ in' = Tail(in) /\ dtr' = dtr /\ ~Head(in).whole
        /\ inbound' = inbound /\ cb' = cb /\ budget' = budget
    BY <1>b, Consts, <1>13 DEF DlShort, None
  <2>2. /\ Len(in) \in Nat /\ Len(in) >= 1 /\ Len(in') = Len(in) - 1
        /\ Cardinality(Wrong(in')) = Cardinality(Wrong(in)) - 1
    BY <1>m, <2>1, Rest, WrongTail
  <2>3. Unused'
    BY <1>0, <2>1, <2>2 DEF Buffers, Unused
  <2>4. AtMost'
    BY <1>0, <2>1, <2>2 DEF Buffers, AtMost, Busy
  <2>5. AtLeast'
    BY <1>0, <2>1, <2>2, SMTT(120) DEF Buffers, AtLeast, Kept, Lost, Busy
  <2>6. QED
    BY <2>3, <2>4, <2>5 DEF Buffers
<1>14. ASSUME DlStray PROVE Buffers'
  <2>1. /\ in # <<>> /\ in' = Tail(in) /\ dtr' = dtr /\ Head(in).whole
        /\ cb' = cb /\ cb = None
        /\ \/ inbound' = inbound + 1 /\ budget' = budget
           \/ inbound' = inbound /\ budget'.fail = budget.fail - 1 /\ budget'.short = budget.short
    BY <1>b, Consts, <1>14 DEF DlStray, Requeue, None
  <2>2. /\ Len(in) \in Nat /\ Len(in) >= 1 /\ Len(in') = Len(in) - 1
        /\ Cardinality(Wrong(in')) = Cardinality(Wrong(in)) - 0
    BY <1>m, <2>1, Rest, WrongTail
  <2>3. Unused'
    BY <1>0, <2>1, <2>2 DEF Buffers, Unused
  <2>4. AtMost'
    BY <1>0, <2>1, <2>2 DEF Buffers, AtMost, Busy
  <2>5. AtLeast'
    <3>1. CASE inbound' = inbound + 1 /\ budget' = budget
      BY <1>0, <2>1, <2>2, <3>1, SMTT(120) DEF Buffers, AtLeast, Kept, Lost, Busy
    <3>2. CASE inbound' = inbound /\ budget'.fail = budget.fail - 1 /\ budget'.short = budget.short
      BY <1>0, <2>1, <2>2, <3>2, SMTT(120) DEF Buffers, AtLeast, Kept, Lost, Busy
    <3>3. QED
      BY <1>0, <2>1, <2>2, <3>1, <3>2
  <2>6. QED
    BY <2>3, <2>4, <2>5 DEF Buffers
<1>15. ASSUME DlRead PROVE Buffers'
  <2>1. /\ in # <<>> /\ in' = Tail(in) /\ dtr' = dtr /\ Head(in).whole
        /\ inbound' = inbound /\ cb = None /\ cb' # None /\ budget' = budget
    BY <1>b, Consts, <1>15 DEF DlRead, None
  <2>2. /\ Len(in) \in Nat /\ Len(in) >= 1 /\ Len(in') = Len(in) - 1
        /\ Cardinality(Wrong(in')) = Cardinality(Wrong(in)) - 0
    BY <1>m, <2>1, Rest, WrongTail
  <2>3. Unused'
    BY <1>0, <2>1, <2>2 DEF Buffers, Unused
  <2>4. AtMost'
    BY <1>0, <2>1, <2>2 DEF Buffers, AtMost, Busy
  <2>5. AtLeast'
    BY <1>0, <2>1, <2>2, SMTT(120) DEF Buffers, AtLeast, Kept, Lost, Busy
  <2>6. QED
    BY <2>3, <2>4, <2>5 DEF Buffers
<1>16. ASSUME DlStore PROVE Buffers'
  <2>1. /\ in' = in /\ dtr' = dtr /\ cb # None /\ cb' = None
        /\ \/ inbound' = inbound + 1 /\ budget' = budget
           \/ inbound' = inbound /\ budget'.fail = budget.fail - 1 /\ budget'.short = budget.short
    BY <1>b, <1>16 DEF DlStore, Requeue
  <2>2. Unused'
    BY <1>0, <2>1 DEF Buffers, Unused
  <2>3. AtMost'
    BY <1>0, <2>1 DEF Buffers, AtMost, Busy
  <2>4. AtLeast'
    <3>1. CASE inbound' = inbound + 1 /\ budget' = budget
      BY <1>0, <2>1, <3>1, SMTT(120) DEF Buffers, AtLeast, Kept, Lost, Busy
    <3>2. CASE inbound' = inbound /\ budget'.fail = budget.fail - 1 /\ budget'.short = budget.short
      BY <1>0, <2>1, <3>2, SMTT(120) DEF Buffers, AtLeast, Kept, Lost, Busy
    <3>3. QED
      BY <1>0, <2>1, <3>1, <3>2
  <2>5. QED
    BY <2>2, <2>3, <2>4 DEF Buffers
<1>17. ASSUME RemoveWake PROVE Buffers'
  BY <1>0, <1>e, <1>17 DEF RemoveWake, Buffers, Unused, AtMost, AtLeast, Kept, Lost, Busy
<1>18. ASSUME RemoveReset PROVE Buffers'
  BY <1>0, <1>18 DEF RemoveReset, Buffers, Unused, AtMost, AtLeast, Kept, Lost, Busy
<1>19. ASSUME Remove PROVE Buffers'
  BY <1>0, <1>19 DEF Remove, Buffers, Unused, AtMost, AtLeast, Kept, Lost, Busy
<1>20. CASE UNCHANGED vars
  BY <1>0, <1>20 DEF vars, Buffers, Unused, AtMost, AtLeast, Kept, Lost, Busy
<1>21. QED
  BY <1>1, <1>2, <1>3, <1>4, <1>5, <1>6, <1>7, <1>8, <1>9, <1>10, <1>11, <1>12, <1>13, <1>14, <1>15,
     <1>16, <1>17, <1>18, <1>19, <1>20 DEF Next, Tiocmset, DlCb

\* A word read under devres_lock is still the channel's when it is written.
LEMMA LocksKept ==
  ASSUME TypeOK, Holders, Locks, [Next]_vars
  PROVE  Locks'
<1>0. /\ pc \in [Chans -> {"idle", "mutex", "queue", "wait", "update", "store", "exit", "fault"}]
      /\ lock \in [Chans -> {"free", "call", "cb"}] /\ Stray \notin Chans
      /\ tiocm \in [Chans -> SUBSET (Host \cup Modem)] /\ cb.dest \in Chans \cup {Stray}
      /\ word \in [{"call", "cb"} -> SUBSET (Host \cup Modem)]
      /\ None.dest = Stray /\ (cb = None \/ cb.dest \in Chans)
  BY Consts DEF TypeOK, Locks, Dests, None
<1> USE DEF Holders, Inside, Locks, Goto, call, dev
<1>1. ASSUME Probe PROVE Locks'
  BY <1>0, <1>1 DEF Probe
<1>2. ASSUME NEW c \in Chans, NEW s \in Settings, Ioctl(c, s) PROVE Locks'
  BY <1>0, <1>2 DEF Ioctl
<1>3. ASSUME NEW c \in Chans, Lock(c) PROVE Locks'
  BY <1>0, <1>3 DEF Lock
<1>4. ASSUME NEW c \in Chans, Queue(c) PROVE Locks'
  BY <1>0, <1>4 DEF Queue
<1>5. ASSUME NEW c \in Chans, Answered(c) PROVE Locks'
  BY <1>0, <1>5 DEF Answered
<1>6. ASSUME NEW c \in Chans, Timeout(c) PROVE Locks'
  BY <1>0, <1>6 DEF Timeout
<1>7. ASSUME NEW c \in Chans, Update(c) PROVE Locks'
  BY <1>0, <1>7 DEF Update
<1>8. ASSUME NEW c \in Chans, Store(c) PROVE Locks'
  BY <1>0, <1>8 DEF Store
<1>9. ASSUME NEW c \in Chans, Exit(c) PROVE Locks'
  BY <1>0, <1>9 DEF Exit
<1>10. ASSUME ModemTake PROVE Locks'
  BY <1>0, <1>10 DEF ModemTake
<1>11. ASSUME NEW d \in Dests, NEW s \in Signals, ModemReport(d, s) PROVE Locks'
  BY <1>0, <1>11 DEF ModemReport
<1>12. ASSUME UlCb PROVE Locks'
  BY <1>0, <1>12 DEF UlCb
<1>13. ASSUME DlShort PROVE Locks'
  BY <1>0, <1>13 DEF DlShort
<1>14. ASSUME DlStray PROVE Locks'
  BY <1>0, <1>14 DEF DlStray, Requeue
<1>15. ASSUME DlRead PROVE Locks'
  BY <1>0, <1>15 DEF DlRead
<1>16. ASSUME DlStore PROVE Locks'
  BY <1>0, <1>16 DEF DlStore, Requeue
<1>17. ASSUME RemoveWake PROVE Locks'
  BY <1>0, <1>17 DEF RemoveWake
<1>18. ASSUME RemoveReset PROVE Locks'
  BY <1>0, <1>18 DEF RemoveReset
<1>19. ASSUME Remove PROVE Locks'
  BY <1>0, <1>19 DEF Remove
<1>20. CASE UNCHANGED vars
  BY <1>0, <1>20 DEF vars
<1>21. QED
  BY <1>1, <1>2, <1>3, <1>4, <1>5, <1>6, <1>7, <1>8, <1>9, <1>10, <1>11, <1>12, <1>13, <1>14, <1>15,
     <1>16, <1>17, <1>18, <1>19, <1>20 DEF Next, Tiocmset, DlCb

\* A report on its way is not lost, and a call leaves the modem's signals alone.
LEMMA LatestKept ==
  ASSUME TypeOK, Locks, Latest, [Next]_vars
  PROVE  Latest'
<1>0. /\ tiocm \in [Chans -> SUBSET (Host \cup Modem)] /\ sent \in [Chans -> SUBSET Modem]
      /\ arg \in [Chans -> SUBSET Host] /\ cb \in [dest : Dests, msg : SUBSET Modem]
      /\ word \in [{"call", "cb"} -> SUBSET (Host \cup Modem)]
      /\ pc \in [Chans -> {"idle", "mutex", "queue", "wait", "update", "store", "exit", "fault"}]
      /\ Stray \notin Chans /\ \A s \in Signals : s \subseteq Modem /\ Dests = Chans \cup {Stray}
      /\ in \in Seq(Message) /\ Len(in) \in Nat
  BY Consts DEF TypeOK, Dests, Message
<1> USE DEF Goto, call, dev
<1>1. ASSUME Probe PROVE Latest'
  BY <1>0, <1>1 DEF Probe, Latest, Present, About
<1>2. ASSUME NEW c \in Chans, NEW s \in Settings, Ioctl(c, s) PROVE Latest'
  BY <1>0, <1>2 DEF Ioctl, Latest, Present, About
<1>3. ASSUME NEW c \in Chans, Lock(c) PROVE Latest'
  BY <1>0, <1>3 DEF Lock, Latest, Present, About
<1>4. ASSUME NEW c \in Chans, Queue(c) PROVE Latest'
  BY <1>0, <1>4 DEF Queue, Latest, Present, About
<1>5. ASSUME NEW c \in Chans, Answered(c) PROVE Latest'
  BY <1>0, <1>5 DEF Answered, Latest, Present, About
<1>6. ASSUME NEW c \in Chans, Timeout(c) PROVE Latest'
  BY <1>0, <1>6 DEF Timeout, Latest, Present, About
<1>7. ASSUME NEW c \in Chans, Update(c) PROVE Latest'
  BY <1>0, <1>7 DEF Update, Latest, Present, About
<1>8. ASSUME NEW c \in Chans, Store(c) PROVE Latest'
  <2>1. /\ in' = in /\ cb' = cb /\ sent' = sent /\ dtr' = dtr /\ pc[c] = "store"
        /\ tiocm' = [tiocm EXCEPT ![c] = (word["call"] \ Host) \cup arg[c]]
    BY <1>8 DEF Store
  <2>2. word["call"] = tiocm[c] /\ arg[c] \subseteq Host
    BY <1>0, <2>1 DEF Locks
  <2>3. Host \cap Modem = {}
    BY DEF Host, Modem
  <2>4. ((tiocm[c] \ Host) \cup arg[c]) \cap Modem = tiocm[c] \cap Modem
    BY <2>2, <2>3
  <2>5. \A x \in Chans : tiocm'[x] \cap Modem = tiocm[x] \cap Modem
    BY <1>0, <2>1, <2>2, <2>4
  <2>6. QED
    BY <1>0, <2>1, <2>5 DEF Latest, Present, About
<1>9. ASSUME NEW c \in Chans, Exit(c) PROVE Latest'
  BY <1>0, <1>9 DEF Exit, Latest, Present, About
<1>10. ASSUME ModemTake PROVE Latest'
  BY <1>0, <1>10 DEF ModemTake, Latest, Present, About
<1>11. ASSUME NEW d \in Dests, NEW s \in Signals, ModemReport(d, s) PROVE Latest'
  <2>0. PICK n \in Nat : n = Len(in)
    BY <1>0
  <2>1. PICK w \in BOOLEAN :
          /\ in' = Append(in, [dest |-> d, msg |-> s, whole |-> w])
          /\ sent' = IF w /\ d \in Chans THEN [sent EXCEPT ![d] = s] ELSE sent
    BY <1>0, <1>11 DEF ModemReport
  <2>2. cb' = cb /\ dtr' = dtr /\ tiocm' = tiocm /\ Present
    BY <1>11 DEF ModemReport, Serving, Present
  <2>3. /\ Len(in') = n + 1 /\ in'[n + 1] = [dest |-> d, msg |-> s, whole |-> w]
        /\ \A i \in 1 .. Len(in) : in'[i] = in[i]
    BY <1>0, <2>0, <2>1
  <2>4. SUFFICES ASSUME NEW x \in Chans
                 PROVE  /\ \A i \in 1 .. Len(in') :
                             About(x, i)' /\ (\A j \in 1 .. Len(in') : About(x, j)' => j <= i)
                               => in'[i].msg = sent'[x]
                        /\ (\A i \in 1 .. Len(in') : ~About(x, i)') =>
                             (IF cb.dest = x THEN cb.msg ELSE tiocm[x] \cap Modem) = sent'[x]
    BY <2>2 DEF Latest, Present
  <2>5. /\ \A i \in 1 .. Len(in) :
             About(x, i) /\ (\A j \in 1 .. Len(in) : About(x, j) => j <= i) => in[i].msg = sent[x]
        /\ (\A i \in 1 .. Len(in) : ~About(x, i)) =>
             (IF cb.dest = x THEN cb.msg ELSE tiocm[x] \cap Modem) = sent[x]
    BY <2>2 DEF Latest
  <2>6. CASE w /\ d = x
    <3>0. About(x, n + 1)' /\ in'[n + 1].msg = s
      BY <2>3, <2>6 DEF About
    <3>1. sent'[x] = s
      BY <1>0, <2>1, <2>6
    <3>2. n + 1 \in 1 .. Len(in')
      BY <1>0, <2>0, <2>3
    <3>3. \A i \in 1 .. Len(in') : i >= n + 1 => i = n + 1
      BY <1>0, <2>0, <2>3
    <3>4. ASSUME NEW i \in 1 .. Len(in'), \A j \in 1 .. Len(in') : About(x, j)' => j <= i
          PROVE  i = n + 1
      BY <3>0, <3>2, <3>3, <3>4
    <3>5. QED
      BY <3>0, <3>1, <3>2, <3>4
  <2>7. CASE ~(w /\ d = x)
    <3>0. ~About(x, n + 1)'
      BY <2>3, <2>7 DEF About
    <3>1. sent'[x] = sent[x]
      BY <1>0, <2>1, <2>7
    <3>2. \A i \in 1 .. Len(in) : /\ i \in 1 .. Len(in') /\ i # n + 1
                                  /\ About(x, i)' <=> About(x, i)
      BY <1>0, <2>0, <2>3 DEF About
    <3>3. \A i \in 1 .. Len(in') : i \in 1 .. Len(in) \/ i = n + 1
      BY <1>0, <2>0, <2>3
    <3>4. ASSUME NEW i \in 1 .. Len(in'), About(x, i)', \A j \in 1 .. Len(in') : About(x, j)' => j <= i
          PROVE  in'[i].msg = sent'[x]
      <4>1. i \in 1 .. Len(in) /\ About(x, i)
        BY <3>0, <3>2, <3>3, <3>4
      <4>2. \A j \in 1 .. Len(in) : About(x, j) => j <= i
        BY <3>2, <3>4
      <4>3. QED
        BY <2>3, <2>5, <3>1, <4>1, <4>2
    <3>5. ASSUME \A i \in 1 .. Len(in') : ~About(x, i)'
          PROVE  (IF cb.dest = x THEN cb.msg ELSE tiocm[x] \cap Modem) = sent'[x]
      BY <2>5, <3>0, <3>1, <3>2, <3>5
    <3>6. QED
      BY <3>4, <3>5
  <2>8. QED
    BY <2>6, <2>7
<1>12. ASSUME UlCb PROVE Latest'
  BY <1>0, <1>12 DEF UlCb, Latest, Present, About
<1>13. ASSUME DlShort PROVE Latest'
  <2>1. /\ in # <<>> /\ in' = Tail(in) /\ sent' = sent /\ dtr' = dtr /\ tiocm' = tiocm
        /\ cb' = cb /\ ~Head(in).whole
    BY <1>0, <1>13 DEF DlShort
  <2>2. /\ Len(in) >= 1 /\ Len(in') = Len(in) - 1 /\ Head(in) = in[1]
        /\ \A i \in 1 .. Len(in) - 1 : in'[i] = in[i + 1]
    BY <1>0, <2>1, Rest
  <2>3. SUFFICES ASSUME Present, NEW x \in Chans
                 PROVE  /\ \A i \in 1 .. Len(in') :
                             About(x, i)' /\ (\A j \in 1 .. Len(in') : About(x, j)' => j <= i) => in'[i].msg = sent[x]
                        /\ (\A i \in 1 .. Len(in') : ~About(x, i)') =>
                             (IF cb'.dest = x THEN cb'.msg ELSE tiocm[x] \cap Modem) = sent[x]
    BY <2>1 DEF Latest, Present
  <2>4. /\ \A i \in 1 .. Len(in) :
             About(x, i) /\ (\A j \in 1 .. Len(in) : About(x, j) => j <= i) => in[i].msg = sent[x]
        /\ (\A i \in 1 .. Len(in) : ~About(x, i)) =>
             (IF cb.dest = x THEN cb.msg ELSE tiocm[x] \cap Modem) = sent[x]
    BY <2>3 DEF Latest
  <2>5. \A i \in 1 .. Len(in') : About(x, i)' <=> About(x, i + 1)
    BY <2>2 DEF About
  <2>6. ASSUME NEW i \in 1 .. Len(in'), About(x, i)', \A j \in 1 .. Len(in') : About(x, j)' => j <= i
        PROVE  in'[i].msg = sent[x]
    <3>1. About(x, i + 1) /\ i + 1 \in 1 .. Len(in)
      BY <1>0, <2>2, <2>5, <2>6
    <3>2. ASSUME NEW j \in 1 .. Len(in), About(x, j), j > 1 PROVE j <= i + 1
      <4>1. j - 1 \in 1 .. Len(in') /\ (j - 1) + 1 = j
        BY <1>0, <2>2, <3>2
      <4>2. About(x, j - 1)'
        BY <2>5, <3>2, <4>1
      <4>3. j - 1 <= i
        BY <2>6, <4>1, <4>2
      <4>4. QED
        BY <1>0, <2>2, <4>3
    <3>3. \A j \in 1 .. Len(in) : About(x, j) => j <= i + 1
      BY <1>0, <2>2, <3>2
    <3>4. QED
      BY <1>0, <2>2, <2>4, <3>1, <3>3
  <2>7. ASSUME \A i \in 1 .. Len(in') : ~About(x, i)'
        PROVE  (IF cb'.dest = x THEN cb'.msg ELSE tiocm[x] \cap Modem) = sent[x]
    <3>1. ASSUME NEW j \in 1 .. Len(in), j > 1 PROVE ~About(x, j)
      <4>1. j - 1 \in 1 .. Len(in') /\ (j - 1) + 1 = j
        BY <1>0, <2>2, <3>1
      <4>2. QED
        BY <2>5, <2>7, <4>1
    <3>2. ~About(x, 1)
      BY <2>1, <2>2 DEF About
    <3>3. \A j \in 1 .. Len(in) : ~About(x, j)
      BY <1>0, <2>2, <3>1, <3>2
    <3>4. QED
      BY <2>1, <2>4, <3>3
  <2>8. QED
    BY <2>6, <2>7
<1>14. ASSUME DlStray PROVE Latest'
  <2>1. /\ in # <<>> /\ in' = Tail(in) /\ sent' = sent /\ dtr' = dtr /\ tiocm' = tiocm
        /\ cb' = cb /\ Head(in).dest \notin Chans
    BY <1>0, <1>14 DEF DlStray
  <2>2. /\ Len(in) >= 1 /\ Len(in') = Len(in) - 1 /\ Head(in) = in[1]
        /\ \A i \in 1 .. Len(in) - 1 : in'[i] = in[i + 1]
    BY <1>0, <2>1, Rest
  <2>3. SUFFICES ASSUME Present, NEW x \in Chans
                 PROVE  /\ \A i \in 1 .. Len(in') :
                             About(x, i)' /\ (\A j \in 1 .. Len(in') : About(x, j)' => j <= i) => in'[i].msg = sent[x]
                        /\ (\A i \in 1 .. Len(in') : ~About(x, i)') =>
                             (IF cb'.dest = x THEN cb'.msg ELSE tiocm[x] \cap Modem) = sent[x]
    BY <2>1 DEF Latest, Present
  <2>4. /\ \A i \in 1 .. Len(in) :
             About(x, i) /\ (\A j \in 1 .. Len(in) : About(x, j) => j <= i) => in[i].msg = sent[x]
        /\ (\A i \in 1 .. Len(in) : ~About(x, i)) =>
             (IF cb.dest = x THEN cb.msg ELSE tiocm[x] \cap Modem) = sent[x]
    BY <2>3 DEF Latest
  <2>5. \A i \in 1 .. Len(in') : About(x, i)' <=> About(x, i + 1)
    BY <2>2 DEF About
  <2>6. ASSUME NEW i \in 1 .. Len(in'), About(x, i)', \A j \in 1 .. Len(in') : About(x, j)' => j <= i
        PROVE  in'[i].msg = sent[x]
    <3>1. About(x, i + 1) /\ i + 1 \in 1 .. Len(in)
      BY <1>0, <2>2, <2>5, <2>6
    <3>2. ASSUME NEW j \in 1 .. Len(in), About(x, j), j > 1 PROVE j <= i + 1
      <4>1. j - 1 \in 1 .. Len(in') /\ (j - 1) + 1 = j
        BY <1>0, <2>2, <3>2
      <4>2. About(x, j - 1)'
        BY <2>5, <3>2, <4>1
      <4>3. j - 1 <= i
        BY <2>6, <4>1, <4>2
      <4>4. QED
        BY <1>0, <2>2, <4>3
    <3>3. \A j \in 1 .. Len(in) : About(x, j) => j <= i + 1
      BY <1>0, <2>2, <3>2
    <3>4. QED
      BY <1>0, <2>2, <2>4, <3>1, <3>3
  <2>7. ASSUME \A i \in 1 .. Len(in') : ~About(x, i)'
        PROVE  (IF cb'.dest = x THEN cb'.msg ELSE tiocm[x] \cap Modem) = sent[x]
    <3>1. ASSUME NEW j \in 1 .. Len(in), j > 1 PROVE ~About(x, j)
      <4>1. j - 1 \in 1 .. Len(in') /\ (j - 1) + 1 = j
        BY <1>0, <2>2, <3>1
      <4>2. QED
        BY <2>5, <2>7, <4>1
    <3>2. ~About(x, 1)
      BY <1>0, <2>1, <2>2 DEF About
    <3>3. \A j \in 1 .. Len(in) : ~About(x, j)
      BY <1>0, <2>2, <3>1, <3>2
    <3>4. QED
      BY <2>1, <2>4, <3>3
  <2>8. QED
    BY <2>6, <2>7
<1>15. ASSUME DlRead PROVE Latest'
  <2>1. /\ in # <<>> /\ in' = Tail(in) /\ sent' = sent /\ dtr' = dtr /\ tiocm' = tiocm
        /\ cb = None /\ Head(in).whole
        /\ cb' = [dest |-> Head(in).dest, msg |-> Head(in).msg]
    BY <1>0, <1>15 DEF DlRead
  <2>2. /\ Len(in) >= 1 /\ Len(in') = Len(in) - 1 /\ Head(in) = in[1]
        /\ \A i \in 1 .. Len(in) - 1 : in'[i] = in[i + 1]
    BY <1>0, <2>1, Rest
  <2>3. SUFFICES ASSUME Present, NEW x \in Chans
                 PROVE  /\ \A i \in 1 .. Len(in') :
                             About(x, i)' /\ (\A j \in 1 .. Len(in') : About(x, j)' => j <= i) => in'[i].msg = sent[x]
                        /\ (\A i \in 1 .. Len(in') : ~About(x, i)') =>
                             (IF cb'.dest = x THEN cb'.msg ELSE tiocm[x] \cap Modem) = sent[x]
    BY <2>1 DEF Latest, Present
  <2>4. /\ \A i \in 1 .. Len(in) :
             About(x, i) /\ (\A j \in 1 .. Len(in) : About(x, j) => j <= i) => in[i].msg = sent[x]
        /\ (\A i \in 1 .. Len(in) : ~About(x, i)) =>
             (IF cb.dest = x THEN cb.msg ELSE tiocm[x] \cap Modem) = sent[x]
    BY <2>3 DEF Latest
  <2>5. \A i \in 1 .. Len(in') : About(x, i)' <=> About(x, i + 1)
    BY <2>2 DEF About
  <2>6. ASSUME NEW i \in 1 .. Len(in'), About(x, i)', \A j \in 1 .. Len(in') : About(x, j)' => j <= i
        PROVE  in'[i].msg = sent[x]
    <3>1. About(x, i + 1) /\ i + 1 \in 1 .. Len(in)
      BY <1>0, <2>2, <2>5, <2>6
    <3>2. ASSUME NEW j \in 1 .. Len(in), About(x, j), j > 1 PROVE j <= i + 1
      <4>1. j - 1 \in 1 .. Len(in') /\ (j - 1) + 1 = j
        BY <1>0, <2>2, <3>2
      <4>2. About(x, j - 1)'
        BY <2>5, <3>2, <4>1
      <4>3. j - 1 <= i
        BY <2>6, <4>1, <4>2
      <4>4. QED
        BY <1>0, <2>2, <4>3
    <3>3. \A j \in 1 .. Len(in) : About(x, j) => j <= i + 1
      BY <1>0, <2>2, <3>2
    <3>4. QED
      BY <1>0, <2>2, <2>4, <3>1, <3>3
  <2>7. ASSUME \A i \in 1 .. Len(in') : ~About(x, i)'
        PROVE  (IF cb'.dest = x THEN cb'.msg ELSE tiocm[x] \cap Modem) = sent[x]
    <3>1. ASSUME NEW j \in 1 .. Len(in), j > 1 PROVE ~About(x, j)
      <4>1. j - 1 \in 1 .. Len(in') /\ (j - 1) + 1 = j
        BY <1>0, <2>2, <3>1
      <4>2. QED
        BY <2>5, <2>7, <4>1
    <3>2. CASE About(x, 1)
      <4>1. \A j \in 1 .. Len(in) : About(x, j) => j <= 1
        BY <1>0, <2>2, <3>1
      <4>2. in[1].msg = sent[x]
        BY <1>0, <2>2, <2>4, <3>2, <4>1
      <4>3. cb'.dest = x /\ cb'.msg = in[1].msg
        BY <2>1, <2>2, <3>2 DEF About
      <4>4. QED
        BY <4>2, <4>3
    <3>3. CASE ~About(x, 1)
      <4>1. \A j \in 1 .. Len(in) : ~About(x, j)
        BY <1>0, <2>2, <3>1, <3>3
      <4>2. cb'.dest # x /\ cb.dest # x
        BY <1>0, <2>1, <2>2, <3>3 DEF About, None
      <4>3. QED
        BY <2>4, <4>1, <4>2
    <3>4. QED
      BY <3>2, <3>3
  <2>8. QED
    BY <2>6, <2>7
<1>16. ASSUME DlStore PROVE Latest'
  <2>1. /\ in' = in /\ cb' = None /\ sent' = sent /\ dtr' = dtr /\ cb # None
        /\ tiocm' = [tiocm EXCEPT ![cb.dest] = (word["cb"] \ Modem) \cup cb.msg]
    BY <1>16 DEF DlStore
  <2>2. cb.dest \in Chans /\ cb.msg \subseteq Modem /\ word["cb"] = tiocm[cb.dest]
    BY <1>0, <2>1 DEF Locks
  <2>3. ((tiocm[cb.dest] \ Modem) \cup cb.msg) \cap Modem = cb.msg
    BY <2>2
  <2>4. \A x \in Chans : tiocm'[x] \cap Modem = IF cb.dest = x THEN cb.msg ELSE tiocm[x] \cap Modem
    BY <1>0, <2>1, <2>2, <2>3
  <2>5. \A x \in Chans : cb'.dest # x
    BY <1>0, <2>1 DEF None
  <2>6. QED
    BY <1>0, <2>1, <2>4, <2>5 DEF Latest, Present, About
<1>17. ASSUME RemoveWake PROVE Latest'
  BY <1>0, <1>17 DEF RemoveWake, Latest, Present, About
<1>18. ASSUME RemoveReset PROVE Latest'
  BY <1>0, <1>18 DEF RemoveReset, Latest, Present, About
<1>19. ASSUME Remove PROVE Latest'
  BY <1>0, <1>19 DEF Remove, Latest, Present, About
<1>20. CASE UNCHANGED vars
  BY <1>0, <1>20 DEF vars, Latest, Present, About
<1>21. QED
  BY <1>1, <1>2, <1>3, <1>4, <1>5, <1>6, <1>7, <1>8, <1>9, <1>10, <1>11, <1>12, <1>13, <1>14, <1>15,
     <1>16, <1>17, <1>18, <1>19, <1>20 DEF Next, Tiocmset, DlCb

\* The types, in five parts.
Words ==
  /\ tiocm \in [Chans -> SUBSET (Host \cup Modem)]
  /\ lock \in [Chans -> {"free", "call", "cb"}]
  /\ word \in [{"call", "cb"} -> SUBSET (Host \cup Modem)]
  /\ cb \in [dest : Dests, msg : SUBSET Modem]
  /\ view \in [Chans -> SUBSET Host] /\ sent \in [Chans -> SUBSET Modem]
Callers ==
  /\ pc \in [Chans -> {"idle", "mutex", "queue", "wait", "update", "store", "exit", "fault"}]
  /\ arg \in [Chans -> SUBSET Host] /\ mutex \in Dests /\ done \in 0 .. Many
Uplink ==
  out \in Seq([chan : Chans, msg : SUBSET Host, live : BOOLEAN]) /\ Len(out) <= Ring /\ acks \in Nat
Downlink ==
  in \in Seq([dest : Dests, msg : SUBSET Modem, whole : BOOLEAN]) /\ inbound \in 0 .. Bufs
Counts ==
  /\ dtr \in {"down", "up", "unbound", "woken", "reset", "gone"}
  /\ budget \in [call : [Chans -> 0 .. Calls], report : 0 .. Reports, short : 0 .. Short,
                 fail : 0 .. Fails, late : 0 .. Late]

\* The type invariant by parts, before and after a step.
LEMMA TypesSplit ==
  /\ TypeOK <=> Words /\ Callers /\ Uplink /\ Downlink /\ Counts
  /\ TypeOK' <=> Words' /\ Callers' /\ Uplink' /\ Downlink' /\ Counts'
<1>1. TypeOK <=> Words /\ Callers /\ Uplink /\ Downlink /\ Counts
  BY Zenon DEF TypeOK, Words, Callers, Uplink, Downlink, Counts
<1>2. QED
  BY <1>1, PTL

\* Every variable keeps its type.
LEMMA TypesKept ==
  ASSUME TypeOK, Locks, Buffers, [Next]_vars
  PROVE  TypeOK'
<1>0. /\ Words /\ Callers /\ Uplink /\ Downlink /\ Counts
      /\ Bufs \in Nat /\ Ring \in Nat /\ Calls \in Nat /\ Reports \in Nat
      /\ Short \in Nat /\ Fails \in Nat /\ Late \in Nat /\ Many \in Nat /\ Many >= 2
      /\ (\A s \in Settings : s \subseteq Host) /\ (\A s \in Signals : s \subseteq Modem)
  BY Consts, TypesSplit
<1>r. in \in Seq(Message) /\ Len(in) \in Nat
  BY <1>0 DEF Downlink, Message
<1> USE DEF Goto, call, dev, Dests
<1>1. ASSUME Probe PROVE TypeOK'
  <2>5. Words'
    BY <1>0, <1>1 DEF Words, Probe
  <2>6. Callers'
    BY <1>0, <1>1 DEF Callers, Probe
  <2>7. Uplink'
    BY <1>0, <1>1 DEF Uplink, Probe
  <2>8. Downlink'
    BY <1>0, <1>1 DEF Downlink, Probe
  <2>9. Counts'
    BY <1>0, <1>1 DEF Counts, Probe
  <2>10. QED
    BY <2>5, <2>6, <2>7, <2>8, <2>9, TypesSplit
<1>2. ASSUME NEW c \in Chans, NEW s \in Settings, Ioctl(c, s) PROVE TypeOK'
  <2>5. Words'
    BY <1>0, <1>2 DEF Words, Ioctl
  <2>6. Callers'
    BY <1>0, <1>2 DEF Callers, Ioctl
  <2>7. Uplink'
    BY <1>0, <1>2 DEF Uplink, Ioctl
  <2>8. Downlink'
    BY <1>0, <1>2 DEF Downlink, Ioctl
  <2>9. Counts'
    BY <1>0, <1>2 DEF Counts, Ioctl
  <2>10. QED
    BY <2>5, <2>6, <2>7, <2>8, <2>9, TypesSplit
<1>3. ASSUME NEW c \in Chans, Lock(c) PROVE TypeOK'
  <2>5. Words'
    BY <1>0, <1>3 DEF Words, Lock
  <2>6. Callers'
    BY <1>0, <1>3 DEF Callers, Lock
  <2>7. Uplink'
    BY <1>0, <1>3 DEF Uplink, Lock
  <2>8. Downlink'
    BY <1>0, <1>3 DEF Downlink, Lock
  <2>9. Counts'
    BY <1>0, <1>3 DEF Counts, Lock
  <2>10. QED
    BY <2>5, <2>6, <2>7, <2>8, <2>9, TypesSplit
<1>4. ASSUME NEW c \in Chans, Queue(c) PROVE TypeOK'
  <2>5. Words'
    BY <1>0, <1>4 DEF Words, Queue
  <2>6. Callers'
    BY <1>0, <1>4 DEF Callers, Queue
  <2>7. Uplink'
    <3>1. CASE out' = out
      BY <1>0, <3>1, <1>4 DEF Uplink, Queue
    <3>2. CASE out' = Append(out, [chan |-> c, msg |-> arg[c], live |-> TRUE]) /\ Len(out) < Ring
      <4>1. [chan |-> c, msg |-> arg[c], live |-> TRUE] \in [chan : Chans, msg : SUBSET Host, live : BOOLEAN]
        BY <1>0 DEF Callers
      <4>2. Len(out) \in Nat /\ acks' = acks
        BY <1>0, <1>4 DEF Uplink, Queue
      <4>3. QED
        BY <1>0, <3>2, <4>1, <4>2 DEF Uplink
    <3>3. QED
      BY <3>1, <3>2, <1>4 DEF Queue
  <2>8. Downlink'
    BY <1>0, <1>4 DEF Downlink, Queue
  <2>9. Counts'
    BY <1>0, <1>4, SMTT(60) DEF Counts, Queue
  <2>10. QED
    BY <2>5, <2>6, <2>7, <2>8, <2>9, TypesSplit
<1>5. ASSUME NEW c \in Chans, Answered(c) PROVE TypeOK'
  BY <1>0, <1>5 DEF Answered, TypeOK, Words, Callers, Uplink, Downlink, Counts
<1>6. ASSUME NEW c \in Chans, Timeout(c) PROVE TypeOK'
  <2>5. Words'
    BY <1>0, <1>6 DEF Words, Timeout
  <2>6. Callers'
    BY <1>0, <1>6 DEF Callers, Timeout
  <2>7. Uplink'
    BY <1>0, <1>6 DEF Uplink, Timeout
  <2>8. Downlink'
    BY <1>0, <1>6 DEF Downlink, Timeout
  <2>9. Counts'
    BY <1>0, <1>6 DEF Counts, Timeout
  <2>10. QED
    BY <2>5, <2>6, <2>7, <2>8, <2>9, TypesSplit
<1>7. ASSUME NEW c \in Chans, Update(c) PROVE TypeOK'
  BY <1>0, <1>7 DEF Update, TypeOK, Words, Callers, Uplink, Downlink, Counts
<1>8. ASSUME NEW c \in Chans, Store(c) PROVE TypeOK'
  <2>5. Words'
    <3>1. (word["call"] \ Host) \cup arg[c] \in SUBSET (Host \cup Modem)
      BY <1>0 DEF Words, Callers
    <3>2. QED
      BY <1>0, <3>1, <1>8 DEF Words, Store
  <2>6. Callers'
    BY <1>0, <1>8 DEF Callers, Store
  <2>7. Uplink'
    BY <1>0, <1>8 DEF Uplink, Store
  <2>8. Downlink'
    BY <1>0, <1>8 DEF Downlink, Store
  <2>9. Counts'
    BY <1>0, <1>8 DEF Counts, Store
  <2>10. QED
    BY <2>5, <2>6, <2>7, <2>8, <2>9, TypesSplit
<1>9. ASSUME NEW c \in Chans, Exit(c) PROVE TypeOK'
  <2>5. Words'
    BY <1>0, <1>9 DEF Words, Exit
  <2>6. Callers'
    BY <1>0, <1>9 DEF Callers, Exit
  <2>7. Uplink'
    <3>1. /\ Len(out) \in Nat /\ DOMAIN out = 1 .. Len(out)
          /\ \A i \in 1 .. Len(out) : out[i] \in [chan : Chans, msg : SUBSET Host, live : BOOLEAN]
      BY <1>0, LenProperties, ElementOfSeq DEF Uplink
    <3>2. out' \in [1 .. Len(out) -> [chan : Chans, msg : SUBSET Host, live : BOOLEAN]]
      BY <3>1, <1>9 DEF Exit
    <3>3. out' \in Seq([chan : Chans, msg : SUBSET Host, live : BOOLEAN]) /\ Len(out') = Len(out)
      BY <3>1, <3>2, Listed
    <3>4. QED
      BY <1>0, <3>3, <1>9 DEF Uplink, Exit
  <2>8. Downlink'
    BY <1>0, <1>9 DEF Downlink, Exit
  <2>9. Counts'
    BY <1>0, <1>9 DEF Counts, Exit
  <2>10. QED
    BY <2>5, <2>6, <2>7, <2>8, <2>9, TypesSplit
<1>10. ASSUME ModemTake PROVE TypeOK'
  <2>5. Words'
    <3>1. Head(out) \in [chan : Chans, msg : SUBSET Host, live : BOOLEAN]
      BY <1>0, <1>10, HeadTailProperties DEF Uplink, ModemTake
    <3>2. view' \in [Chans -> SUBSET Host]
      BY <1>0, <3>1, <1>10 DEF Words, ModemTake
    <3>3. QED
      BY <1>0, <3>2, <1>10 DEF Words, ModemTake
  <2>6. Callers'
    BY <1>0, <1>10 DEF Callers, ModemTake
  <2>7. Uplink'
    BY <1>0, <1>10, Rest DEF Uplink, ModemTake
  <2>8. Downlink'
    BY <1>0, <1>10 DEF Downlink, ModemTake
  <2>9. Counts'
    BY <1>0, <1>10 DEF Counts, ModemTake
  <2>10. QED
    BY <2>5, <2>6, <2>7, <2>8, <2>9, TypesSplit
<1>11. ASSUME NEW d \in Dests, NEW s \in Signals, ModemReport(d, s) PROVE TypeOK'
  <2>5. Words'
    BY <1>0, <1>11 DEF Words, ModemReport
  <2>6. Callers'
    BY <1>0, <1>11 DEF Callers, ModemReport
  <2>7. Uplink'
    BY <1>0, <1>11 DEF Uplink, ModemReport
  <2>8. Downlink'
    <3>1. PICK w \in BOOLEAN : in' = Append(in, [dest |-> d, msg |-> s, whole |-> w])
      BY <1>11 DEF ModemReport
    <3>2. [dest |-> d, msg |-> s, whole |-> w] \in [dest : Dests, msg : SUBSET Modem, whole : BOOLEAN]
      BY <1>0
    <3>3. inbound' \in 0 .. Bufs
      BY <1>0, <1>11 DEF Downlink, ModemReport
    <3>4. QED
      BY <1>0, <3>1, <3>2, <3>3 DEF Downlink
  <2>9. Counts'
    <3>1. dtr' = dtr /\ budget.report > 0
      BY <1>11 DEF ModemReport
    <3>2. \/ budget' = [budget EXCEPT !.report = budget.report - 1]
          \/ budget.short > 0 /\ budget' = [budget EXCEPT !.report = budget.report - 1, !.short = budget.short - 1]
      BY <1>11 DEF ModemReport
    <3>3. CASE budget' = [budget EXCEPT !.report = budget.report - 1]
      BY <1>0, <3>1, <3>3 DEF Counts
    <3>4. CASE budget.short > 0 /\ budget' = [budget EXCEPT !.report = budget.report - 1, !.short = budget.short - 1]
      <4>1. budget.short - 1 \in 0 .. Short /\ budget.report - 1 \in 0 .. Reports
        BY <1>0, <3>1, <3>4 DEF Counts
      <4> DEFINE b == [budget EXCEPT !.report = budget.report - 1]
      <4>2. /\ b \in [call : [Chans -> 0 .. Calls], report : 0 .. Reports, short : 0 .. Short,
                    fail : 0 .. Fails, late : 0 .. Late]
            /\ budget' = [b EXCEPT !.short = budget.short - 1]
        BY <1>0, <3>4, <4>1 DEF Counts
      <4> HIDE DEF b
      <4>3. QED
        BY <1>0, <3>1, <4>1, <4>2 DEF Counts
    <3>5. QED
      BY <3>2, <3>3, <3>4
  <2>10. QED
    BY <2>5, <2>6, <2>7, <2>8, <2>9, TypesSplit
<1>12. ASSUME UlCb PROVE TypeOK'
  BY <1>0, <1>12 DEF UlCb, TypeOK, Words, Callers, Uplink, Downlink, Counts
<1>13. ASSUME DlShort PROVE TypeOK'
  BY <1>0, <1>13, SMTT(60) DEF DlShort, TypeOK, Words, Callers, Uplink, Downlink, Counts
<1>14. ASSUME DlStray PROVE TypeOK'
  <2>5. Words'
    BY <1>0, <1>14 DEF Words, DlStray
  <2>6. Callers'
    BY <1>0, <1>14 DEF Callers, DlStray
  <2>7. Uplink'
    BY <1>0, <1>14 DEF Uplink, DlStray
  <2>8. Downlink'
    <3>1. inbound + 1 <= Bufs
      BY <1>0, <1>r, <1>14, Rest DEF Buffers, AtMost, Busy, Downlink, DlStray
    <3>2. in' \in Seq([dest : Dests, msg : SUBSET Modem, whole : BOOLEAN])
      BY <1>0, <1>14, Rest DEF Downlink, DlStray
    <3>3. inbound' \in 0 .. Bufs
      BY <1>0, <3>1, <1>14 DEF Downlink, DlStray, Requeue
    <3>4. QED
      BY <3>2, <3>3 DEF Downlink
  <2>9. Counts'
    <3>1. CASE budget' = budget
      BY <1>0, <3>1, <1>14 DEF Counts, DlStray
    <3>2. CASE budget.fail > 0 /\ budget' = [budget EXCEPT !.fail = budget.fail - 1]
      <4>1. dtr' = dtr /\ budget.fail - 1 \in 0 .. Fails
        BY <1>0, <3>2, <1>14 DEF Counts, DlStray
      <4>2. QED
        BY <1>0, <3>2, <4>1 DEF Counts
    <3>3. QED
      BY <3>1, <3>2, <1>14 DEF DlStray, Requeue
  <2>10. QED
    BY <2>5, <2>6, <2>7, <2>8, <2>9, TypesSplit
<1>15. ASSUME DlRead PROVE TypeOK'
  <2>5. Words'
    <3>1. Head(in) \in [dest : Dests, msg : SUBSET Modem, whole : BOOLEAN] /\ Head(in).dest \in Chans
      BY <1>0, <1>15, Rest DEF Downlink, DlRead
    <3>2. QED
      BY <1>0, <3>1, <1>15 DEF Words, DlRead
  <2>6. Callers'
    BY <1>0, <1>15 DEF Callers, DlRead
  <2>7. Uplink'
    BY <1>0, <1>15 DEF Uplink, DlRead
  <2>8. Downlink'
    BY <1>0, <1>15, Rest DEF Downlink, DlRead
  <2>9. Counts'
    BY <1>0, <1>15 DEF Counts, DlRead
  <2>10. QED
    BY <2>5, <2>6, <2>7, <2>8, <2>9, TypesSplit
<1>16. ASSUME DlStore PROVE TypeOK'
  <2>5. Words'
    <3>1. cb.dest \in Chans /\ cb.msg \subseteq Modem /\ None \in [dest : Dests, msg : SUBSET Modem]
      BY <1>0, <1>16 DEF Words, Locks, DlStore, None
    <3>2. (word["cb"] \ Modem) \cup cb.msg \in SUBSET (Host \cup Modem)
      BY <1>0, <3>1 DEF Words
    <3>3. QED
      BY <1>0, <3>1, <3>2, <1>16 DEF Words, DlStore
  <2>6. Callers'
    BY <1>0, <1>16 DEF Callers, DlStore
  <2>7. Uplink'
    BY <1>0, <1>16 DEF Uplink, DlStore
  <2>8. Downlink'
    <3>1. inbound + 1 <= Bufs
      BY <1>0, <1>r, <1>16, Rest DEF Buffers, AtMost, Busy, Downlink, DlStore
    <3>2. in' \in Seq([dest : Dests, msg : SUBSET Modem, whole : BOOLEAN])
      BY <1>0, <1>16, Rest DEF Downlink, DlStore
    <3>3. inbound' \in 0 .. Bufs
      BY <1>0, <3>1, <1>16 DEF Downlink, DlStore, Requeue
    <3>4. QED
      BY <3>2, <3>3 DEF Downlink
  <2>9. Counts'
    <3>1. CASE budget' = budget
      BY <1>0, <3>1, <1>16 DEF Counts, DlStore
    <3>2. CASE budget.fail > 0 /\ budget' = [budget EXCEPT !.fail = budget.fail - 1]
      <4>1. dtr' = dtr /\ budget.fail - 1 \in 0 .. Fails
        BY <1>0, <3>2, <1>16 DEF Counts, DlStore
      <4>2. QED
        BY <1>0, <3>2, <4>1 DEF Counts
    <3>3. QED
      BY <3>1, <3>2, <1>16 DEF DlStore, Requeue
  <2>10. QED
    BY <2>5, <2>6, <2>7, <2>8, <2>9, TypesSplit
<1>17. ASSUME RemoveWake PROVE TypeOK'
  BY <1>0, <1>17 DEF RemoveWake, TypeOK, Words, Callers, Uplink, Downlink, Counts
<1>18. ASSUME RemoveReset PROVE TypeOK'
  BY <1>0, <1>18 DEF RemoveReset, TypeOK, Words, Callers, Uplink, Downlink, Counts
<1>19. ASSUME Remove PROVE TypeOK'
  BY <1>0, <1>19 DEF Remove, TypeOK, Words, Callers, Uplink, Downlink, Counts
<1>20. CASE UNCHANGED vars
  BY <1>0, <1>20 DEF vars, TypeOK, Words, Callers, Uplink, Downlink, Counts
<1>21. QED
  BY <1>1, <1>2, <1>3, <1>4, <1>5, <1>6, <1>7, <1>8, <1>9, <1>10, <1>11, <1>12, <1>13, <1>14, <1>15,
     <1>16, <1>17, <1>18, <1>19, <1>20 DEF Next, Tiocmset, DlCb

\* The message, its completion and the wake-up of the one who waits.
LEMMA TalkKept ==
  ASSUME TypeOK, Holders, Locks, Talk, [Next]_vars
  PROVE  Talk'
<1>0. /\ pc \in [Chans -> {"idle", "mutex", "queue", "wait", "update", "store", "exit", "fault"}]
      /\ mutex \in Chans \cup {Stray} /\ Stray \notin Chans
      /\ tiocm \in [Chans -> SUBSET (Host \cup Modem)] /\ view \in [Chans -> SUBSET Host]
      /\ arg \in [Chans -> SUBSET Host] /\ cb \in [dest : Dests, msg : SUBSET Modem]
      /\ word \in [{"call", "cb"} -> SUBSET (Host \cup Modem)]
      /\ acks \in Nat /\ done \in Nat /\ Many \in Nat /\ Many >= 2
      /\ out \in Seq([chan : Chans, msg : SUBSET Host, live : BOOLEAN])
      /\ budget.late \in 0 .. Late
  BY Consts DEF TypeOK, Dests
<1>b. budget \in [call : [Chans -> 0 .. Calls], report : 0 .. Reports, short : 0 .. Short,
                 fail : 0 .. Fails, late : 0 .. Late] /\ Late \in Nat
  BY Consts DEF TypeOK
<1> USE DEF Holders, Inside, Talk, Present, Goto, call, dev
<1>1. ASSUME Probe PROVE Talk'
  <2>1. budget'.late = budget.late
    BY <1>b, <1>1 DEF Probe
  <2>2. /\ pc' = pc /\ out' = out /\ acks' = acks /\ done' = done /\ arg' = arg
        /\ tiocm' = tiocm /\ view' = view /\ dtr = "down" /\ dtr' \in {"up", "unbound"}
    BY <1>1 DEF Probe
  <2>3. QED
    BY <1>0, <2>1, <2>2
<1>2. ASSUME NEW c \in Chans, NEW s \in Settings, Ioctl(c, s) PROVE Talk'
  BY <1>0, <1>2 DEF Ioctl
<1>3. ASSUME NEW c \in Chans, Lock(c) PROVE Talk'
  <2>1. budget'.late = budget.late
    BY <1>b, <1>3 DEF Lock
  <2>2. /\ pc[c] = "mutex" /\ mutex = Stray /\ mutex' = c
        /\ \/ done' = 0 /\ pc' = [pc EXCEPT ![c] = "queue"]
           \/ done' = done /\ pc' = [pc EXCEPT ![c] = "exit"]
        /\ out' = out /\ acks' = acks /\ arg' = arg /\ tiocm' = tiocm /\ view' = view /\ dtr' = dtr
    BY <1>3 DEF Lock
  <2>3. QED
    BY <1>0, <2>1, <2>2
<1>4. ASSUME NEW c \in Chans, Queue(c) PROVE Talk'
  <2>1. budget'.late = budget.late
    BY <1>b, <1>4 DEF Queue
  <2>2. /\ pc[c] = "queue" /\ acks' = acks /\ arg' = arg /\ tiocm' = tiocm /\ view' = view
        /\ dtr' = dtr /\ done' = done
        /\ \/ dtr = "gone" /\ pc' = [pc EXCEPT ![c] = "fault"] /\ out' = out
           \/ out' = Append(out, [chan |-> c, msg |-> arg[c], live |-> TRUE]) /\ pc' = [pc EXCEPT ![c] = "wait"]
           \/ out' = out /\ pc' = [pc EXCEPT ![c] = "exit"]
    BY <1>4 DEF Queue
  <2>3. CASE dtr = "gone" /\ pc' = [pc EXCEPT ![c] = "fault"] /\ out' = out
    BY <1>0, <2>1, <2>2, <2>3
  <2>4. CASE out' = Append(out, [chan |-> c, msg |-> arg[c], live |-> TRUE]) /\ pc' = [pc EXCEPT ![c] = "wait"]
    <3>1. dtr # "down" /\ mutex = c /\ \A x \in Chans : x # c => pc[x] \notin Inside /\ pc'[x] = pc[x]
      BY <1>0, <2>2, <2>4
    <3>2. CASE Present /\ budget.late = Late
      <4>1. out = <<>> /\ acks = 0 /\ done = 0 /\ tiocm[c] \cap Host = view[c] /\ pc'[c] = "wait"
        BY <1>0, <2>2, <2>4, <3>1, <3>2
      <4>2. out' = <<[chan |-> c, msg |-> arg[c], live |-> TRUE]>>
        BY <2>4, <4>1
      <4>3. QED
        BY <1>0, <2>1, <2>2, <3>1, <3>2, <4>1, <4>2
    <3>3. CASE ~(Present /\ budget.late = Late)
      BY <2>1, <2>2, <3>1, <3>3
    <3>4. QED
      BY <3>2, <3>3
  <2>5. CASE out' = out /\ pc' = [pc EXCEPT ![c] = "exit"]
    BY <1>0, <2>1, <2>2, <2>5
  <2>6. QED
    BY <2>2, <2>3, <2>4, <2>5
<1>5. ASSUME NEW c \in Chans, Answered(c) PROVE Talk'
  BY <1>0, <1>5 DEF Answered
<1>6. ASSUME NEW c \in Chans, Timeout(c) PROVE Talk'
  <2>1. CASE Serving
    <3>1. budget'.late # Late
      BY <1>b, <2>1, <1>6 DEF Timeout
    <3>2. dtr' = dtr /\ dtr # "down"
      BY <2>1, <1>6 DEF Timeout, Serving
    <3>3. QED
      BY <3>1, <3>2
  <2>2. CASE ~Serving
    <3>1. dtr' = dtr /\ dtr \notin {"up", "unbound"} /\ dtr # "down"
      BY <1>0, <2>2, <1>6 DEF Timeout, Serving
    <3>2. QED
      BY <3>1
  <2>3. QED
    BY <2>1, <2>2
<1>7. ASSUME NEW c \in Chans, Update(c) PROVE Talk'
  BY <1>0, <1>7 DEF Update
<1>8. ASSUME NEW c \in Chans, Store(c) PROVE Talk'
  BY <1>0, <1>8 DEF Store
<1>9. ASSUME NEW c \in Chans, Exit(c) PROVE Talk'
  BY <1>0, <1>9 DEF Exit
<1>10. ASSUME ModemTake PROVE Talk'
  BY <1>0, <1>10 DEF ModemTake
<1>11. ASSUME NEW d \in Dests, NEW s \in Signals, ModemReport(d, s) PROVE Talk'
  <2>1. budget'.late = budget.late
    BY <1>b, <1>11 DEF ModemReport, Serving
  <2>2. /\ pc' = pc /\ mutex' = mutex /\ arg' = arg /\ done' = done /\ out' = out /\ acks' = acks
        /\ view' = view /\ tiocm' = tiocm /\ dtr' = dtr
    BY <1>0, <1>11 DEF ModemReport, Serving
  <2>3. QED
    BY <1>0, <2>1, <2>2 DEF Locks
<1>12. ASSUME UlCb PROVE Talk'
  BY <1>0, <1>12 DEF UlCb
<1>13. ASSUME DlShort PROVE Talk'
  BY <1>0, <1>13 DEF DlShort
<1>14. ASSUME DlStray PROVE Talk'
  <2>1. budget'.late = budget.late
    BY <1>b, <1>14 DEF DlStray, Requeue
  <2>2. /\ pc' = pc /\ mutex' = mutex /\ arg' = arg /\ done' = done /\ out' = out /\ acks' = acks
        /\ view' = view /\ tiocm' = tiocm /\ dtr' = dtr
    BY <1>0, <1>14 DEF DlStray, Requeue
  <2>3. QED
    BY <1>0, <2>1, <2>2 DEF Locks
<1>15. ASSUME DlRead PROVE Talk'
  BY <1>0, <1>15 DEF DlRead
<1>16. ASSUME DlStore PROVE Talk'
  <2>1. budget'.late = budget.late
    BY <1>b, <1>16 DEF DlStore, Requeue
  <2>2. /\ pc' = pc /\ mutex' = mutex /\ arg' = arg /\ done' = done /\ out' = out /\ acks' = acks
        /\ view' = view /\ dtr' = dtr /\ cb # None
        /\ tiocm' = [tiocm EXCEPT ![cb.dest] = (word["cb"] \ Modem) \cup cb.msg]
    BY <1>16 DEF DlStore
  <2>3. cb.dest \in Chans /\ cb.msg \subseteq Modem /\ word["cb"] = tiocm[cb.dest] /\ Host \cap Modem = {}
    BY <1>0, <2>2 DEF Locks, Host, Modem
  <2>4. ((tiocm[cb.dest] \ Modem) \cup cb.msg) \cap Host = tiocm[cb.dest] \cap Host
    BY <2>3
  <2>5. \A x \in Chans : tiocm'[x] \cap Host = tiocm[x] \cap Host
    BY <1>0, <2>2, <2>3, <2>4
  <2>6. QED
    BY <2>1, <2>2, <2>5
<1>17. ASSUME RemoveWake PROVE Talk'
  BY <1>0, <1>17 DEF RemoveWake
<1>18. ASSUME RemoveReset PROVE Talk'
  BY <1>0, <1>18 DEF RemoveReset
<1>19. ASSUME Remove PROVE Talk'
  BY <1>0, <1>19 DEF Remove
<1>20. CASE UNCHANGED vars
  BY <1>0, <1>20 DEF vars
<1>21. QED
  BY <1>1, <1>2, <1>3, <1>4, <1>5, <1>6, <1>7, <1>8, <1>9, <1>10, <1>11, <1>12, <1>13, <1>14, <1>15,
     <1>16, <1>17, <1>18, <1>19, <1>20 DEF Next, Tiocmset, DlCb

\* Before the control device is probed the invariant holds.
LEMMA InitInv == Init => IInv
<1> SUFFICES ASSUME Init PROVE IInv
  OBVIOUS
<1> USE DEF Init
<1>0. /\ Bufs \in Nat /\ Ring \in Nat /\ Calls \in Nat /\ Reports \in Nat /\ Short \in Nat /\ Fails \in Nat
      /\ Late \in Nat /\ Many \in Nat /\ Stray \notin Chans
  BY Consts
<1>1. TypeOK
  <2>1. Words /\ Callers
    BY <1>0 DEF Words, Callers, Dests, None
  <2>2. Uplink /\ Downlink
    BY <1>0, EmptySeq DEF Uplink, Downlink
  <2>3. Counts
    BY <1>0 DEF Counts
  <2>4. QED
    BY <2>1, <2>2, <2>3, TypesSplit
<1>2. Holders /\ Locks
  BY <1>0 DEF Holders, Inside, Locks, None
<1>3. Talk
  BY <1>0 DEF Talk
<1>4. Latest
  BY <1>0, EmptySeq DEF Latest, None
<1>5. Buffers
  BY <1>0, EmptySeq DEF Buffers, Unused, AtMost, AtLeast, Busy
<1>6. QED
  BY <1>1, <1>2, <1>3, <1>4, <1>5 DEF IInv

\* Every step of a caller, a callback, the driver core or the modem keeps the invariant.
LEMMA StepKeeps == IInv /\ [Next]_vars => IInv'
BY TypesKept, HoldersKept, LocksKept, TalkKept, LatestKept, BuffersKept DEF IInv

\* What the mutex, devres_lock, the completion and the inbound ring promise together is an
\* invariant of mhi_dtr.c, for any number of channels, calls, failures and late answers.
THEOREM Invariance == Spec => []IInv
BY InitInv, StepKeeps, PTL DEF Spec

\* A caller that is not inside has no message under way, so its word is what the modem was told.
LEMMA Agreed == IInv => WordAgrees
<1> SUFFICES ASSUME IInv PROVE WordAgrees
  OBVIOUS
<1>1. Agreement
  <2>1. SUFFICES ASSUME Serving, ~(budget.late < Late), NEW c \in Chans, pc[c] = "idle"
                 PROVE  tiocm[c] \cap Host = view[c]
    BY DEF Agreement, Disturbed
  <2>2. budget.late = Late
    BY <2>1, Consts DEF IInv, TypeOK
  <2>3. QED
    BY <2>1, <2>2 DEF IInv, Talk, Present, Serving
<1>2. SignalsKnown
  <2>1. SUFFICES ASSUME Serving, NEW c \in Chans, ~Reporting(c)
                 PROVE  tiocm[c] \cap Modem = sent[c]
    BY DEF SignalsKnown
  <2>2. DOMAIN in = 1 .. Len(in)
    BY LenProperties DEF IInv, TypeOK
  <2>3. cb.dest # c /\ \A i \in 1 .. Len(in) : ~About(c, i)
    BY <2>1, <2>2 DEF Reporting, About
  <2>4. QED
    BY <2>1, <2>3 DEF IInv, Latest, Present, Serving
<1>3. QED
  BY <1>1, <1>2 DEF WordAgrees

\* A buffer that is nowhere was of the wrong length or could not be queued.
LEMMA Formed == IInv => WellFormed
<1> SUFFICES ASSUME IInv, dtr = "up"
             PROVE  inbound + Len(in) + Busy >= Bufs - (Short - budget.short) - (Fails - budget.fail)
  BY DEF IInv, WellFormed, InboundKept, Busy
<1>1. in \in Seq(Message) /\ Len(in) \in Int /\ inbound \in Int /\ Busy \in Int
  BY DEF IInv, TypeOK, Message, Busy
<1>2. Cardinality(Wrong(in)) \in Nat
  BY <1>1, WrongFinite
<1>3. /\ Bufs \in Int /\ Short \in Int /\ Fails \in Int /\ budget.short \in Int /\ budget.fail \in Int
  BY Consts DEF IInv, TypeOK
<1> DEFINE used == inbound + Len(in) + Busy
<1>4. Lost \in Int /\ used \in Int
  BY <1>1, <1>3 DEF Lost
<1>5. used - Cardinality(Wrong(in)) + Lost >= Bufs
  <2>1. Kept = used - Cardinality(Wrong(in))
    BY <1>1, <1>2 DEF Kept
  <2>2. QED
    BY <2>1 DEF IInv, Buffers, AtLeast
<1>6. used + Lost >= Bufs
  <2> HIDE DEF used
  <2>1. QED
    BY <1>2, <1>3, <1>4, <1>5
<1>7. used >= Bufs - (Short - budget.short) - (Fails - budget.fail)
  <2> HIDE DEF used
  <2>1. QED
    BY <1>3, <1>4, <1>6 DEF Lost
<1>8. QED
  BY <1>7

\* Host and modem agree on the terminal signals of every channel between calls and reports, for
\* any number of channels, calls, reports and failures (mhi_dtr_tiocmset, mhi_dtr_dl_xfer_cb).
THEOREM SignalsAgree == Spec => []WordAgrees
BY Invariance, Agreed, PTL

\* Types hold, and a buffer of the inbound ring stays in use except for a report of the wrong
\* length and a failed queueing (mhi_dtr_dl_xfer_cb).
THEOREM InboundBuffersKept == Spec => []WellFormed
BY Invariance, Formed, PTL
=============================================================================

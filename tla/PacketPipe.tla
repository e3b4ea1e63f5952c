----------------------------- MODULE PacketPipe -----------------------------
(***************************************************************************)
(* What a character device promises its readers: packets come out in the   *)
(* order they arrived and at most once, and while a file is open and the   *)
(* modem lives and behaves none is lost.                                   *)
(***************************************************************************)
EXTENDS Naturals, Sequences

VARIABLES alive,      \* the modem is up and has behaved, and the device exists
          listening,  \* a file is open
          arrived,    \* number of the last packet that arrived
          waiting,    \* arrived and not read
          taken       \* number of the last packet read
vars == <<alive, listening, arrived, waiting, taken>>

Init == alive = TRUE /\ listening = FALSE /\ arrived = 0 /\ waiting = <<>> /\ taken = 0

Arrive == /\ arrived' = arrived + 1 /\ waiting' = Append(waiting, arrived + 1)
          /\ UNCHANGED <<alive, listening, taken>>

\* Without a reader a packet may be dropped, and also when the modem is dead or has misbehaved.
Miss == /\ ~listening \/ ~alive
        /\ arrived' = arrived + 1
        /\ UNCHANGED <<alive, listening, waiting, taken>>

Take == /\ waiting # <<>>
        /\ taken' = Head(waiting) /\ waiting' = Tail(waiting)
        /\ UNCHANGED <<alive, listening, arrived>>

\* A packet that nobody will read, also because the last file closes.
Lose == /\ ~alive /\ waiting # <<>>
        /\ waiting' = Tail(waiting) /\ listening' \in BOOLEAN
        /\ UNCHANGED <<alive, arrived, taken>>

Come == alive' \in BOOLEAN /\ listening' \in BOOLEAN /\ UNCHANGED <<arrived, waiting, taken>>

Next == Arrive \/ Miss \/ Take \/ Lose \/ Come

Spec == Init /\ [][Next]_vars
=============================================================================

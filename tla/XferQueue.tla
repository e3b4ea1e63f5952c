----------------------------- MODULE XferQueue ------------------------------
(***************************************************************************)
(* What a client may rely on when it queues buffers on a channel: the modem*)
(* moves them in the order they were queued, the client gets every one of  *)
(* them back exactly once and in that order, as completed if and only if   *)
(* the modem moved it and the host learnt so, and as disconnected when the *)
(* channel is taken down.                                                  *)
(***************************************************************************)
EXTENDS Naturals, Sequences

VARIABLES open,     \* the channel is up
          queue,    \* queued and not yet returned
          moved,    \* what the modem has moved, of those
          returned  \* returned to the client, with its fate
vars == <<open, queue, moved, returned>>

Init == open = FALSE /\ queue = <<>> /\ moved = <<>> /\ returned = <<>>

Open == ~open /\ queue = <<>> /\ open' = TRUE /\ UNCHANGED <<queue, moved, returned>>

\* Buffers are numbered in the order they are queued.
Submit == /\ queue' = Append(queue, Len(returned) + Len(queue) + 1)
          /\ UNCHANGED <<open, moved, returned>>

\* The modem moves some buffers, those that were queued first.
Move == /\ Len(moved) < Len(queue)
        /\ \E k \in Len(moved) + 1 .. Len(queue) : moved' = SubSeq(queue, 1, k)
        /\ UNCHANGED <<open, queue, returned>>

Return(fate) == /\ queue # <<>>
                /\ returned' = Append(returned, <<Head(queue), fate>>)
                /\ queue' = Tail(queue)
                /\ moved' = IF moved = <<>> THEN moved ELSE Tail(moved)
                /\ open' = open

Deliver == open /\ moved # <<>> /\ Return("done")
Cancel == ~open /\ Return("notconn")

Close == open /\ open' = FALSE /\ UNCHANGED <<queue, moved, returned>>

Next == Open \/ Submit \/ Move \/ Deliver \/ Cancel \/ Close

Spec == Init /\ [][Next]_vars
=============================================================================

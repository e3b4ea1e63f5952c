------------------------------- MODULE MonLog -------------------------------
(***************************************************************************)
(* What the event monitor promises: from joining to leaving, a reader gets *)
(* the text of every event once, whole and in order, but for the events    *)
(* that were counted as lost and the text of a copy that faulted.          *)
(***************************************************************************)
EXTENDS Naturals, Sequences, FiniteSets

CONSTANTS Files,
          Text(_)   \* the text of the n-th event, a sequence

VARIABLES listening, \* the files that are read
          unread,    \* of each file: the text it is still to get
          got,       \* what the last read of any of them returned; <<>> for a fault
          events,    \* how many events there were
          lost       \* how many of them a reader missed, summed over the readers
vars == <<listening, unread, got, events, lost>>

Init == /\ listening = {} /\ events = 0 /\ lost = 0
        /\ unread = [f \in Files |-> <<>>] /\ got = <<>>

Event ==
  \E missed \in SUBSET listening :
    /\ events' = events + 1 /\ lost' = lost + Cardinality(missed)
    /\ unread' = [f \in Files |-> IF f \in listening \ missed
                                  THEN unread[f] \o Text(events') ELSE unread[f]]
    /\ UNCHANGED <<listening, got>>

Cut(f, k) == unread' = [unread EXCEPT ![f] = SubSeq(@, k + 1, Len(@))]

Deliver(f) ==
  \E k \in 1 .. Len(unread[f]) :
    /\ got' = SubSeq(unread[f], 1, k) /\ Cut(f, k)
    /\ UNCHANGED <<listening, events, lost>>

Fault(f) ==
  \E k \in 0 .. Len(unread[f]) :
    /\ got' = <<>> /\ Cut(f, k)
    /\ UNCHANGED <<listening, events, lost>>

Join(f) == /\ f \notin listening /\ listening' = listening \cup {f}
           /\ UNCHANGED <<unread, got, events, lost>>

Leave(f) == /\ f \in listening /\ listening' = listening \ {f}
            /\ unread' = [unread EXCEPT ![f] = <<>>]
            /\ UNCHANGED <<got, events, lost>>

Next == Event \/ \E f \in Files : Deliver(f) \/ Fault(f) \/ Join(f) \/ Leave(f)

Spec == Init /\ [][Next]_vars
=============================================================================

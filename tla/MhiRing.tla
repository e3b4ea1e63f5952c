------------------------------ MODULE MhiRing -------------------------------
(***************************************************************************)
(* The arithmetic of a ring (struct mhi_ring): a pointer is the index of   *)
(* an element, rp the next one to release and wp the next one to fill, and *)
(* one element stays free so that rp = wp means empty.                     *)
(***************************************************************************)
EXTENDS Naturals, Sequences

CONSTANT N  \* elements of the ring
ASSUME RingAssumption == N \in Nat /\ N >= 2

Slots == 0 .. N - 1

\* mhi_add_ring_element, mhi_del_ring_element: one element on, back to base past the end.
NextSlot(i) == IF i + 1 >= N THEN 0 ELSE i + 1

\* mhi_is_ring_full
Full(rp, wp) == NextSlot(wp) = rp

\* get_nr_avail_ring_elements
Avail(rp, wp) == IF wp < rp THEN (rp - wp) - 1 ELSE rp + (N - wp) - 1

\* get_used_ring_elements
Used(rp, wp) == IF wp >= rp THEN wp - rp ELSE N - (rp - wp)

\* The slot k elements after i, and the elements from rp up to wp.
Ahead(i, k) == IF i + k >= N THEN i + k - N ELSE i + k
Between(ring, rp, wp) == [k \in 1 .. Used(rp, wp) |-> ring[Ahead(rp, k - 1)]]
=============================================================================

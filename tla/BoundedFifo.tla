----------------------------- MODULE BoundedFifo ----------------------------
(***************************************************************************)
(* What the ring buffer promises its two threads: a queue of at most       *)
(* Capacity datagrams.  The network thread adds at the tail, the disk      *)
(* thread removes at the head; nothing is lost, repeated, reordered or     *)
(* changed while it is queued.                                             *)
(***************************************************************************)
EXTENDS Naturals, Sequences

CONSTANTS Capacity, Datagram

VARIABLE queue

Init == queue = <<>>

Put(d) == /\ Len(queue) < Capacity
          /\ queue' = Append(queue, d)

Take == /\ queue # <<>>
        /\ queue' = Tail(queue)

Next == Take \/ \E d \in Datagram : Put(d)

Spec == Init /\ [][Next]_queue
=============================================================================

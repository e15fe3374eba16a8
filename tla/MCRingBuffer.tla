---------------------------- MODULE MCRingBuffer ----------------------------
(* A ring of a few slots.                                                  *)
EXTENDS RingBuffer

(* The consumer side only ever moves forward and the producer side stops   *)
(* at its first error, so the state space is finite without a constraint.  *)
=============================================================================

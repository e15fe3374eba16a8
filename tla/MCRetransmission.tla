-------------------------- MODULE MCRetransmission --------------------------
(* A file of a few blocks and a table that grows once.                     *)
EXTENDS Retransmission
=============================================================================

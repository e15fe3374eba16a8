---------------------------- MODULE MCTransfers ----------------------------
(* Three gets in up to two sessions, a block and the stop block in a ring. *)
EXTENDS Transfers
============================================================================

----------------------------- MODULE MCGetFile ------------------------------
(* A file of a few blocks; one late block number inside the bitmap and one *)
(* beyond it.                                                              *)
EXTENDS GetFile

MCZeroed == [blk |-> 0, pay |-> 0]
MCDatagram == [blk : Places \union {0}, pay : Places \union {0}]
=============================================================================

---------------------------- MODULE MCDiskThread ----------------------------
(* A small ring; the network thread copies whole blocks and stop blocks.   *)
EXTENDS DiskThread

MCZeroed == [blk |-> 0, pay |-> 0]
MCDatagram == {[blk |-> b, pay |-> b] : b \in Places}
                  \union {[blk |-> 0, pay |-> p] : p \in {0, 1}}
=============================================================================

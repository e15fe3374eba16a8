-------------------------- MODULE MCServerTransfer --------------------------
(* A file of three blocks, smaller than what one read takes; requests of a few bytes.    *)
EXTENDS ServerTransfer

MCRequests ==
    {[type |-> t, block |-> 0] : t \in {"stop", "errorRate"}}
        \union [type : {"restart"}, block : {0} \union Blocks]
        \union [type : {"retransmit"}, block : Blocks]
=============================================================================

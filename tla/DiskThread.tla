----------------------------- MODULE DiskThread -----------------------------
(***************************************************************************)
(* disk_thread (client/command_get.go) with accept_block (client/io.go),   *)
(* at one end of the ring.  The network thread at the other end is left    *)
(* open: it makes any calls the ring does not answer with an error and may *)
(* copy any datagram, also the stop block, into the slot it was given.     *)
(* GetFile puts the real network thread in its place.                      *)
(*                                                                         *)
(* A slot is [blk, pay]: the number in the first four bytes and the block  *)
(* whose bytes follow the header, 0 for none.                              *)
(***************************************************************************)
EXTENDS RingBuffer

CONSTANTS
    FileBlocks,    \* the places of the local file
    WRAP_BLOCKS    \* 2^32 / block size: the seek offset is a uint32 product

ASSUME DiskAssumption ==
    /\ FileBlocks \in Nat \ {0} /\ WRAP_BLOCKS \in Nat \ {0}
    /\ Datagram \subseteq [blk : 0 .. FileBlocks, pay : 0 .. FileBlocks]
    /\ Zeroed = [blk |-> 0, pay |-> 0]

VARIABLES
    diskPc,      \* where the disk thread is
    blockIndex,  \* the header it decoded
    flag,        \* what it sends on ch
    localFile,   \* per place of the file, the block whose data is there
    head         \* history: the datagram at the base when peek() returned

diskVars == <<diskPc, blockIndex, flag, localFile, head>>
allVars == <<ringVars, diskVars>>

Places == 1 .. FileBlocks

Junk  == -1      \* four bytes that are not a block number of this transfer
Mixed == -1      \* content that is not the data of one block

DiskInit ==
    /\ diskPc = "peek" /\ blockIndex = 0 /\ flag = 0
    /\ localFile = [p \in Places |-> 0]
    /\ head = Zeroed
-----------------------------------------------------------------------------
AddressSlot == address \div DatagramSize
Misalignment == address % DatagramSize

(* The network thread may be copying into the slot the disk thread reads:  *)
(* both use the memory without the mutex.                                  *)
Racing == countReserved = 1 /\ producer = "running" /\ AddressSlot = next

(* The numbers the four bytes at the address can read as.  At a slot's     *)
(* start they are its number; up to five bytes further they mix number,    *)
(* type and data, and are not zero once a datagram was copied there;       *)
(* beyond they are file data.  In a race they are old, new or mixed.       *)
Header ==
    LET c == datagrams[AddressSlot]
        settled == CASE Misalignment = 0      -> {c.blk}
                     [] Misalignment = 1      -> IF c.blk # 0 THEN {Junk} ELSE {0}
                     [] Misalignment \in 2..5 -> IF c.pay # 0 THEN {Junk} ELSE {0}
                     [] OTHER                 -> {0, Junk}
    IN  IF Racing THEN {0, Junk} \union Places ELSE settled

DiskPeek ==
    /\ diskPc = "peek"
    /\ Peek
    /\ \/ consumer' = "idle" /\ diskPc' = "header" /\ head' = datagrams[baseData]
       \/ consumer' # "idle" /\ UNCHANGED <<diskPc, head>>
    /\ UNCHANGED <<blockIndex, flag, localFile>>

(* Block 0 ends the thread.                                                *)
DiskHeader ==
    /\ diskPc = "header"
    /\ \E h \in Header :
          /\ blockIndex' = h
          /\ \/ h = 0 /\ diskPc' = "send" /\ flag' = -1
             \/ h # 0 /\ diskPc' = "accept" /\ UNCHANGED flag
    /\ UNCHANGED <<ringVars, localFile, head>>

(* accept_block seeks to the block's place, modulo 2^32, and hands Write   *)
(* the slice up to the end of the ring: the blocks that follow in the file *)
(* are overwritten as well.                                                *)
PlaceOf(b) == ((b - 1) % WRAP_BLOCKS) + 1
BytesWritten == MAX_BLOCKS_QUEUED * DatagramSize - address - 6
BlocksBeyond == (BytesWritten - 1) \div (DatagramSize - 6)

WriteAt(first) ==
    [p \in Places |->
        CASE p = first /\ Misalignment = 0 /\ ~Racing -> datagrams[AddressSlot].pay
          [] p = first /\ (Misalignment # 0 \/ Racing) -> Mixed
          [] p \in first + 1 .. first + BlocksBeyond  -> Mixed
          [] OTHER                                    -> localFile[p]]

DiskAccept ==
    /\ diskPc = "accept"
    /\ \/ /\ diskPc' = "pop"
          /\ \/ blockIndex # Junk /\ localFile' = WriteAt(PlaceOf(blockIndex))
             \/ blockIndex = Junk /\ \E p \in Places : localFile' = WriteAt(p)
             \/ blockIndex = Junk /\ UNCHANGED localFile   \* far beyond the file
          /\ UNCHANGED flag
       \/ /\ diskPc' = "send" /\ flag' = -2        \* the seek or write failed
          /\ UNCHANGED localFile
    /\ UNCHANGED <<ringVars, blockIndex, head>>

DiskPop ==
    /\ diskPc = "pop"
    /\ Pop
    /\ \/ consumer' = "idle" /\ diskPc' = "peek" /\ head' = Zeroed
       \/ consumer' # "idle" /\ UNCHANGED <<diskPc, head>>
    /\ UNCHANGED <<blockIndex, flag, localFile>>

(* ch <- flag: the channel is unbuffered, sender and receiver meet.        *)
Deliver ==
    /\ diskPc = "send"
    /\ diskPc' = "dead"
    /\ UNCHANGED <<ringVars, blockIndex, flag, localFile, head>>

Disk == DiskPeek \/ DiskHeader \/ DiskAccept \/ DiskPop
-----------------------------------------------------------------------------
(* Any legal network thread; here, it receives from ch whenever it is sent *)
(* something.                                                              *)
OpenNetwork ==
    /\ Reserve \/ Confirm \/ Cancel \/ \E d \in Datagram : Fill(d)
    /\ producer' # "error"
    /\ UNCHANGED diskVars

DiskNext == OpenNetwork \/ Disk \/ Deliver

(* A runnable goroutine eventually runs.                                   *)
DiskSpec ==
    /\ RingInit /\ DiskInit
    /\ [][DiskNext]_allVars
    /\ WF_allVars(DiskPeek)
-----------------------------------------------------------------------------
(* Properties                                                              *)

DiskTypeOK ==
    /\ RingTypeOK
    /\ diskPc \in {"peek", "header", "accept", "pop", "send", "dead"}
    /\ blockIndex \in {Junk, 0} \union Places
    /\ flag \in {0, -1, -2}
    /\ localFile \in [Places -> {Mixed, 0} \union Places]
    /\ head \in Datagram \union {Zeroed}

(* The datagram that headed the queue when peek() returned is the one that *)
(* pop() removes, with the mutex released, the file written and the        *)
(* network thread copying in between; and pop's own wait is never entered. *)
(* It is not what the disk thread reads and writes in between: the slice   *)
(* that peek() returns begins elsewhere, in memory the network thread may  *)
(* be writing (FileHoldsBlocks).                                           *)
HeadStaysUntilPop ==
    diskPc \in {"header", "accept", "pop"} =>
        /\ dataReady /\ consumer = "idle"
        /\ datagrams[baseData] = head

(* The disk thread does not sleep on waiting data: whenever the ring holds *)
(* some, it comes back from peek.                                          *)
SleeperWakes == diskPc = "peek" /\ countData > 0 ~> diskPc # "peek"

(* io.go:12-13: accepting a block writes that block, so what is at the     *)
(* place of block k is nothing yet or the data of block k.                 *)
FileHoldsBlocks == \A k \in Places : localFile[k] \in {0, k}
=============================================================================

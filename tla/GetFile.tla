------------------------------ MODULE GetFile -------------------------------
(***************************************************************************)
(* getSingleFile (client/command_get.go) from the start of its receive     *)
(* loop: the network thread, with the disk thread and the ring of          *)
(* DiskThread and the retransmission account of Retransmission.            *)
(*                                                                         *)
(* The block that ends the transfer (lines 368-447: stop request, stop     *)
(* block, join, results, close) stands inside the loop, after the          *)
(* processing of each datagram; the breaks of the processing leave the     *)
(* loop and skip it.  The statistics block (341-366) needs the fiftieth    *)
(* datagram of a transfer, which no transfer of this loop reaches.         *)
(*                                                                         *)
(* The network delivers any block of the file any number of times, in any  *)
(* order, and late datagrams of an earlier transfer to the same port.      *)
(***************************************************************************)
EXTENDS DiskThread

CONSTANTS
    blockCount,
    Stale,                   \* block numbers of late datagrams
    Modes, UINT, onWireEstimate, MAX_RETRANSMISSION_BUFFER, DEFAULT_TABLE_SIZE,
    TABLE_LIMIT              \* as in Retransmission

ASSUME GetFileAssumption ==
    /\ blockCount \in 1 .. FileBlocks
    /\ Stale \subseteq blockCount + 1 .. FileBlocks

VARIABLES
    netPc,       \* where the network thread is, and how the call ended
    local,       \* the header of local_datagram
    xfer,        \* the transfer record of Retransmission
    written,     \* the requests the latest step wrote to the server
    blocksLeft,  \* how many blocks the client still waits for
    fileOpen     \* xfer.localFile is not nil

netVars == <<netPc, local, xfer, written, blocksLeft, fileOpen>>
vars == <<ringVars, diskVars, netVars>>

Retx == INSTANCE Retransmission WITH asked <- {}, skipped <- {}

(* Late datagrams belong to files of less than 2^32 - 1 blocks.            *)
ASSUME AccountAssumption == Retx!RetransmissionAssumption /\ FileBlocks + 1 < UINT

Types == {"O", "X", "R"}

Init ==
    /\ RingInit /\ DiskInit
    /\ netPc = "read" /\ local = [blk |-> 0, type |-> "none"]
    /\ xfer \in {Retx!NewTransfer(m) : m \in Modes} /\ written = <<>>
    /\ blocksLeft = blockCount /\ fileOpen = TRUE
-----------------------------------------------------------------------------
(* Receiving.                                                              *)

(* The server labels the last block of its sequence X, the others O, and   *)
(* what was asked for R.                                                   *)
OnWire == {[blk |-> b, type |-> t] : b \in 1 .. blockCount - 1, t \in {"O", "R"}}
             \union {[blk |-> blockCount, type |-> t] : t \in {"X", "R"}}
             \union {[blk |-> b, type |-> t] : b \in Stale, t \in Types}

ReadDatagram(d) ==
    /\ netPc = "read"
    /\ local' = d /\ netPc' = "gate"
    /\ written' = <<>>
    /\ UNCHANGED <<ringVars, diskVars, xfer, blocksLeft, fileOpen>>

(* After a failed read the requests are repeated and the old content of    *)
(* local_datagram is processed once more.                                  *)
ReadError ==
    /\ netPc = "read"
    /\ \/ /\ xfer' = Retx!RepeatRetransmit(xfer)
          /\ written' = Retx!Requests(xfer)
          /\ netPc' = "gate"
       \/ /\ Retx!Requests(xfer) # <<>>
          /\ xfer' = Retx!RepeatFailed(xfer)
          /\ written' = <<>>
          /\ netPc' = "failed"
    /\ UNCHANGED <<ringVars, diskVars, local, blocksLeft, fileOpen>>

(* Which datagrams the loop looks at, and which of them it inserts: those  *)
(* gotBlock says it has.                                                   *)
Got == Retx!GotBlock(xfer, local.blk)
Considered == Got \/ local.type = "X" \/ xfer.restartPending

Gate ==
    /\ netPc = "gate"
    /\ netPc' = CASE IsFull \/ ~Considered -> "stop"
                  [] ~IsFull /\ Considered /\ Got -> "reserve"
                  [] OTHER -> "control"
    /\ written' = <<>>
    /\ UNCHANGED <<ringVars, diskVars, local, xfer, blocksLeft, fileOpen>>
-----------------------------------------------------------------------------
(* Inserting into the ring.                                                *)

ReserveAt(here, there, onError) ==
    /\ netPc = here /\ producer = "running"
    /\ Reserve
    /\ netPc' = CASE producer' = "running" -> there
                  [] producer' = "blocked" -> here
                  [] producer' = "error"   -> onError
    /\ UNCHANGED <<diskVars, local, xfer, written, blocksLeft, fileOpen>>

InsertReserve == ReserveAt("reserve", "copy", "failed")

InsertCopyOnly ==        \* variant: the reservation is never confirmed
    /\ netPc = "copy"
    /\ Fill([blk |-> local.blk, pay |-> local.blk])
    /\ netPc' = "control"
    /\ UNCHANGED <<diskVars, local, xfer, written, blocksLeft, fileOpen>>

InsertCopy ==
    /\ netPc = "copy"
    /\ Fill([blk |-> local.blk, pay |-> local.blk])
    /\ netPc' = "confirm"
    /\ UNCHANGED <<diskVars, local, xfer, written, blocksLeft, fileOpen>>

(* Marking a block beyond the bitmap is an index out of range.             *)
BitmapBytes == blockCount \div 8 + 2
BeyondBitmap(b) == b \div 8 >= BitmapBytes

InsertConfirm ==
    /\ netPc = "confirm"
    /\ Confirm
    /\ LET marked == producer' = "running" /\ ~BeyondBitmap(local.blk)
       IN  /\ netPc' = CASE marked -> "control"
                         [] producer' = "error" -> "failed"
                         [] OTHER -> "crashed"
           /\ xfer' = IF marked THEN [xfer EXCEPT !.received = @ \union {local.blk}]
                      ELSE xfer
           /\ blocksLeft' = IF marked /\ blocksLeft > 0 THEN blocksLeft - 1 ELSE blocksLeft
    /\ UNCHANGED <<diskVars, local, written, fileOpen>>
-----------------------------------------------------------------------------
(* The transfer control of lines 255-339, on the network thread alone.     *)

StillOnWire ==
    /\ xfer.restartPending /\ local.type # "X"
    /\ local.blk > xfer.restartLastIndex
    /\ local.blk <= xfer.restartWireClearIndex

(* The rates are zero until the first statistics, and so is the window.    *)
AfterBlock ==
    LET queued   == IF local.blk > xfer.nextBlock
                    THEN Retx!QueueMissing(xfer, local.blk, 0) ELSE xfer
        advanced == Retx!AdvanceGapless(queued)
        moved    == IF local.type # "O" THEN advanced
                    ELSE [advanced EXCEPT !.nextBlock = (local.blk + 1) % UINT]
    IN  Retx!EndRestart(moved)

(* The loop is left.                                                       *)
Ends(x) ==
    /\ local.type = "X"
    /\ \/ blocksLeft = 0
       \/ x.mode # "lossless" /\ x.table = <<>> /\ ~x.restartPending

Control ==
    /\ netPc = "control"
    /\ \/ /\ StillOnWire
          /\ netPc' = "stop" /\ written' = <<>> /\ UNCHANGED xfer
       \/ /\ ~StillOnWire /\ Ends(AfterBlock)
          /\ netPc' = "returned" /\ written' = <<>> /\ xfer' = AfterBlock
       \/ /\ ~StillOnWire /\ local.type # "X"
          /\ netPc' = "stop" /\ written' = <<>> /\ xfer' = AfterBlock
       \/ /\ ~StillOnWire /\ local.type = "X" /\ ~Ends(AfterBlock)
          /\ LET rest == Retx!QueueRest(AfterBlock)
             IN  \/ /\ xfer' = Retx!RepeatRetransmit(rest)
                    /\ written' = Retx!Requests(rest)
                 \/ /\ Retx!Requests(rest) # <<>>       \* the error is ignored
                    /\ xfer' = Retx!RepeatFailed(rest)
                    /\ written' = <<>>
          /\ netPc' = "stop"
    /\ UNCHANGED <<ringVars, diskVars, local, blocksLeft, fileOpen>>
-----------------------------------------------------------------------------
(* The end of the transfer, reached after every datagram.                  *)

RequestStop ==
    /\ netPc = "stop"
    /\ netPc' \in {"stopReserve", "failed"}
    /\ written' = <<>>
    /\ UNCHANGED <<ringVars, diskVars, local, xfer, blocksLeft, fileOpen>>

StopReserve == ReserveAt("stopReserve", "stopCopy", "stopConfirm")

(* Four zero bytes; the rest of the slot keeps what it held.               *)
StopCopy ==
    /\ netPc = "stopCopy"
    /\ Fill([datagrams[next] EXCEPT !.blk = 0])
    /\ netPc' = "stopConfirm"
    /\ UNCHANGED <<diskVars, local, xfer, written, blocksLeft, fileOpen>>

StopConfirm ==
    /\ netPc = "stopConfirm"
    /\ Confirm
    /\ netPc' = "join"
    /\ UNCHANGED <<diskVars, local, xfer, written, blocksLeft, fileOpen>>

JoinNobody ==            \* variant: the flag is not waited for
    /\ netPc = "join" /\ netPc' = "finish"
    /\ UNCHANGED <<ringVars, diskVars, local, xfer, written, blocksLeft, fileOpen>>

(* flag := <-ch                                                            *)
Join ==
    /\ netPc = "join" /\ Deliver
    /\ netPc' = "finish"
    /\ UNCHANGED <<local, xfer, written, blocksLeft, fileOpen>>

(* displayResult divides by the whole seconds the transfer took, none for  *)
(* a short one; otherwise the file is closed and the loop goes on.         *)
Finish ==
    /\ netPc = "finish"
    /\ \/ netPc' = "crashed" /\ UNCHANGED fileOpen
       \/ netPc' = "read" /\ fileOpen' = FALSE
    /\ UNCHANGED <<ringVars, diskVars, local, xfer, written, blocksLeft>>
-----------------------------------------------------------------------------
NetworkThread ==
    \/ \E d \in OnWire : ReadDatagram(d)
    \/ ReadError \/ Gate
    \/ InsertReserve \/ InsertCopy \/ InsertConfirm
    \/ Control
    \/ RequestStop \/ StopReserve \/ StopCopy \/ StopConfirm \/ Join \/ Finish

DiskStep == Disk /\ UNCHANGED netVars

Next == NetworkThread \/ DiskStep

(* Both goroutines are scheduled; datagrams need not arrive.               *)
Spec ==
    /\ Init /\ [][Next]_vars
    /\ WF_vars(DiskStep) /\ WF_vars(Join)
-----------------------------------------------------------------------------
(* Properties                                                              *)

TypeOK ==
    /\ DiskTypeOK
    /\ netPc \in {"read", "gate", "reserve", "copy", "confirm", "control",
                  "stop", "stopReserve", "stopCopy", "stopConfirm", "join",
                  "finish", "returned", "failed", "crashed"}
    /\ local \in [blk : 0 .. FileBlocks, type : Types \union {"none"}]
    /\ xfer.received \subseteq 0 .. FileBlocks
    /\ blocksLeft \in 0 .. blockCount
    /\ fileOpen \in BOOLEAN

(* The loop keeps to the ring's protocol: none of its calls is answered    *)
(* with an error, and it never sleeps in reserve(), although the stop      *)
(* block is inserted without a look at isFull.                             *)
RingCallsSucceed == producer = "running"

(* The file is closed behind the disk thread, never under it.              *)
FileOpenForDisk == ~fileOpen => diskPc = "dead"

(* Whatever arrives, what the client asks of the server makes sense: only  *)
(* missing blocks again, a restart inside the file.                        *)
RequestsMakeSense == Retx!OnlyMissingRequested /\ Retx!RestartInFile

(* The first flush ends: the stop block wakes the disk thread, which meets *)
(* a zero header and reports.                                              *)
FlushEnds == netPc = "join" /\ diskPc # "dead" ~> netPc # "join"
=============================================================================

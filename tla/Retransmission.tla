--------------------------- MODULE Retransmission ---------------------------
(***************************************************************************)
(* The client's account of missing blocks: the table of retransmission     *)
(* requests (request_retransmit, repeat_retransmit in client/protocol.go)  *)
(* and the indices of getSingleFile around it: what was received, the      *)
(* gapless prefix, the next block expected, a pending restart.             *)
(*                                                                         *)
(* The operations are operators on the transfer record, because the        *)
(* receive loop chains several of them in one iteration (GetFile).  Here   *)
(* they are actions of an open module: the calls of the loop in any order, *)
(* with any block arriving at any time.                                    *)
(***************************************************************************)
EXTENDS Integers, SequencesExt

CONSTANTS
    blockCount,                 \* the blocks of the file
    UINT,                       \* 2^32: how many values a uint32 has
    Modes,                      \* the modes the user may have set
    onWireEstimate,             \* the blocks on the wire for half a second
    MAX_RETRANSMISSION_BUFFER,  \* this many missing blocks cause a restart
    DEFAULT_TABLE_SIZE,         \* the table's first size
    TABLE_LIMIT                 \* 32 * MAX_RETRANSMISSION_BUFFER in the code

(* The sizes of a table that starts at 4096 and doubles up to 65536.       *)
TableSizes == {DEFAULT_TABLE_SIZE * doubled : doubled \in {1, 2, 4, 8, 16}}

ASSUME RetransmissionAssumption ==
    /\ blockCount \in Nat \ {0} /\ UINT \in Nat /\ 2 * blockCount + 1 < UINT
    /\ Modes \subseteq {"lossless", "lossy", "semilossy"}
    /\ onWireEstimate \in 0 .. blockCount
    /\ MAX_RETRANSMISSION_BUFFER \in Nat \ {0}
    /\ DEFAULT_TABLE_SIZE \in Nat \ {0}
    /\ TABLE_LIMIT \in TableSizes

VARIABLES
    xfer,    \* the transfer: see NewTransfer
    written, \* the requests the latest call wrote to the server
    asked,   \* history: the blocks a lossless client counts on to be resent
    skipped  \* history: the first blocks of restarts, not asked for since

Blocks == 1 .. blockCount

(* The modes are those of the parameters lossless and losswindow_ms: a     *)
(* transfer that is not lossless is semi-lossy with a time window.         *)
(* The table has the entries in use; the slots beyond indexMax are not     *)
(* modelled, so indexMax is Len(table).                                    *)
NewTransfer(mode) ==
    [mode |-> mode, table |-> <<>>, tableSize |-> DEFAULT_TABLE_SIZE,
     received |-> {}, gaplessToBlock |-> 0, nextBlock |-> 1,
     restartPending |-> FALSE, restartLastIndex |-> 0,
     restartWireClearIndex |-> 0]
-----------------------------------------------------------------------------
(* gotBlock: a block beyond the file counts as received.                   *)
GotBlock(x, b) == b > blockCount \/ b \in x.received

RequestRetransmitNoLimit(x, b) ==    \* variant: the table grows for ever
    IF GotBlock(x, b) THEN x
    ELSE [x EXCEPT !.table = Append(@, b),
                   !.tableSize = IF Len(x.table) < @ THEN @ ELSE 2 * @]

(* A missing block is appended; a full table doubles up to the limit,      *)
(* beyond which requests are dropped silently.                             *)
RequestRetransmit(x, b) ==
    LET full == Len(x.table) >= x.tableSize
    IN  IF GotBlock(x, b) \/ (full /\ Len(x.table) >= TABLE_LIMIT) THEN x
        ELSE [x EXCEPT !.table = Append(@, b),
                       !.tableSize = IF full THEN 2 * @ ELSE @]

(* The end is exclusive.                                                   *)
RequestRetransmitBlocks(x, start, end) ==
    LET after[i \in 0 .. end - start] ==
          IF i = 0 THEN x ELSE RequestRetransmit(after[i - 1], start + i - 1)
    IN  IF start < end THEN after[end - start] ELSE x

(* A block b beyond the one expected has arrived: nothing is asked for, or *)
(* what lies within the time window (blocksInWindow of the current rate),  *)
(* or everything in between.  The lossy modes move the prefix over what    *)
(* they give up.  The differences are uint32.                              *)
QueueMissing(x, b, blocksInWindow) ==
    LET back     == Min({blocksInWindow, (b - x.gaplessToBlock) % UINT})
        earliest == (b - back) % UINT
    IN  CASE x.mode = "lossless" -> RequestRetransmitBlocks(x, x.nextBlock, b)
          [] x.mode = "lossy" -> [x EXCEPT !.gaplessToBlock = b]
          [] x.mode = "semilossy" ->
                      [RequestRetransmitBlocks(x, earliest, b) EXCEPT
                           !.nextBlock = earliest, !.gaplessToBlock = earliest]

(* At the end block, everything beyond the prefix is asked for, except the *)
(* last block.                                                             *)
QueueRest(x) ==
    RequestRetransmitBlocks(x, (x.gaplessToBlock + 1) % UINT, blockCount)

Wanted(x, b) == b # 0 /\ ~GotBlock(x, b)

(* repeatRetransmit keeps, in place, the first entries still missing...    *)
Kept(x) ==
    LET kept[i \in 0 .. Len(x.table)] ==
          IF i = 0 THEN <<>>
          ELSE LET before == kept[i - 1]
               IN  IF Wanted(x, x.table[i]) /\ Len(before) < MAX_RETRANSMISSION_BUFFER
                   THEN Append(before, x.table[i]) ELSE before
    IN  kept[Len(x.table)]

(* ... so that the array then holds them followed by what was there.       *)
Compacted(x) == Kept(x) \o SubSeq(x.table, Len(Kept(x)) + 1, Len(x.table))

TooMany(x) == Len(Kept(x)) >= MAX_RETRANSMISSION_BUFFER

RestartBlockNext(x) == Min({blockCount, x.nextBlock})    \* variant: from the head
RestartBlockAtPrefix(x) == Min({blockCount, x.gaplessToBlock})    \* variant: off by one
RestartBlock(x) ==
    LET first == (x.gaplessToBlock + 1) % UINT
    IN  IF blockCount > first THEN first ELSE blockCount

Restarted(x) ==
    LET last == Last(Compacted(x))
    IN  [x EXCEPT !.table = <<>>,
                  !.nextBlock = RestartBlock(x),
                  !.restartPending = TRUE,
                  !.restartLastIndex = last,
                  !.restartWireClearIndex = IF blockCount > last + onWireEstimate
                                            THEN last + onWireEstimate
                                            ELSE blockCount]

RepeatRetransmit(x) ==
    IF TooMany(x) THEN Restarted(x) ELSE [x EXCEPT !.table = Kept(x)]

(* When the write fails, a restart has not touched indexMax yet.           *)
RepeatFailed(x) == [x EXCEPT !.table = IF TooMany(x) THEN Compacted(x) ELSE Kept(x)]

RequestsAll(x) ==       \* variant: the received blocks are asked for as well
    [i \in 1 .. Len(x.table) |-> [type |-> "retransmit", block |-> x.table[i]]]
Requests(x) ==
    IF TooMany(x)
    THEN <<[type |-> "restart", block |-> RestartBlock(x)]>>
    ELSE [i \in 1 .. Len(Kept(x)) |-> [type |-> "retransmit", block |-> Kept(x)[i]]]

AdvanceGaplessOver(x) ==      \* variant: a hole in front is skipped
    [x EXCEPT !.gaplessToBlock = Max({@} \union x.received)]
(* The loop that advances the gapless prefix.                              *)
AdvanceGapless(x) ==
    [x EXCEPT !.gaplessToBlock =
        Max({@} \union {g \in Blocks : \A b \in @ + 1 .. g : GotBlock(x, b)})]

(* The receive loop's part of a restart: the head has come far enough.     *)
EndRestart(x) ==
    [x EXCEPT !.restartPending = @ /\ x.nextBlock < x.restartLastIndex]
-----------------------------------------------------------------------------
RetxInit ==
    /\ xfer \in {NewTransfer(m) : m \in Modes}
    /\ written = <<>> /\ asked = {} /\ skipped = {}

(* What the client counts on after a call that asked for the blocks of S:  *)
(* the missing ones.  A table at its limit drops requests silently; then   *)
(* only what is in the table is counted on.                                *)
Asking(S) ==
    LET accepted == {b \in S : /\ xfer.mode = "lossless" /\ ~GotBlock(xfer, b)
                               /\ \/ Len(xfer'.table) < TABLE_LIMIT
                                  \/ b \in Range(xfer'.table)}
    IN  asked' = asked \union accepted /\ skipped' = skipped \ accepted

(* A block with a gap in front of it arrives.                              *)
Gap(b, blocksInWindow) ==
    /\ b > xfer.nextBlock
    /\ xfer' = QueueMissing(xfer, b, blocksInWindow)
    /\ written' = <<>>
    /\ Asking(xfer.nextBlock .. b - 1)

(* The end block arrives.                                                  *)
EndRound ==
    /\ xfer' = QueueRest(xfer)
    /\ written' = <<>>
    /\ Asking(xfer.gaplessToBlock + 1 .. blockCount - 1)

(* A restart makes the server send the blocks behind the one it names: it  *)
(* adds one before it sends, up to the last block.  The named block itself *)
(* is skipped, unless it is the last.                                      *)
Repeat ==
    LET restarts == {r.block : r \in {q \in Range(Requests(xfer)) : q.type = "restart"}}
    IN  /\ xfer' = RepeatRetransmit(xfer)
        /\ written' = Requests(xfer)
        /\ asked' = {b \in asked : \A r \in restarts : b <= r /\ b # blockCount}
        /\ skipped' = skipped \union (restarts \ {blockCount})

RepeatFails ==
    /\ xfer' = RepeatFailed(xfer)
    /\ written' = <<>>
    /\ UNCHANGED <<asked, skipped>>

(* A block arrives and is marked.                                          *)
Mark(b) ==
    /\ xfer' = [xfer EXCEPT !.received = @ \union {b}]
    /\ written' = <<>>
    /\ UNCHANGED <<asked, skipped>>

Advance ==
    /\ xfer' = AdvanceGapless(xfer)
    /\ written' = <<>>
    /\ UNCHANGED <<asked, skipped>>

(* The head moves behind an original block.                                *)
MoveHead(b) ==
    /\ xfer' = EndRestart([xfer EXCEPT !.nextBlock = (b + 1) % UINT])
    /\ written' = <<>>
    /\ UNCHANGED <<asked, skipped>>

(* A late datagram of an earlier transfer may carry a number beyond the    *)
(* file; the time window is of interest in the semi-lossy mode only.       *)
Arriving == 1 .. blockCount + 1
Windows == IF xfer.mode = "semilossy" THEN 0 .. blockCount ELSE {0}

RetxNext ==
    \/ \E b \in Arriving, w \in Windows : Gap(b, w)
    \/ EndRound \/ Repeat \/ RepeatFails \/ Advance
    \/ \E b \in Blocks : Mark(b)
    \/ \E b \in Arriving : MoveHead(b)

RetxSpec == RetxInit /\ [][RetxNext]_<<xfer, written, asked, skipped>>
-----------------------------------------------------------------------------
(* Properties                                                              *)

(* The table never exceeds its allocation, and the allocation its limit:   *)
(* table[indexMax] is always a legal index.                                *)
TransferTypeOK ==
    /\ xfer.mode \in Modes
    /\ xfer.table \in Seq({0} \union Blocks)
    /\ Len(xfer.table) <= xfer.tableSize
    /\ xfer.tableSize \in TableSizes
    /\ xfer.tableSize <= TABLE_LIMIT
    /\ xfer.received \subseteq Blocks
    /\ xfer.gaplessToBlock \in 0 .. UINT - 1
    /\ xfer.nextBlock \in 0 .. UINT - 1
    /\ xfer.restartPending \in BOOLEAN
    /\ xfer.restartLastIndex \in 0 .. blockCount
    /\ xfer.restartWireClearIndex \in 0 .. blockCount

(* In lossless mode, the gapless prefix has no gap.                        *)
GaplessHasNoGap ==
    xfer.mode = "lossless" => 1 .. xfer.gaplessToBlock \subseteq xfer.received

(* Only missing blocks of the file are asked for again: the test made when *)
(* the request was queued is repeated when it is written.                  *)
OnlyMissingRequested ==
    \A r \in Range(written) :
        r.type = "retransmit" => r.block \in Blocks \ xfer.received

(* A restart names a block of the file, wherever the lossy mode has moved  *)
(* the prefix: the server rejects it otherwise.  The differences of the    *)
(* semi-lossy mode wrap around and may make it name block 0.               *)
RestartInFile ==
    xfer.mode # "semilossy" =>
        \A r \in Range(written) : r.type = "restart" => r.block \in Blocks

(* Between the in-place compaction, the growth of the table, failed writes *)
(* and the restarts that empty it, the only block a lossless client can    *)
(* forget is the one a restart names, which the server skips.  Every other *)
(* block that was asked for and accepted, and is still missing, is in the  *)
(* table or lies behind a restart and will be sent again.  Requests that a *)
(* table at its limit dropped were never accepted.                         *)
NoRequestForgotten ==
    xfer.mode = "lossless" =>
        asked \subseteq xfer.received \union Range(xfer.table) \union skipped
=============================================================================

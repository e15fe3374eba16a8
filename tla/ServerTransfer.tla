--------------------------- MODULE ServerTransfer ---------------------------
(***************************************************************************)
(* Session.Transfer of server/protocol.go with AcceptRetransmit and        *)
(* buildDatagram (server/io.go): the loop that reads the client's requests *)
(* from the TCP connection and sends the blocks of the file over UDP.      *)
(*                                                                         *)
(* TCP keeps the order of the bytes and cuts them anywhere.  Byte k of the *)
(* stream is modelled by its number k; request number m is the             *)
(* SIZE_OF_RETRANSMISSION_T bytes from m * SIZE_OF_RETRANSMISSION_T on.    *)
(*                                                                         *)
(* The Read of the loop blocks, so one iteration is one step: it ends with *)
(* a request (TakeRequest), with a part of one, after which a block is     *)
(* sent (TakePart), or with an error.  Lengths and offsets of the file are *)
(* counted in a unit of the model.  The pacing is left out (RateControl),  *)
(* and so is what the bytes of a datagram hold: only where the file is     *)
(* read matters, for a read behind its end is an error.                    *)
(***************************************************************************)
EXTENDS Integers, SequencesExt

CONSTANTS
    block_size, MAX_BLOCK_SIZE,   \* a block, and what one Read of the file takes
    file_size,
    UINT,                         \* 2^32: the seek offset is a uint32 product
    SIZE_OF_RETRANSMISSION_T,     \* the bytes of a request
    HEARTBEAT_LIMIT,              \* the blocks without feedback: 2048 in the code
    Inherited,                    \* what the session's last_block may start with
    Requests,                     \* what the client may write
    MaxRequests                   \* bound: how many requests it writes

ASSUME ServerAssumption ==
    /\ block_size \in Nat \ {0} /\ file_size \in Nat \ {0} /\ UINT \in Nat \ {0}
    /\ MAX_BLOCK_SIZE \in Nat /\ block_size <= MAX_BLOCK_SIZE
    /\ SIZE_OF_RETRANSMISSION_T \in Nat \ {0} /\ HEARTBEAT_LIMIT \in Nat
    /\ Inherited \subseteq Nat
    /\ Requests \subseteq [type : STRING, block : Nat]
    /\ MaxRequests \in Nat

VARIABLES
    requests,                \* what the client has written so far
    closed,                  \* the client has closed its connection
    consumed,                \* how many bytes the server has read
    retransmission_byte,     \* the buffer of the request being read
    retransmitlen,           \* how many of its bytes are there
    handled,                 \* history: the requests decoded
    block,                   \* xfer.block, the latest block in sequence
    last_block,              \* the latest block built in the session
    offset,                  \* the file's position
    transmitted,             \* the datagram the latest step handed to UDP
    owed,                    \* history: the blocks of the round still to come
    restarted,               \* history: the latest restart's block, 0 for none
    deadconnection_counter,
    pc                       \* "transfer", "ended" or "panicked"

clientVars == <<requests, closed>>
buildVars == <<last_block, offset>>
roundVars == <<block, owed, restarted>>
vars == <<requests, closed, consumed, retransmission_byte, retransmitlen,
          handled, block, last_block, offset, transmitted, owed, restarted,
          deadconnection_counter, pc>>

block_count == (file_size + block_size - 1) \div block_size
Blocks == 1 .. block_count
ByteOfRequest == 0 .. SIZE_OF_RETRANSMISSION_T - 1
Unset == -1                               \* a byte never written
NoDatagram == [blk |-> 0, type |-> "none"]

(* last_block is the session's: it survives the transfers before this one, *)
(* whose file was another.                                                 *)
Init ==
    /\ requests = <<>> /\ closed = FALSE /\ consumed = 0
    /\ retransmission_byte = [i \in ByteOfRequest |-> Unset]
    /\ retransmitlen = 0 /\ handled = <<>>
    /\ block = 0 /\ last_block \in Inherited /\ offset = 0
    /\ transmitted = NoDatagram /\ owed = Blocks /\ restarted = 0
    /\ deadconnection_counter = 0 /\ pc = "transfer"
-----------------------------------------------------------------------------
(* buildDatagram                                                           *)

SeekOffset(b) ==
    IF b # last_block + 1 THEN (block_size * (b - 1)) % UINT ELSE offset

(* The read takes up to MAX_BLOCK_SIZE bytes, also when the blocks are     *)
(* smaller: the position is then beyond the successor.                     *)
Build(b) ==
    /\ SeekOffset(b) < file_size
    /\ offset' = Min({SeekOffset(b) + MAX_BLOCK_SIZE, file_size})
    /\ last_block' = b

(* The read fails at the end of the file, behind its seek; or the disk     *)
(* fails, at the seek or at the read.                                      *)
BuildFails(b) ==
    /\ \/ SeekOffset(b) >= file_size /\ offset' = SeekOffset(b)
       \/ offset' \in {offset, SeekOffset(b)}
    /\ UNCHANGED last_block
-----------------------------------------------------------------------------
(* Reading from the connection.                                            *)

Written == SIZE_OF_RETRANSMISSION_T * Len(requests)

ReadAtStart(n) ==     \* variant: a continued read starts over in the buffer
    /\ n \in 1 .. Min({Written - consumed, SIZE_OF_RETRANSMISSION_T - retransmitlen})
    /\ retransmission_byte' =
           [i \in ByteOfRequest |-> IF i < n THEN consumed + i ELSE retransmission_byte[i]]
    /\ consumed' = consumed + n

(* client_fd.Read(retransmission_byte[retransmitlen:]) returns n bytes.    *)
ReadBytes(n) ==
    /\ n \in 1 .. Min({Written - consumed, SIZE_OF_RETRANSMISSION_T - retransmitlen})
    /\ retransmission_byte' =
           [i \in ByteOfRequest |->
               IF i \in retransmitlen .. retransmitlen + n - 1
               THEN consumed + i - retransmitlen ELSE retransmission_byte[i]]
    /\ consumed' = consumed + n

(* NewRetransmission: bytes of different requests decode as garbage.       *)
Garbled == [type |-> "garbled", block |-> 0]
Decoded(bytes) ==
    LET m == bytes[0] \div SIZE_OF_RETRANSMISSION_T
    IN  IF \A i \in ByteOfRequest : bytes[i] = m * SIZE_OF_RETRANSMISSION_T + i
        THEN requests[m + 1] ELSE Garbled

(* The Read fails, and with it the session.                                *)
ReadFails ==
    /\ pc = "transfer" /\ closed
    /\ pc' = "panicked" /\ transmitted' = NoDatagram
    /\ UNCHANGED <<clientVars, consumed, retransmission_byte, retransmitlen,
                   handled, roundVars, buildVars, deadconnection_counter>>
-----------------------------------------------------------------------------
(* AcceptRetransmit; an error rate changes the pacing only.  A write to    *)
(* the UDP socket may fail.                                                *)

AcceptRestartBehind(r) ==     \* variant: one block further
    /\ r.type = "restart"
    /\ \/ /\ r.block \in Blocks
          /\ block' = Min({r.block + 1, block_count})
          /\ restarted' = r.block /\ owed' = r.block .. block_count
       \/ r.block \notin Blocks /\ UNCHANGED roundVars
    /\ transmitted' = NoDatagram
    /\ UNCHANGED buildVars

(* A restart begins a round of its own, at the block it names.             *)
AcceptRestart(r) ==
    /\ r.type = "restart"
    /\ \/ /\ r.block \in Blocks
          /\ block' = r.block
          /\ restarted' = r.block /\ owed' = r.block .. block_count
       \/ r.block \notin Blocks /\ UNCHANGED roundVars
    /\ transmitted' = NoDatagram
    /\ UNCHANGED buildVars

AcceptRetransmit(r) ==
    /\ r.type = "retransmit"
    /\ \/ /\ Build(r.block)
          /\ transmitted' \in {NoDatagram, [blk |-> r.block, type |-> "R"]}
       \/ /\ BuildFails(r.block)
          /\ transmitted' = NoDatagram
    /\ UNCHANGED roundVars

AcceptOther(r) ==
    /\ r.type \notin {"stop", "restart", "retransmit"}
    /\ transmitted' = NoDatagram
    /\ UNCHANGED <<roundVars, buildVars>>

AfterRequestKept ==           \* variant: the buffer stays full
    retransmitlen' = SIZE_OF_RETRANSMISSION_T /\ deadconnection_counter' = 1
(* The buffer is free again, and the heartbeat counter starts over.        *)
AfterRequest == retransmitlen' = 0 /\ deadconnection_counter' = 1

TakeRequest ==
    /\ pc = "transfer"
    /\ ReadBytes(SIZE_OF_RETRANSMISSION_T - retransmitlen)
    /\ LET r == Decoded(retransmission_byte')
       IN  /\ handled' = Append(handled, r)
           /\ \/ /\ r.type = "stop"
                 /\ pc' = "ended" /\ transmitted' = NoDatagram
                 /\ retransmitlen' = SIZE_OF_RETRANSMISSION_T
                 /\ deadconnection_counter' = 0
                 /\ UNCHANGED <<roundVars, buildVars>>
              \/ /\ AcceptRestart(r) \/ AcceptRetransmit(r) \/ AcceptOther(r)
                 /\ AfterRequest
                 /\ UNCHANGED pc
    /\ UNCHANGED clientVars

NextBlock == Min({block + 1, block_count})

TypeOf(b) == IF b = block_count THEN "X" ELSE "O"

(* More than HEARTBEAT_LIMIT blocks without a request: the server may      *)
(* report a lost heartbeat, or only start to count anew, and by the clock  *)
(* it gives the client up.                                                 *)
Heartbeat ==
    \/ /\ deadconnection_counter > HEARTBEAT_LIMIT
       /\ deadconnection_counter' = 0
       /\ pc' \in {"transfer", "ended"}
    \/ /\ deadconnection_counter <= HEARTBEAT_LIMIT
       /\ deadconnection_counter' = deadconnection_counter + 1
       /\ UNCHANGED pc

(* A part of a request: the next block is sent.  A failed write skips the  *)
(* rest of the iteration.                                                  *)
TakePart ==
    /\ pc = "transfer"
    /\ \E n \in ByteOfRequest :
          /\ retransmitlen + n < SIZE_OF_RETRANSMISSION_T
          /\ ReadBytes(n)
          /\ retransmitlen' = retransmitlen + n
    /\ block' = NextBlock /\ owed' = owed \ {NextBlock}
    /\ \/ /\ Build(NextBlock)
          /\ \/ /\ transmitted' = [blk |-> NextBlock, type |-> TypeOf(NextBlock)]
                /\ Heartbeat
             \/ /\ transmitted' = NoDatagram
                /\ UNCHANGED <<deadconnection_counter, pc>>
       \/ /\ BuildFails(NextBlock)
          /\ pc' = "panicked" /\ transmitted' = NoDatagram
          /\ UNCHANGED deadconnection_counter
    /\ UNCHANGED <<clientVars, handled, restarted>>

Server == ReadFails \/ TakeRequest \/ TakePart
-----------------------------------------------------------------------------
(* The client.                                                             *)

ClientWrites ==
    /\ ~closed /\ Len(requests) < MaxRequests
    /\ \E r \in Requests : requests' = Append(requests, r)
    /\ UNCHANGED <<closed, consumed, retransmission_byte, retransmitlen, handled,
                   roundVars, buildVars, transmitted, deadconnection_counter, pc>>

ClientCloses ==
    /\ ~closed /\ closed' = TRUE
    /\ UNCHANGED <<requests, consumed, retransmission_byte, retransmitlen, handled,
                   roundVars, buildVars, transmitted, deadconnection_counter, pc>>

Next == Server \/ ClientWrites \/ ClientCloses

(* The server's goroutine runs when its Read can return.                   *)
Spec == Init /\ [][Next]_vars /\ WF_vars(Server)
-----------------------------------------------------------------------------
(* Properties                                                              *)

TypeOK ==
    /\ requests \in Seq(Requests) /\ closed \in BOOLEAN
    /\ consumed \in 0 .. Written
    /\ retransmission_byte \in [ByteOfRequest -> {Unset} \union 0 .. Written]
    /\ retransmitlen \in 0 .. SIZE_OF_RETRANSMISSION_T
    /\ handled \in Seq(Requests \union {Garbled})
    /\ block \in {0} \union Blocks
    /\ last_block \in Nat /\ offset \in Nat
    /\ transmitted.type \in {"none", "O", "X", "R"}
    /\ owed \subseteq Blocks /\ restarted \in {0} \union Blocks
    /\ deadconnection_counter \in Nat
    /\ pc \in {"transfer", "ended", "panicked"}

(* However TCP cuts the stream, every request is decoded whole, once and   *)
(* in the order it was written.                                            *)
RequestsInOrder ==
    /\ IsPrefix(handled, requests)
    /\ pc = "transfer" =>
           consumed = SIZE_OF_RETRANSMISSION_T * Len(handled) + retransmitlen

(* When the end of a round is announced, every block of the round has had  *)
(* its turn, wherever restarts, retransmissions and failed writes fell.    *)
(* A round begins with the file or at the block a restart names; of a      *)
(* restart's, the named block itself is skipped, since the loop adds one   *)
(* before it sends: a client has to ask for it once more.                  *)
RoundComplete == transmitted.type = "X" => owed \subseteq {restarted}

(* The monitor of the heartbeat has nothing to do.                         *)
HeartbeatNotReached == deadconnection_counter <= HEARTBEAT_LIMIT

(* protocol.go:705: the heartbeat is monitored and a dead client is        *)
(* disconnected.  Every client of the model falls silent, at the latest    *)
(* after MaxRequests requests, without closing its connection.             *)
DeadClientDisconnected == <>(pc # "transfer")

(* A request written while the transfer runs is handled.                   *)
RequestsHandled ==
    \A k \in 1 .. MaxRequests :
        Len(requests) >= k ~> Len(handled) >= k \/ pc # "transfer"
=============================================================================

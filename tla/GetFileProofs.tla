---------------------------- MODULE GetFileProofs ----------------------------
(***************************************************************************)
(* Proofs about the two threads of a transfer, on top of those about the   *)
(* ring and the retransmission account, for rings, files and datagrams of  *)
(* every size and all modes.                                               *)
(*                                                                         *)
(* The disk thread (DiskThread): it and any network thread that gets no    *)
(* error use the ring legally; so the ring's inductive invariant holds     *)
(* here too, and the ring between them is a FIFO queue.                    *)
(*                                                                         *)
(* The receive loop (GetFile) is such a network thread, and closes the     *)
(* file only behind the disk thread.  It flushes after each datagram.  The *)
(* first flush ends the disk thread, and leaves at most a block and the    *)
(* stop block in the ring; the second waits for ever, behind one more of   *)
(* each.  So four slots suffice, and nothing of this depends on what the   *)
(* retransmission account does.                                            *)
(*                                                                         *)
(* The account: the loop passes it what its lemmas admit, whatever         *)
(* arrives, so that what is asked of the server makes sense.               *)
(***************************************************************************)
EXTENDS GetFile, RingBufferProofs

(* Arithmetic.                                                             *)
LEMMA DivInt ==
    ASSUME NEW a \in Nat, NEW b \in Nat \ {0}
    PROVE  a \div b \in Nat /\ b * (a \div b) <= a /\ a % b \in 0 .. b - 1
  BY Z3

LEMMA ProductGrows ==
    ASSUME NEW a \in Nat, NEW b \in Nat, NEW c \in Nat, b <= c
    PROVE  a * b <= a * c /\ a * (b + 1) = a * b + a /\ a * b \in Nat
  BY SMT

(* What peek() returns lies inside the memory of the ring.                 *)
LEMMA OffsetInRing ==
    ASSUME NEW b \in Slot
    PROVE  (DatagramSize + b) \div DatagramSize \in Slot
  <1> DEFINE a == DatagramSize + b
             q == a \div DatagramSize
  <1>1. /\ DatagramSize \in Nat \ {0} /\ DatagramSize >= 7
        /\ MAX_BLOCKS_QUEUED \in Nat /\ MAX_BLOCKS_QUEUED >= 2
        /\ b \in Nat /\ b <= MAX_BLOCKS_QUEUED - 1
    BY RingAssumption DEF Slot
  <1>2. q \in Nat /\ DatagramSize * q <= DatagramSize + b
    <2>1. a \in Nat
      BY <1>1
    <2>2. q \in Nat /\ DatagramSize * q <= a
      <3> HIDE DEF a
      <3> QED BY <1>1, <2>1, DivInt
    <2> QED BY <2>2
  <1> HIDE DEF q
  <1>3. q <= MAX_BLOCKS_QUEUED - 1
    <2> SUFFICES ASSUME q >= MAX_BLOCKS_QUEUED PROVE FALSE
      BY <1>1, <1>2
    <2> DEFINE m == MAX_BLOCKS_QUEUED - 1
    <2>1. m \in Nat /\ m >= 1 /\ m + 1 = MAX_BLOCKS_QUEUED
      BY <1>1
    <2>2. DatagramSize * (m + 1) <= DatagramSize * q
      BY <1>1, <1>2, <2>1, ProductGrows
    <2>3. DatagramSize * (m + 1) = DatagramSize * m + DatagramSize /\ DatagramSize * m \in Nat
      BY <1>1, <2>1, ProductGrows
    <2>4. 7 * m <= DatagramSize * m
      BY <1>1, <2>1, ProductGrows
    <2> HIDE DEF m
    <2>5. b <= m
      BY <1>1 DEF m
    <2> QED BY <1>1, <1>2, <2>1, <2>2, <2>3, <2>4, <2>5
  <1> QED BY <1>1, <1>2, <1>3 DEF q, Slot
-----------------------------------------------------------------------------
(* No step of the two threads makes an illegal call, and peek's address is *)
(* one of the ring.                                                        *)
Legal == producer # "error"
AddressInRing == AddressSlot \in Slot

DInv == IInv /\ Legal /\ AddressInRing /\ DiskTypeOK /\ HeadStaysUntilPop

LEMMA StepIsLegal == Legal /\ [DiskNext]_allVars => [LegalNext]_ringVars /\ Legal'
  <1> SUFFICES ASSUME Legal, [DiskNext]_allVars PROVE [LegalNext]_ringVars /\ Legal'
    OBVIOUS
  <1>1. CASE OpenNetwork
    BY <1>1 DEF OpenNetwork, LegalNext, RingNext, Legal
  <1>2. CASE DiskPeek
    BY <1>2 DEF DiskPeek, LegalNext, RingNext, Legal, Peek
  <1>3. CASE DiskPop
    BY <1>3 DEF DiskPop, LegalNext, RingNext, Legal, Pop
  <1>4. CASE UNCHANGED ringVars
    BY <1>4 DEF ringVars, Legal
  <1>5. DiskHeader \/ DiskAccept \/ Deliver \/ UNCHANGED allVars => UNCHANGED ringVars
    BY DEF DiskHeader, DiskAccept, Deliver, allVars
  <1> QED BY <1>1, <1>2, <1>3, <1>4, <1>5 DEF DiskNext, Disk

LEMMA StepKeepsRing == IInv /\ Legal /\ [DiskNext]_allVars => IInv'
  BY StepIsLegal, StepKeepsIInv DEF LegalNext

LEMMA StepKeepsAddress ==
    ASSUME IInv, AddressInRing, [DiskNext]_allVars
    PROVE  AddressInRing'
  <1>1. CASE address' = PeekOffset
    <2>1. baseData \in Slot
      BY DEF IInv, RingTypeOK
    <2> QED BY <1>1, <2>1, OffsetInRing DEF AddressInRing, AddressSlot, PeekOffset
  <1>2. CASE UNCHANGED address
    BY <1>2 DEF AddressInRing, AddressSlot
  <1>3. address' = PeekOffset \/ UNCHANGED address
    BY DEF DiskNext, Disk, OpenNetwork, DiskPeek, DiskHeader, DiskAccept, DiskPop,
           Deliver, Reserve, Confirm, Cancel, Fill, Peek, Pop, allVars, ringVars
  <1> QED BY <1>1, <1>2, <1>3
-----------------------------------------------------------------------------
(* Types of what the disk thread reads and writes.                         *)

LEMMA SlotContents ==
    ASSUME IInv, AddressInRing
    PROVE  /\ datagrams[AddressSlot].blk \in 0 .. FileBlocks
           /\ datagrams[AddressSlot].pay \in 0 .. FileBlocks
  <1>1. datagrams[AddressSlot] \in Datagram \union {Zeroed}
    BY DEF IInv, RingTypeOK, AddressInRing
  <1>2. 0 \in 0 .. FileBlocks
    BY DiskAssumption
  <1> QED BY <1>1, <1>2, DiskAssumption

LEMMA HeaderType ==
    ASSUME IInv, AddressInRing
    PROVE  Header \subseteq {Junk, 0} \union Places
  <1>1. datagrams[AddressSlot].blk \in {0} \union Places
    BY SlotContents, DiskAssumption DEF Places
  <1> QED BY <1>1 DEF Header

LEMMA WriteType ==
    ASSUME IInv, AddressInRing, DiskTypeOK, NEW first
    PROVE  WriteAt(first) \in [Places -> {Mixed, 0} \union Places]
  <1>1. datagrams[AddressSlot].pay \in {0} \union Places
    BY SlotContents, DiskAssumption DEF Places
  <1> SUFFICES ASSUME NEW p \in Places
               PROVE  WriteAt(first)[p] \in {Mixed, 0} \union Places
    BY DEF WriteAt
  <1>2. localFile[p] \in {Mixed, 0} \union Places
    BY DEF DiskTypeOK
  <1>3. WriteAt(first)[p] \in {datagrams[AddressSlot].pay, Mixed, localFile[p]}
    <2>1. CASE p = first
      <3>1. (Misalignment = 0 /\ ~Racing) \/ (Misalignment # 0 \/ Racing)
        OBVIOUS
      <3> QED BY <2>1, <3>1 DEF WriteAt
    <2>2. CASE p # first
      BY <2>2 DEF WriteAt
    <2> QED BY <2>1, <2>2
  <1> QED BY <1>1, <1>2, <1>3

LEMMA PlaceType ==
    ASSUME NEW b \in Places
    PROVE  PlaceOf(b) \in Places
  <1> DEFINE m == (b - 1) % WRAP_BLOCKS
  <1>1. b \in Nat /\ b >= 1 /\ b <= FileBlocks /\ FileBlocks \in Nat /\ WRAP_BLOCKS \in Nat \ {0}
    BY DiskAssumption DEF Places
  <1>2. m \in Nat /\ m <= b - 1
    BY <1>1, Z3
  <1> HIDE DEF m
  <1> QED BY <1>1, <1>2 DEF PlaceOf, Places, m

LEMMA StepKeepsDiskTypes ==
    ASSUME DInv, [DiskNext]_allVars, IInv'
    PROVE  DiskTypeOK'
  <1>1. IInv /\ AddressInRing /\ DiskTypeOK
    BY DEF DInv
  <1>2. RingTypeOK'
    BY DEF IInv
  <1>3. CASE DiskHeader
    BY <1>1, <1>2, <1>3, HeaderType DEF DiskHeader, DiskTypeOK
  <1>4. CASE DiskAccept
    <2>1. localFile' = localFile \/ \E first : localFile' = WriteAt(first)
      BY <1>4 DEF DiskAccept
    <2>2. localFile' \in [Places -> {Mixed, 0} \union Places]
      BY <1>1, <2>1, WriteType DEF DiskTypeOK
    <2> QED BY <1>1, <1>2, <1>4, <2>2 DEF DiskAccept, DiskTypeOK
  <1>5. CASE OpenNetwork \/ UNCHANGED allVars
    BY <1>1, <1>2, <1>5 DEF OpenNetwork, allVars, diskVars, DiskTypeOK
  <1>6. CASE DiskPeek \/ DiskPop \/ Deliver
    <2>1. head' \in {head, Zeroed, datagrams[baseData]}
      BY <1>6 DEF DiskPeek, DiskPop, Deliver
    <2>2. head' \in Datagram \union {Zeroed}
      BY <1>1, <2>1 DEF DiskTypeOK, IInv, RingTypeOK
    <2> QED BY <1>1, <1>2, <1>6, <2>2 DEF DiskPeek, DiskPop, Deliver, DiskTypeOK
  <1> QED BY <1>3, <1>4, <1>5, <1>6 DEF DiskNext, Disk

(* The head stays: only pop() itself moves the base and takes dataReady    *)
(* back, and a slot that is copied into is not the head.                   *)
LEMMA FillSparesHead ==
    ASSUME IInv, dataReady, NEW d \in Datagram, Fill(d)
    PROVE  datagrams'[baseData] = datagrams[baseData]
  <1>1. /\ producer = "running" /\ countReserved = 1 /\ countData \in Nat /\ countData > 0
        /\ countData + countReserved <= MAX_BLOCKS_QUEUED
        /\ baseData \in Slot /\ next = (baseData + countData) % MAX_BLOCKS_QUEUED
    BY DEF IInv, RingTypeOK, Counters, SlotComputedStaysRight, DataSlot, Fill
  <1>2. next # baseData
    <2> USE DEF N
    <2>1. /\ N \in Nat /\ N >= 2 /\ baseData \in Nat /\ baseData < N
          /\ countData < N
      BY <1>1, RingAssumption DEF Slot
    <2>2. CASE baseData + countData < N
      <3>1. (baseData + countData) % N = baseData + countData
        BY <1>1, <2>1, <2>2, ModSmall
      <3> QED BY <1>1, <2>1, <3>1
    <2>3. CASE baseData + countData >= N
      <3>1. (baseData + countData) % N = baseData + countData - N
        BY <1>1, <2>1, <2>3, ModWrap
      <3> QED BY <1>1, <2>1, <3>1
    <2> QED BY <1>1, <2>1, <2>2, <2>3
  <1>3. datagrams' = [datagrams EXCEPT ![next] = d] /\ baseData \in DOMAIN datagrams
    BY <1>1 DEF Fill, IInv, RingTypeOK
  <1> QED BY <1>2, <1>3

LEMMA StepKeepsHead ==
    ASSUME DInv, [DiskNext]_allVars
    PROVE  HeadStaysUntilPop'
  <1>1. HeadStaysUntilPop /\ IInv
    BY DEF DInv
  <1>2. CASE OpenNetwork
    <2>1. UNCHANGED <<baseData, diskPc, head>> /\ (dataReady => dataReady')
      BY <1>2 DEF OpenNetwork, Reserve, Confirm, Cancel, Fill, diskVars
    <2>2. consumer = "idle" => consumer' = "idle"
      BY <1>2 DEF OpenNetwork, Reserve, Confirm, Cancel, Fill, SignalData
    <2>3. dataReady => datagrams'[baseData] = datagrams[baseData]
      BY <1>1, <1>2, FillSparesHead DEF OpenNetwork, Reserve, Confirm, Cancel
    <2> QED BY <1>1, <2>1, <2>2, <2>3 DEF HeadStaysUntilPop
  <1>3. CASE DiskPeek
    BY <1>1, <1>3 DEF DiskPeek, Peek, HeadStaysUntilPop
  <1>4. CASE DiskPop
    BY <1>1, <1>4 DEF DiskPop, Pop, HeadStaysUntilPop
  <1>5. CASE DiskHeader \/ DiskAccept \/ Deliver \/ UNCHANGED allVars
    <2>1. UNCHANGED <<dataReady, consumer, datagrams, baseData, head>>
      BY <1>5 DEF DiskHeader, DiskAccept, Deliver, allVars, ringVars, diskVars
    <2>2. diskPc' \in {"header", "accept", "pop"} => diskPc \in {"header", "accept", "pop"}
      BY <1>5 DEF DiskHeader, DiskAccept, Deliver, allVars, diskVars
    <2> QED BY <1>1, <2>1, <2>2 DEF HeadStaysUntilPop
  <1> QED BY <1>2, <1>3, <1>4, <1>5 DEF DiskNext, Disk

LEMMA InitDInv == RingInit /\ DiskInit => DInv
  <1> SUFFICES ASSUME RingInit, DiskInit PROVE DInv
    OBVIOUS
  <1>1. IInv
    BY InitIInv
  <1>2. Legal
    BY DEF RingInit, Legal
  <1>3. AddressInRing
    <2>1. 0 \div DatagramSize = 0
      <3>1. DatagramSize \in Nat \ {0}
        BY RingAssumption
      <3> QED BY <3>1, Z3
    <2> QED BY <2>1, RingAssumption DEF RingInit, AddressInRing, AddressSlot, Slot
  <1>4. DiskTypeOK
    BY <1>1 DEF DiskInit, DiskTypeOK, IInv
  <1>5. HeadStaysUntilPop
    BY DEF DiskInit, HeadStaysUntilPop
  <1> QED BY <1>1, <1>2, <1>3, <1>4, <1>5 DEF DInv

LEMMA StepKeepsDInv == DInv /\ [DiskNext]_allVars => DInv'
  <1> SUFFICES ASSUME DInv, [DiskNext]_allVars PROVE DInv'
    OBVIOUS
  <1>1. IInv' /\ Legal'
    BY StepKeepsRing, StepIsLegal DEF DInv
  <1>2. AddressInRing'
    BY StepKeepsAddress DEF DInv
  <1>3. DiskTypeOK'
    BY <1>1, StepKeepsDiskTypes
  <1>4. HeadStaysUntilPop'
    BY StepKeepsHead
  <1> QED BY <1>1, <1>2, <1>3, <1>4 DEF DInv

LEMMA DiskInductive == DiskSpec => []DInv
  BY InitDInv, StepKeepsDInv, PTL DEF DiskSpec

LEMMA UsesRingLegally == DiskSpec => LegalSpec
  <1>1. DInv /\ [DiskNext]_allVars => [LegalNext]_ringVars
    BY StepIsLegal DEF DInv
  <1> QED BY DiskInductive, <1>1, PTL DEF DiskSpec, LegalSpec
-----------------------------------------------------------------------------
(* Every variable of the disk thread and of the ring under it keeps its    *)
(* type; what is read as a header is a block of the file, zero or junk.    *)
THEOREM DiskTypesKept == DiskSpec => []DiskTypeOK
  <1>1. DInv => DiskTypeOK
    BY DEF DInv
  <1> QED BY DiskInductive, <1>1, PTL

(* The datagram that headed the queue when peek() returned                 *)
(* (command_get.go:512) is the one pop() removes (531), with the mutex     *)
(* released in between, for any network thread that gets no error.  What   *)
(* the slice that peek() returned holds is not part of it.                 *)
THEOREM HeadStays == DiskSpec => []HeadStaysUntilPop
  <1>1. DInv => HeadStaysUntilPop
    BY DEF DInv
  <1> QED BY DiskInductive, <1>1, PTL

(* The ring between disk thread and network thread is a bounded FIFO       *)
(* queue, for any network thread that gets no error from it.               *)
THEOREM DiskSeesFifo == DiskSpec => FifoSpec
  BY UsesRingLegally, RingImplementsFifo, PTL
-----------------------------------------------------------------------------
(* The memory of the ring holds any datagram; the ring has room for two    *)
(* flushes (4096 slots in the code).                                       *)
Roomy ==
    /\ MAX_BLOCKS_QUEUED >= 4
    /\ Datagram = [blk : 0 .. FileBlocks, pay : 0 .. FileBlocks]

Ended == {"returned", "failed", "crashed"}
Claimed == {"copy", "confirm", "stopCopy", "stopConfirm"}
BeforeBlock == {"read", "gate", "reserve", "copy", "confirm"}
BeforeStop == {"control", "stop", "stopReserve", "stopCopy", "stopConfirm"}

(* What an ended disk thread has left in the ring.                         *)
Left == IF diskPc = "dead" THEN 2 ELSE 0

(* How full the ring is at each place of the loop.                         *)
Filling ==
    /\ netPc \in BeforeBlock => countData <= Left
    /\ netPc \in BeforeStop => countData <= Left + 1
    /\ netPc = "join" /\ diskPc # "dead" => countData <= 2
    /\ netPc = "finish" => diskPc = "dead" /\ countData <= 2

LoopOK ==
    /\ netPc \in BeforeBlock \union BeforeStop \union {"join", "finish"} \union Ended
    /\ local.blk \in 0 .. FileBlocks
    /\ netPc \notin Ended => countReserved = IF netPc \in Claimed THEN 1 ELSE 0
    /\ Filling

GInv == DInv /\ LoopOK /\ RingCallsSucceed /\ FileOpenForDisk
-----------------------------------------------------------------------------
LEMMA InitGInv == Init => GInv
  <1> SUFFICES ASSUME Init PROVE GInv
    OBVIOUS
  <1>1. DInv
    BY InitDInv DEF Init
  <1>2. netPc = "read" /\ local.blk = 0 /\ fileOpen = TRUE /\ RingInit /\ diskPc = "peek"
    BY DEF Init, DiskInit
  <1>3. LoopOK
    BY <1>2, DiskAssumption
       DEF RingInit, LoopOK, Filling, Left, Ended, Claimed, BeforeBlock, BeforeStop
  <1> QED BY <1>1, <1>2, <1>3 DEF GInv, RingInit, RingCallsSucceed, FileOpenForDisk

(* A reservation finds the ring with room and none open.                   *)
LEMMA Reserved ==
    ASSUME GInv, Roomy, netPc \in {"reserve", "stopReserve"}, Reserve
    PROVE  /\ producer' = "running" /\ countReserved' = 1 /\ UNCHANGED countData
  <1>1. producer = "running" /\ countReserved = 0 /\ countData \in Nat /\ countData <= 3
    BY DEF GInv, LoopOK, Filling, Left, RingCallsSucceed, Ended, Claimed, BeforeBlock,
           BeforeStop, DInv, IInv, RingTypeOK
  <1>2. MAX_BLOCKS_QUEUED \in Nat /\ MAX_BLOCKS_QUEUED >= 4
    BY RingAssumption DEF Roomy
  <1>3. countData + countReserved < MAX_BLOCKS_QUEUED
    BY <1>1, <1>2
  <1>4. spaceReady
    BY <1>1, <1>3 DEF GInv, DInv, IInv, FlagsAgree
  <1> QED BY <1>1, <1>4 DEF Reserve, ClaimSlot

(* A confirmation finds the reservation open.                              *)
LEMMA Confirmed ==
    ASSUME GInv, netPc \in {"confirm", "stopConfirm"}, Confirm
    PROVE  producer' = "running" /\ countReserved' = 0 /\ countData' = countData + 1
  <1>1. producer = "running" /\ countReserved = 1
    BY DEF GInv, LoopOK, RingCallsSucceed, Ended, Claimed
  <1> QED BY <1>1 DEF Confirm

(* What is copied into a slot is a datagram of the ring.                   *)
LEMMA Copied ==
    ASSUME GInv, Roomy
    PROVE  /\ [blk |-> local.blk, pay |-> local.blk] \in Datagram
           /\ [datagrams[next] EXCEPT !.blk = 0] \in Datagram
  <1>1. local.blk \in 0 .. FileBlocks /\ 0 \in 0 .. FileBlocks
    BY DiskAssumption DEF GInv, LoopOK
  <1>2. datagrams[next] \in Datagram \union {Zeroed}
    BY DEF GInv, DInv, IInv, RingTypeOK
  <1>3. datagrams[next] \in [blk : 0 .. FileBlocks, pay : 0 .. FileBlocks]
    BY <1>1, <1>2, DiskAssumption DEF Roomy
  <1> QED BY <1>1, <1>3 DEF Roomy

(* The loop is a legal network thread of DiskThread.                       *)
LEMMA LoopIsLegal == ASSUME GInv, Roomy, [Next]_vars PROVE [DiskNext]_allVars
  <1>1. ASSUME InsertReserve \/ StopReserve PROVE OpenNetwork
    <2>1. Reserve /\ netPc \in {"reserve", "stopReserve"} /\ UNCHANGED diskVars
      BY <1>1 DEF InsertReserve, StopReserve, ReserveAt
    <2> QED BY <2>1, Reserved DEF OpenNetwork
  <1>2. ASSUME InsertConfirm \/ StopConfirm PROVE OpenNetwork
    <2>1. Confirm /\ netPc \in {"confirm", "stopConfirm"} /\ UNCHANGED diskVars
      BY <1>2 DEF InsertConfirm, StopConfirm
    <2> QED BY <2>1, Confirmed DEF OpenNetwork
  <1>3. ASSUME InsertCopy \/ StopCopy PROVE OpenNetwork
    <2>1. UNCHANGED diskVars /\ \E d \in Datagram : Fill(d)
      BY <1>3, Copied DEF InsertCopy, StopCopy
    <2> QED BY <2>1 DEF OpenNetwork, Fill
  <1>4. Join => Deliver
    BY DEF Join
  <1>5. ASSUME \/ \E d \in OnWire : ReadDatagram(d)
               \/ ReadError \/ Gate \/ Control \/ RequestStop \/ Finish
        PROVE  UNCHANGED allVars
    BY <1>5 DEF ReadDatagram, ReadError, Gate, Control, RequestStop, Finish, allVars
  <1>6. UNCHANGED vars => UNCHANGED allVars
    BY DEF vars, allVars
  <1> QED BY <1>1, <1>2, <1>3, <1>4, <1>5, <1>6
          DEF Next, NetworkThread, DiskStep, DiskNext
-----------------------------------------------------------------------------
(* Each step keeps the bounds on the ring.                                 *)

LEMMA LoopTypes ==
    ASSUME GInv
    PROVE  /\ countData \in Nat /\ countReserved \in {0, 1} /\ producer = "running"
           /\ netPc \in BeforeBlock \union BeforeStop \union {"join", "finish"} \union Ended
  BY DEF GInv, DInv, IInv, RingTypeOK, Counters, LoopOK, RingCallsSucceed

LEMMA OnWireBlocks == \A d \in OnWire : d.blk \in 0 .. FileBlocks
  <1>1. /\ FileBlocks \in Nat /\ blockCount \in Nat /\ blockCount <= FileBlocks
        /\ blockCount >= 1 /\ Stale \subseteq blockCount + 1 .. FileBlocks
    BY DiskAssumption, GetFileAssumption
  <1> QED BY <1>1 DEF OnWire

LEMMA ReceiveKeeps ==
    ASSUME GInv, (\E d \in OnWire : ReadDatagram(d)) \/ ReadError
    PROVE  LoopOK' /\ RingCallsSucceed' /\ FileOpenForDisk'
  <1>1. /\ netPc = "read" /\ netPc' \in {"gate", "failed"}
        /\ UNCHANGED <<ringVars, diskVars, fileOpen>>
    BY DEF ReadDatagram, ReadError
  <1>2. local'.blk \in 0 .. FileBlocks
    BY OnWireBlocks DEF ReadDatagram, ReadError, GInv, LoopOK
  <1> QED BY <1>1, <1>2, LoopTypes
          DEF GInv, LoopOK, Filling, Left, Ended, Claimed, BeforeBlock, BeforeStop,
              RingCallsSucceed, FileOpenForDisk, ringVars, diskVars

LEMMA QuietKeeps ==
    ASSUME GInv, Gate \/ Control \/ RequestStop
    PROVE  LoopOK' /\ RingCallsSucceed' /\ FileOpenForDisk'
  <1>1. /\ UNCHANGED <<ringVars, diskVars, local, fileOpen>>
        /\ \/ netPc = "gate" /\ netPc' \in {"reserve", "control", "stop"}
           \/ netPc = "control" /\ netPc' \in {"stop", "returned"}
           \/ netPc = "stop" /\ netPc' \in {"stopReserve", "failed"}
    BY DEF Gate, Control, RequestStop
  <1> QED BY <1>1, LoopTypes
          DEF GInv, LoopOK, Filling, Left, Ended, Claimed, BeforeBlock, BeforeStop,
              RingCallsSucceed, FileOpenForDisk, ringVars, diskVars

LEMMA ReserveKeeps ==
    ASSUME GInv, Roomy, InsertReserve \/ StopReserve
    PROVE  LoopOK' /\ RingCallsSucceed' /\ FileOpenForDisk'
  <1>1. /\ Reserve /\ UNCHANGED <<diskVars, local, fileOpen>>
        /\ \/ netPc = "reserve" /\ (producer' = "running" => netPc' = "copy")
           \/ netPc = "stopReserve" /\ (producer' = "running" => netPc' = "stopCopy")
    BY DEF InsertReserve, StopReserve, ReserveAt
  <1>2. producer' = "running" /\ countReserved' = 1 /\ UNCHANGED countData
    BY <1>1, Reserved
  <1> QED BY <1>1, <1>2, LoopTypes
          DEF GInv, LoopOK, Filling, Left, Ended, Claimed, BeforeBlock, BeforeStop,
              RingCallsSucceed, FileOpenForDisk, diskVars

LEMMA CopyKeeps ==
    ASSUME GInv, InsertCopy \/ StopCopy
    PROVE  LoopOK' /\ RingCallsSucceed' /\ FileOpenForDisk'
  <1>1. /\ UNCHANGED <<countData, countReserved, producer, diskVars, local, fileOpen>>
        /\ \/ netPc = "copy" /\ netPc' = "confirm"
           \/ netPc = "stopCopy" /\ netPc' = "stopConfirm"
    BY DEF InsertCopy, StopCopy, Fill
  <1> QED BY <1>1, LoopTypes
          DEF GInv, LoopOK, Filling, Left, Ended, Claimed, BeforeBlock, BeforeStop,
              RingCallsSucceed, FileOpenForDisk, diskVars

LEMMA ConfirmKeeps ==
    ASSUME GInv, InsertConfirm \/ StopConfirm
    PROVE  LoopOK' /\ RingCallsSucceed' /\ FileOpenForDisk'
  <1>1. /\ Confirm /\ UNCHANGED <<diskVars, local, fileOpen>>
        /\ \/ netPc = "confirm" /\ netPc' \in {"control", "crashed", "failed"}
           \/ netPc = "stopConfirm" /\ netPc' = "join"
    BY DEF InsertConfirm, StopConfirm
  <1>2. producer' = "running" /\ countReserved' = 0 /\ countData' = countData + 1
    BY <1>1, Confirmed
  <1> QED BY <1>1, <1>2, LoopTypes
          DEF GInv, LoopOK, Filling, Left, Ended, Claimed, BeforeBlock, BeforeStop,
              RingCallsSucceed, FileOpenForDisk, diskVars

(* The disk thread has ended when the loop goes on, and the file with it.  *)
LEMMA EndKeeps ==
    ASSUME GInv, Join \/ Finish
    PROVE  LoopOK' /\ RingCallsSucceed' /\ FileOpenForDisk'
  <1>1. CASE Join
    <2>1. /\ netPc = "join" /\ netPc' = "finish" /\ diskPc = "send" /\ diskPc' = "dead"
          /\ UNCHANGED <<ringVars, local, fileOpen>>
      BY <1>1 DEF Join, Deliver
    <2> QED BY <2>1, LoopTypes
            DEF GInv, LoopOK, Filling, Left, Ended, Claimed, BeforeBlock, BeforeStop,
                RingCallsSucceed, FileOpenForDisk, ringVars
  <1>2. CASE Finish
    <2>1. /\ netPc = "finish" /\ netPc' \in {"crashed", "read"}
          /\ UNCHANGED <<ringVars, diskVars, local>>
      BY <1>2 DEF Finish
    <2>2. diskPc = "dead" /\ countData <= 2
      BY <2>1 DEF GInv, LoopOK, Filling
    <2> QED BY <2>1, <2>2, LoopTypes
            DEF GInv, LoopOK, Filling, Left, Ended, Claimed, BeforeBlock, BeforeStop,
                RingCallsSucceed, FileOpenForDisk, ringVars, diskVars
  <1> QED BY <1>1, <1>2

(* The disk thread only makes room, and does not end by itself.            *)
LEMMA DiskKeeps ==
    ASSUME GInv, DiskStep
    PROVE  LoopOK' /\ RingCallsSucceed' /\ FileOpenForDisk'
  <1>1. /\ UNCHANGED <<countReserved, producer, netPc, local, fileOpen>>
        /\ diskPc # "dead" /\ diskPc' # "dead"
    BY DEF DiskStep, Disk, DiskPeek, DiskHeader, DiskAccept, DiskPop, Peek, Pop,
           ringVars, netVars
  <1>2. countData' \in {countData, countData - 1}
    BY DEF DiskStep, Disk, DiskPeek, DiskHeader, DiskAccept, DiskPop, Peek, Pop, ringVars
  <1> QED BY <1>1, <1>2, LoopTypes
          DEF GInv, LoopOK, Filling, Left, Ended, Claimed, BeforeBlock, BeforeStop,
              RingCallsSucceed, FileOpenForDisk

LEMMA StepKeepsGInv == ASSUME GInv, Roomy, [Next]_vars PROVE GInv'
  <1>1. DInv'
    BY LoopIsLegal, StepKeepsDInv DEF GInv
  <1>2. CASE UNCHANGED vars
    BY <1>1, <1>2
       DEF vars, netVars, ringVars, diskVars, GInv, LoopOK, Filling, Left,
           RingCallsSucceed, FileOpenForDisk
  <1>3. CASE Next
    BY <1>1, <1>3, ReceiveKeeps, QuietKeeps, ReserveKeeps, CopyKeeps, ConfirmKeeps,
       EndKeeps, DiskKeeps DEF Next, NetworkThread, GInv
  <1> QED BY <1>2, <1>3

LEMMA LoopInductive == ASSUME Roomy PROVE Spec => []GInv
  <1>1. GInv /\ [Next]_vars => GInv'
    BY StepKeepsGInv
  <1> QED BY InitGInv, <1>1, PTL DEF Spec
-----------------------------------------------------------------------------
(* The loop never gets an error from the ring and never sleeps in          *)
(* reserve(), although it inserts the stop block (command_get.go:379-387)  *)
(* without a look at isFull.                                               *)
THEOREM LoopKeepsToRing == ASSUME Roomy PROVE Spec => []RingCallsSucceed
  <1>1. GInv => RingCallsSucceed
    BY DEF GInv
  <1> QED BY LoopInductive, <1>1, PTL

(* The file is closed (command_get.go:428) only when the disk thread has   *)
(* ended, whatever arrives and whatever goes wrong.                        *)
THEOREM ClosedBehindDisk == ASSUME Roomy PROVE Spec => []FileOpenForDisk
  <1>1. GInv => FileOpenForDisk
    BY DEF GInv
  <1> QED BY LoopInductive, <1>1, PTL

(* The same with the real loop at the other end: the head at peek() is the *)
(* datagram that pop() removes (command_get.go:512, 531).                  *)
THEOREM LoopKeepsHead == ASSUME Roomy PROVE Spec => []HeadStaysUntilPop
  <1>1. GInv => HeadStaysUntilPop
    BY DEF GInv, DInv
  <1> QED BY LoopInductive, <1>1, PTL

(* The ring between loop and disk thread implements the FIFO queue.        *)
THEOREM LoopSeesFifo == ASSUME Roomy PROVE Spec => FifoSpec
  <1>1. GInv /\ [Next]_vars => [LegalNext]_ringVars
    BY LoopIsLegal, StepIsLegal DEF GInv, DInv
  <1>2. Init => RingInit
    BY DEF Init
  <1>3. Spec => LegalSpec
    BY LoopInductive, <1>1, <1>2, PTL DEF Spec, LegalSpec
  <1> QED BY <1>3, RingImplementsFifo, PTL
-----------------------------------------------------------------------------
(* The account that the loop keeps: the lemmas about it are those of       *)
(* RetransmissionProofs, about the same operators.                         *)
RP == INSTANCE RetransmissionProofs WITH asked <- {}, skipped <- {}

LEMMA Premises == RP!RetransmissionAssumption
  BY AccountAssumption DEF Retx!RetransmissionAssumption, RP!RetransmissionAssumption,
     Retx!TableSizes, RP!TableSizes

LEMMA SameOperators ==
    /\ \A m : Retx!NewTransfer(m) = RP!NewTransfer(m)
    /\ \A x, b : Retx!GotBlock(x, b) = RP!GotBlock(x, b)
    /\ \A x, b, w : Retx!QueueMissing(x, b, w) = RP!QueueMissing(x, b, w)
    /\ \A x : Retx!QueueRest(x) = RP!QueueRest(x)
    /\ \A x : Retx!AdvanceGapless(x) = RP!AdvanceGapless(x)
    /\ \A x : Retx!EndRestart(x) = RP!EndRestart(x)
    /\ \A x : Retx!RepeatRetransmit(x) = RP!RepeatRetransmit(x)
    /\ \A x : Retx!RepeatFailed(x) = RP!RepeatFailed(x)
    /\ \A x : Retx!Requests(x) = RP!Requests(x)
  <1>1. \A m : Retx!NewTransfer(m) = RP!NewTransfer(m)
    BY DEF Retx!NewTransfer, RP!NewTransfer
  <1>2. \A x, b : Retx!GotBlock(x, b) = RP!GotBlock(x, b)
    BY DEF Retx!GotBlock, RP!GotBlock
  <1>3. \A x, s, e : Retx!RequestRetransmitBlocks(x, s, e) = RP!RequestRetransmitBlocks(x, s, e)
    BY DEF Retx!GotBlock, RP!GotBlock, Retx!RequestRetransmit, RP!RequestRetransmit,
           Retx!RequestRetransmitBlocks, RP!RequestRetransmitBlocks
  <1>4. \A x : Retx!Kept(x) = RP!Kept(x)
    BY DEF Retx!GotBlock, RP!GotBlock, Retx!Wanted, RP!Wanted, Retx!Kept, RP!Kept
  <1>5. \A x : Retx!AdvanceGapless(x) = RP!AdvanceGapless(x)
    BY DEF Retx!GotBlock, RP!GotBlock, Retx!AdvanceGapless, RP!AdvanceGapless,
           Retx!Blocks, RP!Blocks, Retx!Max, RP!Max
  <1>6. \A x, b, w : Retx!QueueMissing(x, b, w) = RP!QueueMissing(x, b, w)
    BY DEF Retx!GotBlock, RP!GotBlock, Retx!RequestRetransmit, RP!RequestRetransmit,
           Retx!RequestRetransmitBlocks, RP!RequestRetransmitBlocks,
           Retx!QueueMissing, RP!QueueMissing, Retx!Min, RP!Min
  <1>7. \A x : Retx!QueueRest(x) = RP!QueueRest(x)
    BY <1>3 DEF Retx!QueueRest, RP!QueueRest
  <1>8. \A x : Retx!EndRestart(x) = RP!EndRestart(x)
    BY DEF Retx!EndRestart, RP!EndRestart
  <1>9. \A x : Retx!TooMany(x) = RP!TooMany(x)
    BY <1>4 DEF Retx!TooMany, RP!TooMany
  <1>10. \A x : Retx!RestartBlock(x) = RP!RestartBlock(x)
    BY DEF Retx!RestartBlock, RP!RestartBlock
  <1>11. \A x : Retx!Compacted(x) = RP!Compacted(x)
    BY <1>4 DEF Retx!Compacted, RP!Compacted
  <1>12. \A x : Retx!RepeatRetransmit(x) = RP!RepeatRetransmit(x)
    BY <1>4, <1>9, <1>10, <1>11 DEF Retx!RepeatRetransmit, RP!RepeatRetransmit,
       Retx!Restarted, RP!Restarted, Retx!Last, RP!Last
  <1>13. \A x : Retx!RepeatFailed(x) = RP!RepeatFailed(x)
    BY <1>4, <1>9, <1>11 DEF Retx!RepeatFailed, RP!RepeatFailed
  <1>14. \A x : Retx!Requests(x) = RP!Requests(x)
    BY <1>4, <1>9, <1>10 DEF Retx!Requests, RP!Requests
  <1> QED BY <1>1, <1>2, <1>5, <1>6, <1>7, <1>8, <1>12, <1>13, <1>14, Zenon

(* The state of the account between two calls of the loop.                 *)
Account(x) ==
    /\ x \in RP!Transfer
    /\ x.mode # "semilossy" => x.gaplessToBlock <= FileBlocks

(* Nothing is written while a datagram is inserted.                        *)
AInv ==
    /\ Account(xfer)
    /\ xfer.received \subseteq 0 .. FileBlocks
    /\ local \in [blk : 0 .. FileBlocks, type : Types \union {"none"}]
    /\ blocksLeft \in 0 .. blockCount /\ fileOpen \in BOOLEAN
    /\ netPc \in {"reserve", "copy", "confirm", "control"} => written = <<>>
    /\ RequestsMakeSense

LEMMA Sizes ==
    /\ FileBlocks \in Nat /\ blockCount \in Nat /\ blockCount >= 1
    /\ blockCount <= FileBlocks /\ UINT \in Nat /\ FileBlocks + 1 < UINT
    /\ Stale \subseteq blockCount + 1 .. FileBlocks
  <1>1. FileBlocks \in Nat /\ blockCount \in Nat /\ blockCount >= 1
    BY DiskAssumption, GetFileAssumption
  <1> QED BY <1>1, DiskAssumption, GetFileAssumption, AccountAssumption
          DEF Retx!RetransmissionAssumption

LEMMA NothingWrittenMakesSense ==
    ASSUME written' = <<>>
    PROVE  RequestsMakeSense'
  BY DEF RequestsMakeSense, Retx!OnlyMissingRequested, Retx!RestartInFile, Retx!Range

(* A round of requests, written or not.                                    *)
LEMMA Round ==
    ASSUME NEW x, Account(x),
           NEW y, y = Retx!RepeatRetransmit(x) \/ y = Retx!RepeatFailed(x)
    PROVE  Account(y) /\ y.mode = x.mode /\ y.received = x.received
  <1>1. CASE y = Retx!RepeatRetransmit(x)
    <2>1. y = RP!RepeatRetransmit(x)
      BY <1>1, SameOperators
    <2>2. /\ y \in RP!Transfer /\ y.mode = x.mode /\ y.received = x.received
          /\ y.gaplessToBlock = x.gaplessToBlock
      BY <2>1, Premises, RP!RepeatFacts DEF Account
    <2> QED BY <2>2 DEF Account
  <1>2. CASE y = Retx!RepeatFailed(x)
    <2>1. y = RP!RepeatFailed(x)
      BY <1>2, SameOperators
    <2>2. y \in RP!Transfer /\ RP!SameButTable(x, y)
      BY <2>1, Premises, RP!RepeatFailedFacts DEF Account
    <2> QED BY <2>2 DEF Account, RP!SameButTable
  <1> QED BY <1>1, <1>2

LEMMA RoundMakesSense ==
    ASSUME NEW x, Account(x), written' = Retx!Requests(x),
           xfer'.mode = x.mode, xfer'.received = x.received
    PROVE  RequestsMakeSense'
  <1>1. ASSUME NEW r \in Retx!Range(written')
        PROVE  \/ r.type = "retransmit" /\ r.block \in RP!Blocks \ x.received
               \/ r.type = "restart" /\ r.block = RP!RestartBlock(x)
    <2>1. r \in RP!Range(RP!Requests(x))
      BY SameOperators DEF Retx!Range, RP!Range
    <2> QED BY <2>1, Premises, RP!RequestsFacts DEF Account
  <1>2. x.mode # "semilossy" => RP!RestartBlock(x) \in RP!Blocks
    <2>1. ASSUME x.mode # "semilossy" PROVE x.gaplessToBlock + 1 < UINT
      <3>1. x.gaplessToBlock \in Nat /\ x.gaplessToBlock <= FileBlocks
        BY <2>1, Premises, RP!Fields DEF Account
      <3> QED BY <3>1, Sizes
    <2> QED BY <2>1, Premises, RP!RestartBlockInFile DEF Account
  <1>3. RP!Blocks = Retx!Blocks
    BY DEF RP!Blocks, Retx!Blocks
  <1>4. Retx!OnlyMissingRequested'
    BY <1>1, <1>3 DEF Retx!OnlyMissingRequested, Retx!Blocks
  <1>5. Retx!RestartInFile'
    BY <1>1, <1>2, <1>3 DEF Retx!RestartInFile, Retx!Blocks
  <1> QED BY <1>4, <1>5 DEF RequestsMakeSense

(* The processing of a block.                                              *)
LEMMA AfterBlockKeeps ==
    ASSUME AInv
    PROVE  /\ Account(AfterBlock) /\ AfterBlock.mode = xfer.mode
           /\ AfterBlock.received = xfer.received
  <1>1. Account(xfer) /\ local.blk \in 0 .. FileBlocks
    BY DEF AInv
  <1>2. xfer \in RP!Transfer /\ xfer.nextBlock \in Nat
    BY <1>1, Premises, RP!Fields DEF Account
  <1>3. PICK queued : queued = IF local.blk > xfer.nextBlock
                               THEN Retx!QueueMissing(xfer, local.blk, 0) ELSE xfer
    OBVIOUS
  <1>4. Account(queued) /\ queued.mode = xfer.mode /\ queued.received = xfer.received
    <2>1. CASE local.blk > xfer.nextBlock
      <3>1. queued = RP!QueueMissing(xfer, local.blk, 0)
        BY <1>3, <2>1, SameOperators
      <3>2. local.blk \in 1 .. UINT - 1 /\ 0 \in Nat
        BY <1>1, <1>2, <2>1, Sizes
      <3>3. RP!Queued(xfer, local.blk, queued)
        BY <1>2, <3>1, <3>2, Premises, RP!QueueMissingFacts, Zenon
      <3>4. xfer.mode \in {"lossless", "lossy", "semilossy"}
        BY <1>2, Premises, RP!Fields DEF RP!RetransmissionAssumption
      <3> QED BY <1>1, <3>3, <3>4 DEF Account, RP!Queued
    <2>2. CASE ~(local.blk > xfer.nextBlock)
      BY <1>1, <1>3, <2>2
    <2> QED BY <2>1, <2>2
  <1>5. PICK advanced : advanced = Retx!AdvanceGapless(queued)
    OBVIOUS
  <1>6. Account(advanced) /\ advanced.mode = xfer.mode /\ advanced.received = xfer.received
    <2>1. advanced = RP!AdvanceGapless(queued)
      BY <1>5, SameOperators
    <2>2. /\ advanced \in RP!Transfer
          /\ advanced.mode = queued.mode /\ advanced.received = queued.received
          /\ \/ advanced.gaplessToBlock = queued.gaplessToBlock
             \/ advanced.gaplessToBlock \in RP!Blocks
      BY <1>4, <2>1, Premises, RP!AdvanceFacts DEF Account
    <2> QED BY <1>4, <2>2, Sizes DEF Account, RP!Blocks
  <1>7. PICK moved : moved = IF local.type # "O" THEN advanced
                     ELSE [advanced EXCEPT !.nextBlock = (local.blk + 1) % UINT]
    OBVIOUS
  <1>8. Account(moved) /\ moved.mode = xfer.mode /\ moved.received = xfer.received
    <2>1. (local.blk + 1) % UINT \in 0 .. UINT - 1
      <3>1. local.blk + 1 \in Int
        BY <1>1
      <3> QED BY <3>1, Premises, RP!Remainder
    <2>2. CASE local.type # "O"
      BY <1>6, <1>7, <2>2
    <2>3. CASE local.type = "O"
      BY <1>6, <1>7, <2>1, <2>3 DEF Account, RP!Transfer
    <2> QED BY <2>2, <2>3
  <1>9. AfterBlock = RP!EndRestart(moved)
    BY <1>3, <1>5, <1>7, SameOperators DEF AfterBlock
  <1>10. /\ AfterBlock \in RP!Transfer
         /\ AfterBlock.mode = moved.mode /\ AfterBlock.received = moved.received
         /\ AfterBlock.gaplessToBlock = moved.gaplessToBlock
    <2>1. PICK y : y = AfterBlock
      OBVIOUS
    <2> QED BY <1>8, <1>9, <2>1, Premises, RP!EndRestartFacts DEF Account
  <1> QED BY <1>8, <1>10 DEF Account

LEMMA InitAInv == Init => AInv
  <1> SUFFICES ASSUME Init PROVE AInv
    OBVIOUS
  <1>1. PICK m \in Modes : xfer = RP!NewTransfer(m)
    BY SameOperators DEF Init
  <1>2. xfer \in RP!Transfer /\ xfer.received = {} /\ xfer.gaplessToBlock = 0
    BY <1>1, Premises, RP!FreshTransfer
  <1>3. RequestsMakeSense
    BY DEF Init, RequestsMakeSense, Retx!OnlyMissingRequested, Retx!RestartInFile, Retx!Range
  <1> QED BY <1>2, <1>3, Sizes DEF Init, AInv, Account, Types

LEMMA ReceiveKeepsAccount ==
    ASSUME AInv, (\E d \in OnWire : ReadDatagram(d)) \/ ReadError
    PROVE  AInv'
  <1>1. ASSUME NEW d \in OnWire, ReadDatagram(d) PROVE AInv'
    <2>1. d \in [blk : 0 .. FileBlocks, type : Types \union {"none"}]
      BY Sizes DEF OnWire, Types
    <2>2. /\ UNCHANGED <<xfer, blocksLeft, fileOpen>> /\ local' = d
          /\ written' = <<>> /\ netPc' = "gate"
      BY <1>1 DEF ReadDatagram
    <2> QED BY <2>1, <2>2, NothingWrittenMakesSense DEF AInv, Account
  <1>2. CASE ReadError
    <2>1. /\ UNCHANGED <<local, blocksLeft, fileOpen>> /\ netPc' \in {"gate", "failed"}
          /\ \/ xfer' = Retx!RepeatRetransmit(xfer) /\ written' = Retx!Requests(xfer)
             \/ xfer' = Retx!RepeatFailed(xfer) /\ written' = <<>>
      BY <1>2 DEF ReadError
    <2>2. Account(xfer) /\ xfer.received \subseteq 0 .. FileBlocks
      BY DEF AInv
    <2>3. Account(xfer') /\ xfer'.mode = xfer.mode /\ xfer'.received = xfer.received
      BY <2>1, <2>2, Round
    <2>4. RequestsMakeSense'
      BY <2>1, <2>2, <2>3, RoundMakesSense, NothingWrittenMakesSense
    <2> QED BY <2>1, <2>2, <2>3, <2>4 DEF AInv, Account
  <1> QED BY <1>1, <1>2

LEMMA ConfirmKeepsAccount ==
    ASSUME AInv, InsertConfirm
    PROVE  AInv'
  <1>1. /\ UNCHANGED <<local, written, fileOpen>> /\ netPc = "confirm"
        /\ xfer' \in {xfer, [xfer EXCEPT !.received = xfer.received \union {local.blk}]}
        /\ blocksLeft' \in {blocksLeft, IF blocksLeft > 0 THEN blocksLeft - 1 ELSE blocksLeft}
    BY DEF InsertConfirm
  <1>2. written' = <<>> /\ RequestsMakeSense'
    BY <1>1, NothingWrittenMakesSense DEF AInv
  <1>3. blocksLeft' \in 0 .. blockCount
    BY <1>1, Sizes DEF AInv
  <1>4. Account(xfer') /\ xfer'.received \subseteq 0 .. FileBlocks
    <2>1. CASE UNCHANGED xfer
      BY <2>1 DEF AInv
    <2>2. CASE xfer' = [xfer EXCEPT !.received = xfer.received \union {local.blk}]
      <3>1. local.blk \in 0 .. FileBlocks /\ local.blk \in Nat
            /\ xfer \in RP!Transfer /\ xfer.received \subseteq Nat
        BY Premises, RP!Fields DEF AInv, Account
      <3>2. /\ xfer' \in RP!Transfer /\ xfer'.received = xfer.received \union {local.blk}
            /\ xfer'.mode = xfer.mode /\ xfer'.gaplessToBlock = xfer.gaplessToBlock
        BY <2>2, <3>1 DEF RP!Transfer
      <3> QED BY <3>1, <3>2 DEF AInv, Account
    <2> QED BY <1>1, <2>1, <2>2
  <1> QED BY <1>1, <1>2, <1>3, <1>4 DEF AInv, Account

LEMMA ControlKeepsAccount ==
    ASSUME AInv, Control
    PROVE  AInv'
  <1>1. /\ UNCHANGED <<local, blocksLeft, fileOpen>> /\ netPc' \in {"stop", "returned"}
        /\ \/ written' = <<>> /\ UNCHANGED xfer
           \/ written' = <<>> /\ xfer' = AfterBlock
           \/ \/ /\ xfer' = Retx!RepeatRetransmit(Retx!QueueRest(AfterBlock))
                 /\ written' = Retx!Requests(Retx!QueueRest(AfterBlock))
              \/ /\ xfer' = Retx!RepeatFailed(Retx!QueueRest(AfterBlock))
                 /\ written' = <<>>
    BY DEF Control
  <1>2. /\ Account(AfterBlock) /\ AfterBlock.mode = xfer.mode
        /\ AfterBlock.received = xfer.received
    BY AfterBlockKeeps
  <1>3. PICK rest : rest = Retx!QueueRest(AfterBlock)
    OBVIOUS
  <1>4. Account(rest) /\ rest.received = xfer.received
    <2>1. PICK x : x = AfterBlock
      OBVIOUS
    <2>2. rest = RP!QueueRest(x)
      BY <1>3, <2>1, SameOperators
    <2>3. RP!Grown(x, rest)
      BY <1>2, <2>1, <2>2, Premises, RP!QueueRestFacts DEF Account
    <2> QED BY <1>2, <2>1, <2>3 DEF Account, RP!Grown, RP!SameButTable
  <1>5. /\ Account(xfer') /\ xfer'.received = xfer.received
        /\ RequestsMakeSense'
    <2>1. CASE written' = <<>> /\ UNCHANGED xfer
      BY <2>1, NothingWrittenMakesSense DEF AInv
    <2>2. CASE written' = <<>> /\ xfer' = AfterBlock
      BY <1>2, <2>2, NothingWrittenMakesSense
    <2>3. CASE xfer' = Retx!RepeatRetransmit(rest) /\ written' = Retx!Requests(rest)
      <3>1. Account(xfer') /\ xfer'.mode = rest.mode /\ xfer'.received = rest.received
        BY <1>4, <2>3, Round
      <3> QED BY <1>4, <2>3, <3>1, RoundMakesSense
    <2>4. CASE xfer' = Retx!RepeatFailed(rest) /\ written' = <<>>
      BY <1>4, <2>4, Round, NothingWrittenMakesSense
    <2> QED BY <1>1, <1>3, <2>1, <2>2, <2>3, <2>4
  <1> QED BY <1>1, <1>5 DEF AInv, Account

LEMMA OthersKeepAccount ==
    ASSUME AInv, \/ Gate \/ InsertReserve \/ InsertCopy \/ RequestStop \/ StopReserve
                 \/ StopCopy \/ StopConfirm \/ Join \/ Finish \/ DiskStep \/ UNCHANGED vars
    PROVE  AInv'
  <1>1. UNCHANGED <<xfer, local, blocksLeft>>
    BY DEF Gate, InsertReserve, InsertCopy, RequestStop, StopReserve, ReserveAt, StopCopy,
           StopConfirm, Join, Finish, DiskStep, vars, netVars
  <1>2. fileOpen' \in BOOLEAN
    <2>1. fileOpen' = fileOpen \/ fileOpen' = FALSE
      BY DEF Gate, InsertReserve, InsertCopy, RequestStop, StopReserve, ReserveAt,
             StopCopy, StopConfirm, Join, Finish, DiskStep, vars, netVars
    <2>2. fileOpen \in BOOLEAN
      BY DEF AInv
    <2> QED BY <2>1, <2>2, Zenon
  <1>3. /\ written' = <<>> \/ UNCHANGED written
        /\ netPc' \in {"reserve", "copy", "confirm", "control"} => written' = <<>>
    <2>1. CASE Gate \/ RequestStop
      BY <2>1 DEF Gate, RequestStop
    <2>2. CASE InsertReserve \/ InsertCopy
      BY <2>2 DEF AInv, InsertReserve, ReserveAt, InsertCopy
    <2>3. CASE StopReserve
      <3>1. UNCHANGED written /\ netPc' \in {"stopCopy", "stopReserve", "stopConfirm"}
        BY <2>3 DEF StopReserve, ReserveAt, Reserve, ClaimSlot
      <3> QED BY <3>1
    <2>4. CASE StopCopy \/ StopConfirm \/ Join \/ Finish
      BY <2>4 DEF StopCopy, StopConfirm, Join, Finish
    <2>5. CASE DiskStep \/ UNCHANGED vars
      BY <2>5 DEF AInv, DiskStep, vars, netVars
    <2> QED BY <2>1, <2>2, <2>3, <2>4, <2>5
  <1>4. RequestsMakeSense'
    <2>1. CASE written' = <<>>
      BY <2>1, NothingWrittenMakesSense
    <2>2. CASE UNCHANGED written
      BY <1>1, <2>2 DEF AInv, RequestsMakeSense, Retx!OnlyMissingRequested,
                        Retx!RestartInFile, Retx!Blocks
    <2> QED BY <1>3, <2>1, <2>2
  <1> QED BY <1>1, <1>2, <1>3, <1>4 DEF AInv, Account

LEMMA AccountInductive == Spec => []AInv
  <1>1. AInv /\ [Next]_vars => AInv'
    BY ReceiveKeepsAccount, ConfirmKeepsAccount, ControlKeepsAccount, OthersKeepAccount
       DEF Next, NetworkThread
  <1> QED BY InitAInv, <1>1, PTL DEF Spec

(* Whatever arrives, and whichever reads and writes fail, the loop asks    *)
(* for missing blocks only, and a restart outside the semi-lossy mode      *)
(* names a block of the file (client/protocol.go:348, 362-367).  Nothing   *)
(* is assumed of the ring or the disk thread.                              *)
THEOREM RequestsAlwaysMakeSense == Spec => []RequestsMakeSense
  <1>1. AInv => RequestsMakeSense
    BY DEF AInv
  <1> QED BY AccountInductive, <1>1, PTL

(* The variables of the loop and of the threads under it keep their types. *)
THEOREM TypesKept == ASSUME Roomy PROVE Spec => []TypeOK
  <1>1. GInv /\ AInv => TypeOK
    BY DEF GInv, DInv, LoopOK, AInv, TypeOK, Ended, BeforeBlock, BeforeStop
  <1> QED BY LoopInductive, AccountInductive, <1>1, PTL
=============================================================================

----------------------------- MODULE RingBuffer -----------------------------
(***************************************************************************)
(* The ring buffer of client/ring.go: a monitor shared by the network      *)
(* thread (reserve, copy, confirm, cancel) and the disk thread (peek,      *)
(* pop).  Every operation holds ring.mutex from its first statement to its *)
(* return or to the Wait() it sleeps in, so each is one step; a sleeping   *)
(* call resumes as a step of its own, after the Signal() that wakes it.    *)
(*                                                                         *)
(* The module is open: each thread makes its calls in any order, the ones  *)
(* answered with an error included.  DiskThread adds the disk thread's     *)
(* code and GetFile the network thread's.                                  *)
(***************************************************************************)
EXTENDS Integers, Sequences

CONSTANTS
    MAX_BLOCKS_QUEUED,  \* the number of slots
    DatagramSize,       \* the bytes of a slot: 6 + the block size
    Datagram,           \* what the network thread may copy into a slot
    Zeroed              \* the content of a slot as make() left it

ASSUME RingAssumption ==
    /\ MAX_BLOCKS_QUEUED \in Nat /\ MAX_BLOCKS_QUEUED >= 2
    /\ DatagramSize \in Nat /\ DatagramSize > 6

VARIABLES
    datagrams,      \* the slots
    baseData,       \* the first slot with data
    countData,      \* how many slots hold data
    countReserved,  \* how many slots are reserved, still without data
    dataReady,      \* what a sleeper on dataReadyCond waits for
    spaceReady,     \* what a sleeper on spaceReadyCond waits for
    next,           \* the slot the latest reserve() computed (its local)
    producer,       \* where the network thread stands with the ring
    consumer,       \* where the disk thread stands with the ring
    address         \* the byte offset of the slice the latest peek() returned

ringVars == <<datagrams, baseData, countData, countReserved, dataReady,
              spaceReady, next, producer, consumer, address>>

Slot == 0 .. MAX_BLOCKS_QUEUED - 1
-----------------------------------------------------------------------------
(* Index arithmetic.                                                       *)

SlotAfter(i) == (i + 1) % MAX_BLOCKS_QUEUED

NextSlotBeyond ==                   \* variant: one slot too far
    (baseData + countData + countReserved + 1) % MAX_BLOCKS_QUEUED
NextSlot == (baseData + countData + countReserved) % MAX_BLOCKS_QUEUED

PeekOffset == DatagramSize + baseData      \* where peek() takes its slice

SignalNobody == UNCHANGED consumer  \* variant: the Signal() is forgotten

(* Signal() wakes the disk thread when it sleeps on dataReadyCond.         *)
SignalData ==
    \/ consumer = "peekWait" /\ consumer' = "peekWoken"
    \/ consumer = "popWait" /\ consumer' = "popWoken"
    \/ consumer \notin {"peekWait", "popWait"} /\ UNCHANGED consumer
-----------------------------------------------------------------------------
(* NewRingBuffer                                                           *)
RingInit ==
    /\ datagrams = [i \in Slot |-> Zeroed]
    /\ baseData = 0 /\ countData = 0 /\ countReserved = 0
    /\ dataReady = FALSE /\ spaceReady = TRUE
    /\ next = 0 /\ address = 0
    /\ producer = "running" /\ consumer = "idle"

(* isFull: the value the network thread branches on.                       *)
IsFull == ~spaceReady

ClaimSlotUnnoticed(slot) ==         \* variant: a full ring is not noticed
    /\ countReserved' = countReserved + 1
    /\ producer' = IF countReserved > 0 THEN "error" ELSE "running"
    /\ UNCHANGED spaceReady

(* The part of reserve() after its wait.  Two reservations are an error,   *)
(* which leaves the counter raised.                                        *)
ClaimSlot(slot) ==
    /\ countReserved' = countReserved + 1
    /\ \/ /\ countReserved > 0
          /\ producer' = "error"
          /\ UNCHANGED spaceReady
       \/ /\ countReserved <= 0
          /\ producer' = "running"
          /\ spaceReady' = IF SlotAfter(slot) = baseData THEN FALSE ELSE spaceReady

(* reserve() computes the slot before it looks at spaceReady.  When it has *)
(* to sleep, only cancel() could signal spaceReadyCond, and the thread     *)
(* that would call it is the sleeper: no step resumes the call.            *)
Reserve ==
    /\ producer = "running"
    /\ next' = NextSlot
    /\ \/ /\ spaceReady
          /\ ClaimSlot(NextSlot)
       \/ /\ ~spaceReady
          /\ producer' = "blocked"
          /\ UNCHANGED <<countReserved, spaceReady>>
    /\ UNCHANGED <<datagrams, baseData, countData, dataReady, consumer, address>>

FillHead(d) ==                      \* variant: the copy goes to the head slot
    /\ producer = "running" /\ countReserved = 1
    /\ datagrams' = [datagrams EXCEPT ![baseData] = d]
    /\ UNCHANGED <<baseData, countData, countReserved, dataReady, spaceReady,
                   next, producer, consumer, address>>

(* The network thread copies a datagram into the slice it was given.       *)
Fill(d) ==
    /\ producer = "running" /\ countReserved = 1
    /\ datagrams' = [datagrams EXCEPT ![next] = d]
    /\ UNCHANGED <<baseData, countData, countReserved, dataReady, spaceReady,
                   next, producer, consumer, address>>

(* confirm() raises countData before it finds out that nothing was         *)
(* reserved.                                                               *)
Confirm ==
    /\ producer = "running"
    /\ countData' = countData + 1
    /\ countReserved' = countReserved - 1
    /\ \/ /\ countReserved <= 0
          /\ producer' = "error"
          /\ UNCHANGED <<dataReady, consumer>>
       \/ /\ countReserved > 0
          /\ dataReady' = TRUE
          /\ SignalData
          /\ UNCHANGED producer
    /\ UNCHANGED <<datagrams, baseData, spaceReady, next, address>>

Cancel ==
    /\ producer = "running"
    /\ countReserved' = countReserved - 1
    /\ \/ /\ countReserved <= 0
          /\ producer' = "error"
          /\ UNCHANGED spaceReady
       \/ /\ countReserved > 0
          /\ spaceReady' = TRUE
          /\ UNCHANGED producer
    /\ UNCHANGED <<datagrams, baseData, countData, dataReady, next, consumer,
                   address>>

(* peek() sleeps while there is no data; it takes its slice after it has   *)
(* released the mutex, from fields only the disk thread changes.           *)
Peek ==
    /\ consumer \in {"idle", "peekWoken"}
    /\ \/ /\ dataReady
          /\ consumer' = "idle"
          /\ address' = PeekOffset
       \/ /\ ~dataReady
          /\ consumer' = "peekWait"
          /\ UNCHANGED address
    /\ UNCHANGED <<datagrams, baseData, countData, countReserved, dataReady,
                   spaceReady, next, producer>>

(* pop() makes space and sets spaceReady.                                  *)
Pop ==
    /\ consumer \in {"idle", "popWoken"}
    /\ \/ /\ dataReady
          /\ baseData' = SlotAfter(baseData)
          /\ countData' = countData - 1
          /\ dataReady' = IF countData' = 0 THEN FALSE ELSE dataReady
          /\ spaceReady' = TRUE
          /\ consumer' = "idle"
       \/ /\ ~dataReady
          /\ consumer' = "popWait"
          /\ UNCHANGED <<baseData, countData, dataReady, spaceReady>>
    /\ UNCHANGED <<datagrams, countReserved, next, producer, address>>

RingNext ==
    \/ Reserve \/ Confirm \/ Cancel
    \/ \E d \in Datagram : Fill(d)
    \/ Peek \/ Pop

RingSpec == RingInit /\ [][RingNext]_ringVars

(* The ring used as its comments ask: no call that is answered with an     *)
(* error, so one reservation at a time, confirmed or cancelled once.       *)
LegalNext == RingNext /\ producer' # "error"
LegalSpec == RingInit /\ [][LegalNext]_ringVars
-----------------------------------------------------------------------------
(* Properties                                                              *)

(* The slots that hold data, in the order they are handed to the disk.     *)
DataSlot(i) == (baseData + i) % MAX_BLOCKS_QUEUED
DataSlots == {DataSlot(i) : i \in 0 .. countData - 1}

RingTypeOK ==
    /\ datagrams \in [Slot -> Datagram \union {Zeroed}]
    /\ baseData \in Slot
    /\ countData \in Nat /\ countReserved \in -1 .. 2
    /\ dataReady \in BOOLEAN /\ spaceReady \in BOOLEAN
    /\ next \in Slot /\ address \in Nat
    /\ producer \in {"running", "blocked", "error"}
    /\ consumer \in {"idle", "peekWait", "peekWoken", "popWait", "popWoken"}

(* The two flags the threads sleep on say exactly what the counters say:   *)
(* dataReady that a slot holds data, spaceReady that a slot is free.  The  *)
(* code keeps flags and counters apart and updates the flags by cases (a   *)
(* full ring is found by index arithmetic in reserve, an empty one by the  *)
(* counter in pop, cancel sets spaceReady blindly).                        *)
FlagsAgree ==
    producer # "error" =>
        /\ dataReady <=> countData > 0
        /\ spaceReady <=> countData + countReserved < MAX_BLOCKS_QUEUED

(* A slot handed to the network thread never holds a datagram the disk     *)
(* thread has not popped, whatever ran between the computation of the slot *)
(* and the copy into it: confirmed data is never overwritten.              *)
ReservedSlotIsFree ==
    producer = "running" /\ countReserved = 1 => next \notin DataSlots

(* The slot reserve() computed before its wait is still the right one when *)
(* other calls have run in the meantime: pop moves the base and the count  *)
(* so that their sum designates the same slot.                             *)
SlotComputedStaysRight ==
    /\ producer = "blocked" => next = NextSlot
    /\ producer = "running" /\ countReserved = 1
           => next = DataSlot(countData)

(* The disk thread never sleeps while data is ready: confirm() wakes it.   *)
NoLostDataWakeup ==
    producer # "error" =>
        (consumer \in {"peekWait", "popWait"} => countData = 0)

(* Used legally, the ring is a bounded queue: the slots with data, from    *)
(* the base on, change only as a FIFO of MAX_BLOCKS_QUEUED entries does.   *)
(* A call confirmed without a copy queues what the slot held before.       *)
Contents == [i \in 1 .. countData |-> datagrams[DataSlot(i - 1)]]

Fifo == INSTANCE BoundedFifo WITH Capacity <- MAX_BLOCKS_QUEUED,
                                  Datagram <- Datagram \union {Zeroed},
                                  queue    <- Contents
FifoSpec == Fifo!Spec
=============================================================================

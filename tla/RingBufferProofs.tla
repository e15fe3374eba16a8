-------------------------- MODULE RingBufferProofs --------------------------
(***************************************************************************)
(* Proofs about RingBuffer for every number of slots: the flags agree with *)
(* the counters, confirmed data is never overwritten, a slot computed      *)
(* before a wait is right after it, the disk thread misses no wake-up, and *)
(* the ring used legally implements a bounded FIFO.                        *)
(***************************************************************************)
EXTENDS RingBuffer, SequenceTheorems, TLAPS

N == MAX_BLOCKS_QUEUED

(* The modulus on the numbers the ring adds up, all below twice N.         *)
LEMMA ModSmall ==
    ASSUME NEW a \in 0 .. N - 1
    PROVE  a % N = a
  BY RingAssumption DEF N

(* Beyond N, the modulus takes N off once.                                 *)
LEMMA ModWrap ==
    ASSUME NEW a \in N .. 2 * N - 1
    PROVE  a % N = a - N
  BY RingAssumption DEF N

(* One turn of the base and one element less designate the same tail.      *)
LEMMA TailStays ==
    ASSUME NEW b \in 0 .. N - 1, NEW c \in 1 .. N
    PROVE  (((b + 1) % N) + (c - 1)) % N = (b + c) % N
  <1>1. CASE b + 1 < N
    <2>1. (b + 1) % N = b + 1
      BY <1>1, ModSmall, RingAssumption DEF N
    <2> QED  BY <2>1, RingAssumption DEF N
  <1>2. CASE b + 1 = N
    <2>1. (b + 1) % N = 0
      BY <1>2, ModWrap, RingAssumption DEF N
    <2>2. (c - 1) % N = c - 1
      BY ModSmall, RingAssumption DEF N
    <2>3. (b + c) % N = b + c - N
      BY <1>2, ModWrap, RingAssumption DEF N
    <2> QED  BY <1>2, <2>1, <2>2, <2>3, RingAssumption DEF N
  <1> QED  BY <1>1, <1>2, RingAssumption DEF N

(* Two distances below N from the same base are different slots.           *)
LEMMA SlotsDiffer ==
    ASSUME NEW b \in 0 .. N - 1, NEW i \in 0 .. N - 1, NEW j \in 0 .. N - 1,
           i # j
    PROVE  (b + i) % N # (b + j) % N
  <1>1. (b + i) % N = IF b + i < N THEN b + i ELSE b + i - N
    BY ModSmall, ModWrap, RingAssumption DEF N
  <1>2. (b + j) % N = IF b + j < N THEN b + j ELSE b + j - N
    BY ModSmall, ModWrap, RingAssumption DEF N
  <1> QED  BY <1>1, <1>2, RingAssumption DEF N

(* The slot after the one at distance i is the base again exactly when the *)
(* distance is N - 1: this is how reserve() notices that the ring is full. *)
LEMMA FullTest ==
    ASSUME NEW b \in 0 .. N - 1, NEW i \in 0 .. N - 1
    PROVE  (((b + i) % N) + 1) % N = b <=> i = N - 1
  <1> DEFINE s == (b + i) % N
  <1>1. s = IF b + i < N THEN b + i ELSE b + i - N
    BY ModSmall, ModWrap, RingAssumption DEF N
  <1>2. s \in 0 .. N - 1
    BY <1>1, RingAssumption DEF N
  <1>3. (s + 1) % N = IF s + 1 < N THEN s + 1 ELSE 0
    <2>1. CASE s + 1 < N
      BY <1>2, <2>1, ModSmall, RingAssumption DEF N
    <2>2. CASE s + 1 = N
      BY <1>2, <2>2, ModWrap, RingAssumption DEF N
    <2> QED  BY <1>2, <2>1, <2>2, RingAssumption DEF N
  <1> HIDE DEF s
  <1>4. (s + 1) % N = b <=> i = N - 1
    BY <1>1, <1>2, <1>3, RingAssumption DEF N
  <1> QED  BY <1>4 DEF s
-----------------------------------------------------------------------------
(* The inductive invariant.                                                *)

(* Until an error, the counters stay within the ring.  After one a raised  *)
(* counter may be off, but dataReady still vouches for at least one slot,  *)
(* so that pop() never takes the counter below zero.                       *)
Counters ==
    /\ dataReady => countData > 0
    /\ producer # "error" =>
          /\ countReserved \in {0, 1}
          /\ countData + countReserved <= MAX_BLOCKS_QUEUED

IInv == RingTypeOK /\ Counters /\ FlagsAgree /\ SlotComputedStaysRight
          /\ NoLostDataWakeup

(* NewRingBuffer leaves an empty, consistent ring.                         *)
THEOREM InitIInv == RingInit => IInv
  <1> SUFFICES ASSUME RingInit PROVE IInv
    OBVIOUS
  <1>1. RingTypeOK
    <2>1. datagrams \in [Slot -> Datagram \union {Zeroed}]
      BY RingAssumption DEF RingInit, Slot
    <2>2. baseData \in Slot /\ next \in Slot /\ address \in Nat
      BY RingAssumption DEF RingInit, Slot
    <2>3. countData \in Nat /\ countReserved \in -1 .. 2
      BY RingAssumption DEF RingInit, Slot
    <2>4. dataReady \in BOOLEAN /\ spaceReady \in BOOLEAN
      BY RingAssumption DEF RingInit, Slot
    <2>5. producer \in {"running", "blocked", "error"}
      BY RingAssumption DEF RingInit, Slot
    <2>6. consumer \in {"idle", "peekWait", "peekWoken", "popWait", "popWoken"}
      BY RingAssumption DEF RingInit, Slot
    <2> QED  BY <2>1, <2>2, <2>3, <2>4, <2>5, <2>6 DEF RingTypeOK
  <1>2. Counters /\ FlagsAgree /\ SlotComputedStaysRight /\ NoLostDataWakeup
    BY RingAssumption
       DEF RingInit, Counters, FlagsAgree, SlotComputedStaysRight, NoLostDataWakeup
  <1> QED  BY <1>1, <1>2 DEF IInv

(* reserve(): it sleeps, or finds a slot reserved already, or claims one.  *)
LEMMA ReserveKeepsIInv == IInv /\ Reserve => IInv'
  <1> SUFFICES ASSUME IInv, Reserve PROVE IInv'
    OBVIOUS
  <1> USE RingAssumption DEF N
  <1>1. /\ countData \in 0 .. N /\ countReserved \in {0, 1}
        /\ countData + countReserved <= N
        /\ baseData \in 0 .. N - 1
        /\ dataReady \in BOOLEAN /\ spaceReady \in BOOLEAN
        /\ dataReady <=> countData > 0
        /\ spaceReady <=> countData + countReserved < N
    BY DEF IInv, Reserve, RingTypeOK, Counters, FlagsAgree, Slot
  <1>2. /\ next' = NextSlot
        /\ datagrams' = datagrams /\ baseData' = baseData
        /\ countData' = countData /\ dataReady' = dataReady
        /\ consumer' = consumer /\ address' = address
    BY DEF Reserve
  <1>3. \/ /\ ~spaceReady /\ producer' = "blocked"
           /\ countReserved' = countReserved /\ spaceReady' = spaceReady
        \/ /\ spaceReady /\ countReserved = 1 /\ producer' = "error"
           /\ countReserved' = 2 /\ spaceReady' = spaceReady
        \/ /\ spaceReady /\ countReserved = 0 /\ producer' = "running"
           /\ countReserved' = 1 /\ spaceReady' \in BOOLEAN
           /\ spaceReady' <=> countData < N - 1
    <2>1. CASE ~spaceReady
      BY <2>1 DEF Reserve
    <2>2. CASE spaceReady /\ countReserved = 1
      BY <2>2 DEF Reserve, ClaimSlot
    <2>3. CASE spaceReady /\ countReserved = 0
      <3>1. countData \in 0 .. N - 1
        BY <1>1, <2>3
      <3>2. (((baseData + countData) % N) + 1) % N = baseData <=> countData = N - 1
        BY <1>1, <3>1, FullTest
      <3>3. SlotAfter(NextSlot) = baseData <=> countData = N - 1
        BY <1>1, <2>3, <3>2 DEF SlotAfter, NextSlot
      <3>4. ClaimSlot(NextSlot)
        BY <2>3 DEF Reserve
      <3>5. countReserved' = 1 /\ producer' = "running"
        BY <2>3, <3>4 DEF ClaimSlot
      <3>6. SlotAfter(NextSlot) = baseData => ~spaceReady'
        BY <2>3, <3>4 DEF ClaimSlot
      <3>7. SlotAfter(NextSlot) # baseData => spaceReady'
        BY <2>3, <3>4 DEF ClaimSlot
      <3>8. spaceReady' \in BOOLEAN
        BY <1>1, <2>3, <3>4 DEF ClaimSlot
      <3>9. spaceReady' <=> countData < N - 1
        BY <3>1, <3>3, <3>6, <3>7
      <3> QED  BY <2>3, <3>5, <3>8, <3>9
    <2> QED  BY <1>1, <2>1, <2>2, <2>3
  <1>4. RingTypeOK'
    <2>1. NextSlot \in Slot
      BY <1>1 DEF NextSlot, Slot
    <2>2. datagrams' \in [Slot -> Datagram \union {Zeroed}]
      BY <1>2 DEF IInv, RingTypeOK
    <2>3. baseData' \in Slot /\ next' \in Slot /\ address' \in Nat
      BY <1>2, <2>1 DEF IInv, RingTypeOK
    <2>4. countData' \in Nat /\ countReserved' \in -1 .. 2
      BY <1>1, <1>2, <1>3
    <2>5. dataReady' \in BOOLEAN /\ spaceReady' \in BOOLEAN
      BY <1>1, <1>2, <1>3
    <2>6. producer' \in {"running", "blocked", "error"}
      BY <1>3
    <2>7. consumer' \in {"idle", "peekWait", "peekWoken", "popWait", "popWoken"}
      BY <1>2 DEF IInv, RingTypeOK
    <2> QED  BY <2>2, <2>3, <2>4, <2>5, <2>6, <2>7 DEF RingTypeOK
  <1>5. Counters'
    BY <1>1, <1>2, <1>3 DEF Counters
  <1>6. FlagsAgree'
    BY <1>1, <1>2, <1>3 DEF FlagsAgree
  <1>7. SlotComputedStaysRight'
    BY <1>1, <1>2, <1>3 DEF SlotComputedStaysRight, NextSlot, DataSlot
  <1>8. NoLostDataWakeup'
    BY <1>2 DEF IInv, NoLostDataWakeup, Reserve
  <1> QED  BY <1>4, <1>5, <1>6, <1>7, <1>8 DEF IInv

(* confirm(): the reserved slot becomes the last one with data, and a      *)
(* sleeping disk thread is woken; without a reservation it is an error.    *)
LEMMA ConfirmKeepsIInv == IInv /\ Confirm => IInv'
  <1> SUFFICES ASSUME IInv, Confirm PROVE IInv'
    OBVIOUS
  <1> USE RingAssumption DEF IInv, Confirm, SignalData
  <1>1. RingTypeOK'
    <2>1. datagrams' \in [Slot -> Datagram \union {Zeroed}]
      BY DEF RingTypeOK, Counters
    <2>2. baseData' \in Slot /\ next' \in Slot /\ address' \in Nat
      BY DEF RingTypeOK, Counters
    <2>3. countData' \in Nat /\ countReserved' \in -1 .. 2
      BY DEF RingTypeOK, Counters
    <2>4. dataReady' \in BOOLEAN /\ spaceReady' \in BOOLEAN
      BY DEF RingTypeOK, Counters
    <2>5. producer' \in {"running", "blocked", "error"}
      BY DEF RingTypeOK, Counters
    <2>6. consumer' \in {"idle", "peekWait", "peekWoken", "popWait", "popWoken"}
      BY DEF RingTypeOK, Counters
    <2> QED  BY <2>1, <2>2, <2>3, <2>4, <2>5, <2>6 DEF RingTypeOK
  <1>2. Counters' /\ FlagsAgree'
    BY DEF Counters, FlagsAgree, RingTypeOK
  <1>3. SlotComputedStaysRight'
    BY DEF SlotComputedStaysRight, Counters
  <1>4. NoLostDataWakeup'
    BY DEF NoLostDataWakeup, RingTypeOK
  <1> QED  BY <1>1, <1>2, <1>3, <1>4

(* cancel(): the reserved slot is free again.                              *)
LEMMA CancelKeepsIInv == IInv /\ Cancel => IInv'
  <1> SUFFICES ASSUME IInv, Cancel PROVE IInv'
    OBVIOUS
  <1> USE RingAssumption DEF IInv, Cancel
  <1>1. RingTypeOK'
    <2>1. datagrams' \in [Slot -> Datagram \union {Zeroed}]
      BY DEF RingTypeOK, Counters
    <2>2. baseData' \in Slot /\ next' \in Slot /\ address' \in Nat
      BY DEF RingTypeOK, Counters
    <2>3. countData' \in Nat /\ countReserved' \in -1 .. 2
      BY DEF RingTypeOK, Counters
    <2>4. dataReady' \in BOOLEAN /\ spaceReady' \in BOOLEAN
      BY DEF RingTypeOK, Counters
    <2>5. producer' \in {"running", "blocked", "error"}
      BY DEF RingTypeOK, Counters
    <2>6. consumer' \in {"idle", "peekWait", "peekWoken", "popWait", "popWoken"}
      BY DEF RingTypeOK, Counters
    <2> QED  BY <2>1, <2>2, <2>3, <2>4, <2>5, <2>6 DEF RingTypeOK
  <1>2. Counters' /\ FlagsAgree'
    BY DEF Counters, FlagsAgree, RingTypeOK
  <1>3. SlotComputedStaysRight' /\ NoLostDataWakeup'
    BY DEF SlotComputedStaysRight, Counters, NoLostDataWakeup
  <1> QED  BY <1>1, <1>2, <1>3

(* The copy into a slot changes no index, counter or flag.                 *)
LEMMA FillKeepsIInv == ASSUME NEW d \in Datagram PROVE IInv /\ Fill(d) => IInv'
  <1> SUFFICES ASSUME IInv, Fill(d) PROVE IInv'
    OBVIOUS
  <1> USE DEF IInv, Fill
  <1>1. RingTypeOK'
    <2>1. datagrams' \in [Slot -> Datagram \union {Zeroed}]
      BY DEF RingTypeOK
    <2>2. baseData' \in Slot /\ next' \in Slot /\ address' \in Nat
      BY DEF RingTypeOK
    <2>3. countData' \in Nat /\ countReserved' \in -1 .. 2
      BY DEF RingTypeOK
    <2>4. dataReady' \in BOOLEAN /\ spaceReady' \in BOOLEAN
      BY DEF RingTypeOK
    <2>5. producer' \in {"running", "blocked", "error"}
      BY DEF RingTypeOK
    <2>6. consumer' \in {"idle", "peekWait", "peekWoken", "popWait", "popWoken"}
      BY DEF RingTypeOK
    <2> QED  BY <2>1, <2>2, <2>3, <2>4, <2>5, <2>6 DEF RingTypeOK
  <1>2. Counters' /\ FlagsAgree' /\ NoLostDataWakeup'
    BY DEF Counters, FlagsAgree, NoLostDataWakeup
  <1>3. SlotComputedStaysRight'
    BY DEF SlotComputedStaysRight, NextSlot, DataSlot
  <1> QED  BY <1>1, <1>2, <1>3

(* peek() changes where the disk thread stands and nothing else.           *)
LEMMA PeekKeepsIInv == IInv /\ Peek => IInv'
  <1> SUFFICES ASSUME IInv, Peek PROVE IInv'
    OBVIOUS
  <1> USE RingAssumption DEF IInv, Peek
  <1>1. RingTypeOK'
    <2>1. datagrams' \in [Slot -> Datagram \union {Zeroed}]
      BY DEF RingTypeOK, PeekOffset, Slot
    <2>2. baseData' \in Slot /\ next' \in Slot /\ address' \in Nat
      BY DEF RingTypeOK, PeekOffset, Slot
    <2>3. countData' \in Nat /\ countReserved' \in -1 .. 2
      BY DEF RingTypeOK, PeekOffset, Slot
    <2>4. dataReady' \in BOOLEAN /\ spaceReady' \in BOOLEAN
      BY DEF RingTypeOK, PeekOffset, Slot
    <2>5. producer' \in {"running", "blocked", "error"}
      BY DEF RingTypeOK, PeekOffset, Slot
    <2>6. consumer' \in {"idle", "peekWait", "peekWoken", "popWait", "popWoken"}
      BY DEF RingTypeOK, PeekOffset, Slot
    <2> QED  BY <2>1, <2>2, <2>3, <2>4, <2>5, <2>6 DEF RingTypeOK
  <1>2. Counters' /\ FlagsAgree'
    BY DEF Counters, FlagsAgree
  <1>3. SlotComputedStaysRight'
    BY DEF SlotComputedStaysRight, NextSlot, DataSlot
  <1>4. NoLostDataWakeup'
    BY DEF NoLostDataWakeup, FlagsAgree, RingTypeOK
  <1> QED  BY <1>1, <1>2, <1>3, <1>4

(* pop() moves the base and the counter so that their sum stays.           *)
LEMMA PopKeepsIInv == IInv /\ Pop => IInv'
  <1> SUFFICES ASSUME IInv, Pop PROVE IInv'
    OBVIOUS
  <1> USE RingAssumption DEF N
  <1>1. /\ countData \in Nat /\ countReserved \in -1 .. 2
        /\ baseData \in 0 .. N - 1
        /\ dataReady \in BOOLEAN /\ spaceReady \in BOOLEAN
        /\ dataReady => countData > 0
        /\ producer # "error" => /\ countReserved \in {0, 1}
                                 /\ countData + countReserved <= N
                                 /\ dataReady <=> countData > 0
                                 /\ spaceReady <=> countData + countReserved < N
    BY DEF IInv, RingTypeOK, Counters, FlagsAgree, Slot
  <1>2. /\ datagrams' = datagrams /\ countReserved' = countReserved
        /\ next' = next /\ producer' = producer /\ address' = address
    BY DEF Pop
  <1>3. CASE ~dataReady
    <2>1. /\ baseData' = baseData /\ countData' = countData
          /\ dataReady' = dataReady /\ spaceReady' = spaceReady
          /\ consumer' = "popWait"
      BY <1>3 DEF Pop
    <2>2. RingTypeOK'
      BY <1>2, <2>1 DEF IInv, RingTypeOK
    <2>3. Counters' /\ FlagsAgree' /\ SlotComputedStaysRight'
      BY <1>2, <2>1 DEF IInv, Counters, FlagsAgree, SlotComputedStaysRight,
                        NextSlot, DataSlot
    <2>4. NoLostDataWakeup'
      BY <1>1, <1>2, <1>3, <2>1 DEF NoLostDataWakeup
    <2> QED  BY <2>2, <2>3, <2>4 DEF IInv
  <1>4. CASE dataReady
    <2>1. /\ baseData' = (baseData + 1) % N /\ countData' = countData - 1
          /\ dataReady' = IF countData' = 0 THEN FALSE ELSE TRUE
          /\ spaceReady' = TRUE /\ consumer' = "idle"
      BY <1>4 DEF Pop, SlotAfter
    <2>2. countData' \in Nat /\ (dataReady' <=> countData' > 0)
      BY <1>1, <1>4, <2>1
    <2>3. RingTypeOK'
      <3>1. baseData' \in Slot
        BY <1>1, <2>1 DEF Slot
      <3>2. dataReady' \in BOOLEAN /\ spaceReady' \in BOOLEAN
        BY <2>1
      <3>3. consumer' \in {"idle", "peekWait", "peekWoken", "popWait", "popWoken"}
        BY <2>1
      <3> QED  BY <1>2, <2>2, <3>1, <3>2, <3>3 DEF IInv, RingTypeOK
    <2>4. Counters' /\ FlagsAgree'
      BY <1>1, <1>2, <2>1, <2>2 DEF Counters, FlagsAgree
    <2>5. SlotComputedStaysRight'
      <3>1. CASE producer = "error"
        BY <1>2, <3>1 DEF SlotComputedStaysRight
      <3>2. CASE producer # "error"
        <4>1. countData \in 1 .. N /\ countData + countReserved \in 1 .. N
          BY <1>1, <1>4, <3>2
        <4>2. DataSlot(countData)' = DataSlot(countData)
          BY <1>1, <2>1, <4>1, TailStays DEF DataSlot
        <4>3. (((baseData + 1) % N) + (countData + countReserved - 1)) % N
                = (baseData + (countData + countReserved)) % N
          BY <1>1, <4>1, TailStays
        <4>4. NextSlot' = NextSlot
          BY <1>1, <1>2, <2>1, <4>3 DEF NextSlot
        <4> QED  BY <1>2, <4>2, <4>4 DEF IInv, SlotComputedStaysRight
      <3> QED  BY <3>1, <3>2
    <2>6. NoLostDataWakeup'
      BY <2>1 DEF NoLostDataWakeup
    <2> QED  BY <2>3, <2>4, <2>5, <2>6 DEF IInv
  <1> QED  BY <1>1, <1>3, <1>4

(* Every call on the ring, by either thread, keeps the invariant.          *)
LEMMA StepKeepsIInv == IInv /\ [RingNext]_ringVars => IInv'
  <1> SUFFICES ASSUME IInv, [RingNext]_ringVars PROVE IInv'
    OBVIOUS
  <1>1. CASE UNCHANGED ringVars
    BY <1>1 DEF ringVars, IInv, RingTypeOK, Counters, FlagsAgree, NextSlot, DataSlot,
               SlotComputedStaysRight, NoLostDataWakeup
  <1>2. CASE RingNext
    BY <1>2, ReserveKeepsIInv, ConfirmKeepsIInv, CancelKeepsIInv, FillKeepsIInv,
       PeekKeepsIInv, PopKeepsIInv DEF RingNext
  <1> QED  BY <1>1, <1>2

(* So the invariant holds in every reachable state.                        *)
LEMMA RingInductive == RingSpec => []IInv
  BY InitIInv, StepKeepsIInv, PTL DEF RingSpec
-----------------------------------------------------------------------------
(* The properties of RingBuffer, for every number of slots.                *)

(* Every variable keeps its type, whatever calls the threads make.         *)
THEOREM TypeCorrect == RingSpec => []RingTypeOK
  <1>1. IInv => RingTypeOK
    BY DEF IInv
  <1> QED  BY RingInductive, <1>1, PTL

(* Flags and counters never disagree (pop, reserve, confirm and cancel     *)
(* update them separately).                                                *)
THEOREM FlagsCorrect == RingSpec => []FlagsAgree
  <1>1. IInv => FlagsAgree
    BY DEF IInv
  <1> QED  BY RingInductive, <1>1, PTL

(* The slot reserve() computed before its wait is right after the wait.    *)
THEOREM SlotCorrect == RingSpec => []SlotComputedStaysRight
  <1>1. IInv => SlotComputedStaysRight
    BY DEF IInv
  <1> QED  BY RingInductive, <1>1, PTL

(* confirm() always wakes a disk thread that sleeps.                       *)
THEOREM DiskNeverMissesData == RingSpec => []NoLostDataWakeup
  <1>1. IInv => NoLostDataWakeup
    BY DEF IInv
  <1> QED  BY RingInductive, <1>1, PTL

(* Confirmed data is never overwritten: the reserved slot lies at distance *)
(* countData of the base, the data at the distances below, and all of them *)
(* are below the number of slots.                                          *)
THEOREM NoOverwrite == RingSpec => []ReservedSlotIsFree
  <1>1. IInv => ReservedSlotIsFree
    <2> SUFFICES ASSUME IInv, producer = "running", countReserved = 1,
                        NEW i \in 0 .. countData - 1
                 PROVE  next # DataSlot(i)
      BY DEF ReservedSlotIsFree, DataSlots
    <2>1. /\ baseData \in 0 .. N - 1 /\ countData \in 0 .. N - 1
          /\ next = DataSlot(countData)
      BY RingAssumption DEF IInv, RingTypeOK, Counters, Slot, N, SlotComputedStaysRight
    <2>2. i \in 0 .. N - 1 /\ i # countData
      BY <2>1, RingAssumption DEF N
    <2> QED  BY <2>1, <2>2, SlotsDiffer DEF DataSlot, N
  <1> QED  BY RingInductive, <1>1, PTL
-----------------------------------------------------------------------------
(* The refinement.                                                         *)

(* What the abstract queue holds is a sequence of slots' contents.         *)
LEMMA ContentsIsSeq ==
    ASSUME IInv
    PROVE  Contents \in Seq(Datagram \union {Zeroed}) /\ Len(Contents) = countData
  <1>1. countData \in Nat /\ datagrams \in [Slot -> Datagram \union {Zeroed}]
    BY DEF IInv, RingTypeOK
  <1>2. \A i \in 1 .. countData : DataSlot(i - 1) \in Slot
    BY <1>1, RingAssumption DEF DataSlot, Slot, IInv, RingTypeOK
  <1> QED  BY <1>1, <1>2 DEF Contents

(* A step that leaves base, counter and the slots with data alone does not *)
(* change the queue; filling the reserved slot is such a step.             *)
LEMMA FillKeepsContents ==
    ASSUME IInv, NEW d \in Datagram, Fill(d)
    PROVE  Contents' = Contents
  <1>1. /\ baseData \in 0 .. N - 1 /\ countData \in 0 .. N - 1
        /\ next = DataSlot(countData)
    BY RingAssumption DEF Fill, IInv, RingTypeOK, Counters, Slot, N, SlotComputedStaysRight
  <1>2. /\ baseData' = baseData /\ countData' = countData
        /\ datagrams' = [datagrams EXCEPT ![next] = d]
    BY DEF Fill
  <1>3. ASSUME NEW i \in 1 .. countData
        PROVE  datagrams'[DataSlot(i - 1)] = datagrams[DataSlot(i - 1)]
    <2>1. i - 1 \in 0 .. N - 1 /\ i - 1 # countData
      BY <1>1, RingAssumption DEF N
    <2>2. DataSlot(i - 1) # next
      BY <1>1, <2>1, SlotsDiffer DEF DataSlot, N
    <2>3. DataSlot(i - 1) \in Slot
      BY <1>1, RingAssumption DEF DataSlot, Slot, N
    <2> QED  BY <1>2, <2>2, <2>3 DEF IInv, RingTypeOK
  <1> QED  BY <1>2, <1>3 DEF Contents, DataSlot

(* Outside an error, confirm() appends the reserved slot to the queue.     *)
LEMMA ConfirmAppends ==
    ASSUME IInv, Confirm, producer' # "error"
    PROVE  \E d \in Datagram \union {Zeroed} : Fifo!Put(d)
  <1> DEFINE d == datagrams[DataSlot(countData)]
  <1>1. /\ countData \in 0 .. N - 1 /\ baseData \in 0 .. N - 1
        /\ baseData' = baseData /\ countData' = countData + 1
        /\ datagrams' = datagrams
    BY RingAssumption DEF Confirm, IInv, RingTypeOK, Counters, Slot, N
  <1>2. d \in Datagram \union {Zeroed}
    <2>1. DataSlot(countData) \in Slot
      BY <1>1, RingAssumption DEF DataSlot, Slot, N
    <2> QED  BY <2>1 DEF IInv, RingTypeOK
  <1>3. Len(Contents) < MAX_BLOCKS_QUEUED
    BY <1>1, ContentsIsSeq, RingAssumption DEF N
  <1>4. Contents' = Append(Contents, d)
    <2>1. Contents' = [i \in 1 .. countData + 1 |-> datagrams[DataSlot(i - 1)]]
      BY <1>1 DEF Contents, DataSlot
    <2>2. Append(Contents, d) = [i \in 1 .. countData + 1 |->
                                    IF i = countData + 1 THEN d ELSE Contents[i]]
      BY <1>1, ContentsIsSeq
    <2>3. \A i \in 1 .. countData : Contents[i] = datagrams[DataSlot(i - 1)]
      BY DEF Contents
    <2> QED  BY <1>1, <2>1, <2>2, <2>3
  <1> HIDE DEF d
  <1> QED  BY <1>2, <1>3, <1>4 DEF Fifo!Put

(* pop() takes the first element.                                          *)
LEMMA PopTakes ==
    ASSUME IInv, Pop, producer # "error"
    PROVE  Fifo!Take \/ Contents' = Contents
  <1>1. /\ countData \in 0 .. N /\ baseData \in 0 .. N - 1
        /\ dataReady <=> countData > 0
    BY RingAssumption DEF IInv, RingTypeOK, Counters, FlagsAgree, Slot, N
  <1>2. CASE ~dataReady
    BY <1>2 DEF Pop, Contents, DataSlot
  <1>3. CASE dataReady
    <2>1. /\ baseData' = (baseData + 1) % N /\ countData' = countData - 1
          /\ datagrams' = datagrams /\ countData \in 1 .. N
      BY <1>1, <1>3 DEF Pop, SlotAfter, N
    <2>2. Contents # << >>
      BY <2>1, ContentsIsSeq
    <2>3. ASSUME NEW i \in 1 .. countData - 1
          PROVE  (((baseData + 1) % N) + (i - 1)) % N = (baseData + i) % N
      <3>1. i \in 1 .. N
        BY <2>1, RingAssumption DEF N
      <3> QED  BY <1>1, <3>1, TailStays
    <2>4. Contents' = [i \in 1 .. countData - 1 |-> datagrams[(baseData + i) % N]]
      BY <2>1, <2>3 DEF Contents, DataSlot, N
    <2>5. /\ Tail(Contents) \in Seq(Datagram \union {Zeroed})
          /\ Len(Tail(Contents)) = countData - 1
          /\ \A i \in 1 .. countData - 1 : Tail(Contents)[i] = Contents[i + 1]
      BY <2>2, ContentsIsSeq, HeadTailProperties
    <2>6. \A i \in 1 .. countData - 1 : Contents[i + 1] = datagrams[(baseData + i) % N]
      BY <2>1 DEF Contents, DataSlot, N
    <2>7. Contents' = Tail(Contents)
      <3>1. Tail(Contents) \in [1 .. countData - 1 -> Datagram \union {Zeroed}]
        <4> DEFINE t == Tail(Contents)
        <4>1. t \in Seq(Datagram \union {Zeroed})
          BY <2>5
        <4> HIDE DEF t
        <4>2. t \in [1 .. Len(t) -> Datagram \union {Zeroed}]
          BY <4>1, LenProperties
        <4> QED  BY <2>5, <4>2 DEF t
      <3> QED  BY <2>4, <2>5, <2>6, <3>1
    <2> QED  BY <2>2, <2>7 DEF Fifo!Take
  <1> QED  BY <1>1, <1>2, <1>3 DEF IInv, RingTypeOK

(* The ring used legally implements the bounded queue: every step is one   *)
(* of the queue or leaves it as it is.                                     *)
THEOREM RingImplementsFifo == LegalSpec => FifoSpec
  <1>1. RingInit => Fifo!Init
    BY DEF RingInit, Fifo!Init, Contents
  <1>2. IInv /\ [LegalNext]_ringVars => IInv'
    BY StepKeepsIInv DEF LegalNext
  <1>3. IInv /\ [LegalNext]_ringVars => [Fifo!Next]_Contents
    <2> SUFFICES ASSUME IInv, [LegalNext]_ringVars
                 PROVE  Fifo!Next \/ Contents' = Contents
      OBVIOUS
    <2>1. CASE UNCHANGED ringVars
      BY <2>1 DEF ringVars, Contents, DataSlot
    <2>2. CASE Reserve \/ Cancel \/ Peek
      BY <2>2 DEF Reserve, Cancel, Peek, Contents, DataSlot
    <2>3. CASE Confirm /\ producer' # "error"
      BY <2>3, ConfirmAppends DEF Fifo!Next
    <2>4. ASSUME NEW d \in Datagram, Fill(d) PROVE Contents' = Contents
      BY <2>4, FillKeepsContents
    <2>5. CASE Pop /\ producer' # "error"
      BY <2>5, PopTakes DEF Fifo!Next, Pop
    <2> QED  BY <2>1, <2>2, <2>3, <2>4, <2>5 DEF LegalNext, RingNext
  <1> QED  BY <1>1, <1>2, <1>3, InitIInv, PTL DEF LegalSpec, FifoSpec, Fifo!Spec
=============================================================================

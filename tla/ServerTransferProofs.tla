------------------------ MODULE ServerTransferProofs ------------------------
(***************************************************************************)
(* Proofs about ServerTransfer for every size of file, block and request   *)
(* and for any number of requests: however TCP cuts them they are decoded  *)
(* whole and in order, a round is complete when its end is announced, and  *)
(* the code's monitoring of the heartbeat is never reached.                *)
(***************************************************************************)
EXTENDS ServerTransfer, TLAPS

R == SIZE_OF_RETRANSMISSION_T

(* Arithmetic.                                                             *)
LEMMA MinOfTwo ==
    ASSUME NEW a \in Int, NEW b \in Int
    PROVE  /\ Min({a, b}) \in {a, b}
           /\ Min({a, b}) <= a /\ Min({a, b}) <= b
  <1>1. \E x \in {a, b} : \A y \in {a, b} : x <= y
    OBVIOUS
  <1> QED BY <1>1 DEF Min

LEMMA Times == ASSUME NEW a \in Int, NEW b \in Int PROVE a * b \in Int
  BY SMT

LEMMA TimesNext ==
    ASSUME NEW a \in Nat, NEW b \in Int
    PROVE  /\ a * (b + 1) = a * b + a /\ a * (b - 1) = a * b - a
           /\ b \in Nat => a * b \in Nat
  BY SMT

LEMMA TimesUpTo ==
    ASSUME NEW a \in Nat, NEW b \in Int, NEW c \in Int, b <= c
    PROVE  a * b <= a * c
  BY SMT

LEMMA Div ==
    ASSUME NEW a \in Nat, NEW b \in Nat \ {0}
    PROVE  /\ a \div b \in Nat
           /\ b * (a \div b) <= a /\ a < b * (a \div b) + b
  BY Z3

LEMMA DivExact ==
    ASSUME NEW a \in Nat, NEW b \in Nat \ {0}
    PROVE  (b * a) \div b = a
  BY Z3

LEMMA Mod ==
    ASSUME NEW a \in Int, NEW b \in Nat \ {0}
    PROVE  a % b \in Nat /\ (0 <= a /\ a < b => a % b = a)
  BY Z3

(* The blocks cover the file.                                              *)
LEMMA BlockCount ==
    /\ block_count \in Nat \ {0}
    /\ block_size * (block_count - 1) < file_size
  <1> DEFINE a == file_size + block_size - 1
  <1>1. a \in Nat /\ block_size \in Nat \ {0} /\ file_size \in Nat \ {0}
    BY ServerAssumption
  <1>2. /\ block_count \in Nat
        /\ block_size * block_count <= a /\ a < block_size * block_count + block_size
    BY <1>1, Div DEF block_count
  <1>3. /\ block_size * (block_count - 1) = block_size * block_count - block_size
        /\ block_size * block_count \in Nat
    BY <1>1, <1>2, TimesNext
  <1>4. block_count # 0
    <2> SUFFICES ASSUME block_count = 0 PROVE FALSE
      OBVIOUS
    <2>1. block_size * block_count = 0
      BY <1>1
    <2> QED BY <2>1, <1>1, <1>2
  <1> QED BY <1>1, <1>2, <1>3, <1>4
-----------------------------------------------------------------------------
(* Types.                                                                  *)

LEMMA NextBlockType == ASSUME block \in {0} \union Blocks PROVE NextBlock \in Blocks
  <1>1. block + 1 \in Int /\ block_count \in Int /\ block \in Nat /\ block_count >= 1
    BY BlockCount DEF Blocks
  <1> DEFINE m == Min({block + 1, block_count})
  <1>2. m \in {block + 1, block_count} /\ m <= block_count
    BY <1>1, MinOfTwo
  <1> HIDE DEF m
  <1>3. m \in Blocks
    BY <1>1, <1>2 DEF Blocks
  <1> QED BY <1>3 DEF NextBlock, m

LEMMA SeekOffsetType ==
    ASSUME NEW b \in Nat, offset \in Nat
    PROVE  SeekOffset(b) \in Nat
  <1>1. block_size * (b - 1) \in Int
    BY Times, ServerAssumption
  <1> QED BY <1>1, Mod, ServerAssumption DEF SeekOffset

LEMMA BuildTypes ==
    ASSUME TypeOK, NEW b \in Nat, Build(b) \/ BuildFails(b)
    PROVE  last_block' \in Nat /\ offset' \in Nat
  <1>1. SeekOffset(b) \in Nat
    BY SeekOffsetType DEF TypeOK
  <1>2. PICK end \in Int : end = Min({SeekOffset(b) + MAX_BLOCK_SIZE, file_size}) /\ end \in Nat
    <2>1. PICK far \in Nat : far = SeekOffset(b) + MAX_BLOCK_SIZE
      BY <1>1, ServerAssumption
    <2>2. far \in Int /\ file_size \in Int /\ file_size \in Nat
      BY <2>1, ServerAssumption
    <2>3. Min({far, file_size}) \in {far, file_size}
      BY <2>2, MinOfTwo
    <2> QED BY <2>1, <2>2, <2>3
  <1>3. CASE Build(b)
    BY <1>2, <1>3 DEF Build
  <1>4. CASE BuildFails(b)
    <2>1. offset' \in {offset, SeekOffset(b)} /\ last_block' = last_block
      BY <1>4 DEF BuildFails
    <2> QED BY <1>1, <2>1 DEF TypeOK
  <1> QED BY <1>3, <1>4
-----------------------------------------------------------------------------
(* Prefixes.                                                               *)

LEMMA PrefixByElements ==
    ASSUME NEW S, NEW s \in Seq(S), NEW t \in Seq(S)
    PROVE  IsPrefix(s, t) <=> Len(s) <= Len(t) /\ \A i \in 1 .. Len(s) : s[i] = t[i]
  <1>1. SUFFICES ASSUME Len(s) <= Len(t)
                 PROVE  SubSeq(s, 1, Len(s)) = SubSeq(t, 1, Len(s))
                            <=> \A i \in 1 .. Len(s) : s[i] = t[i]
    BY DEF IsPrefix
  <1> DEFINE u == SubSeq(s, 1, Len(s))
             v == SubSeq(t, 1, Len(s))
  <1>2. /\ u \in Seq(S) /\ Len(u) = Len(s) /\ \A i \in 1 .. Len(s) : u[i] = s[i]
        /\ v \in Seq(S) /\ Len(v) = Len(s) /\ \A i \in 1 .. Len(s) : v[i] = t[i]
    BY <1>1
  <1> HIDE DEF u, v
  <1>3. u = v <=> \A i \in 1 .. Len(s) : u[i] = v[i]
    BY <1>2
  <1> QED BY <1>2, <1>3 DEF u, v

LEMMA PrefixTakesNext ==
    ASSUME NEW S, NEW s \in Seq(S), NEW t \in Seq(S), IsPrefix(s, t), Len(s) + 1 <= Len(t)
    PROVE  IsPrefix(Append(s, t[Len(s) + 1]), t)
  <1> DEFINE u == Append(s, t[Len(s) + 1])
  <1>1. /\ u \in Seq(S) /\ Len(u) = Len(s) + 1
        /\ \A i \in 1 .. Len(s) : u[i] = s[i]
        /\ u[Len(s) + 1] = t[Len(s) + 1]
    OBVIOUS
  <1>2. \A i \in 1 .. Len(s) : s[i] = t[i]
    BY PrefixByElements
  <1> HIDE DEF u
  <1>3. Len(u) <= Len(t) /\ \A i \in 1 .. Len(u) : u[i] = t[i]
    BY <1>1, <1>2
  <1>4. IsPrefix(u, t)
    BY <1>1, <1>3, PrefixByElements
  <1> QED BY <1>4 DEF u

LEMMA PrefixOfLonger ==
    ASSUME NEW S, NEW s \in Seq(S), NEW t \in Seq(S), NEW e \in S, IsPrefix(s, t)
    PROVE  IsPrefix(s, Append(t, e))
  <1> DEFINE u == Append(t, e)
  <1>1. u \in Seq(S) /\ Len(u) = Len(t) + 1 /\ \A i \in 1 .. Len(t) : u[i] = t[i]
    OBVIOUS
  <1>2. Len(s) <= Len(t) /\ \A i \in 1 .. Len(s) : s[i] = t[i]
    BY PrefixByElements
  <1> HIDE DEF u
  <1>3. Len(s) <= Len(u) /\ \A i \in 1 .. Len(s) : s[i] = u[i]
    BY <1>1, <1>2
  <1>4. IsPrefix(s, u)
    BY <1>1, <1>3, PrefixByElements
  <1> QED BY <1>4 DEF u
-----------------------------------------------------------------------------
(* The inductive invariant.                                                *)

(* The buffer holds the beginning of the request after those handled.      *)
Reading ==
    /\ IsPrefix(handled, requests)
    /\ pc = "transfer" =>
          /\ consumed = R * Len(handled) + retransmitlen
          /\ \A i \in ByteOfRequest :
                i < retransmitlen => retransmission_byte[i] = R * Len(handled) + i

(* Since the latest request, each block in sequence has taken a byte.      *)
Counting ==
    IF pc = "ended" THEN deadconnection_counter = 0
    ELSE retransmitlen < R /\ deadconnection_counter <= retransmitlen + 1

(* A block still owed lies ahead of the sequence, or is the one that the   *)
(* loop skipped when the round began with it.                              *)
Rounds ==
    /\ \A b \in owed : b > block \/ b = restarted
    /\ transmitted.type = "X" => block = block_count

Inv == TypeOK /\ Reading /\ Counting /\ Rounds

LEMMA WrittenType == ASSUME requests \in Seq(Requests) PROVE Written \in Nat
  BY TimesNext, ServerAssumption DEF Written

LEMMA ReadTypes ==
    ASSUME Inv, pc = "transfer", UNCHANGED requests,
           NEW n \in 1 .. R - retransmitlen, ReadBytes(n)
    PROVE  /\ consumed' = consumed + n /\ consumed' \in 0 .. Written
           /\ retransmission_byte' \in [ByteOfRequest -> {Unset} \union 0 .. Written']
           /\ \A i \in ByteOfRequest : i < retransmitlen + n =>
                 retransmission_byte'[i] = R * Len(handled) + i
  <1>1. /\ Written \in Nat /\ Written' = Written /\ R \in Nat
        /\ consumed \in Nat /\ retransmitlen \in Nat /\ n \in Nat
    BY WrittenType, ServerAssumption DEF Inv, TypeOK, R, Written
  <1>2. n <= Written - consumed
    <2>1. n \in 1 .. Min({Written - consumed, R - retransmitlen})
      BY DEF ReadBytes, R
    <2>2. Min({Written - consumed, R - retransmitlen}) <= Written - consumed
      BY <1>1, MinOfTwo
    <2> DEFINE m == Min({Written - consumed, R - retransmitlen})
    <2>3. m \in Int
      <3>1. m \in {Written - consumed, R - retransmitlen}
        BY <1>1, MinOfTwo
      <3> QED BY <1>1, <3>1
    <2> HIDE DEF m
    <2>4. n \in 1 .. m /\ m <= Written - consumed
      BY <2>1, <2>2 DEF m
    <2> QED BY <1>1, <2>3, <2>4
  <1>3. consumed' = consumed + n
    BY DEF ReadBytes
  <1>4. retransmission_byte' =
           [i \in ByteOfRequest |->
               IF i \in retransmitlen .. retransmitlen + n - 1
               THEN consumed + i - retransmitlen ELSE retransmission_byte[i]]
    BY DEF ReadBytes
  <1>5. retransmission_byte \in [ByteOfRequest -> {Unset} \union 0 .. Written]
    BY DEF Inv, TypeOK
  <1>6. ByteOfRequest \subseteq Nat
    BY <1>1 DEF ByteOfRequest, R
  <1>7. retransmission_byte' \in [ByteOfRequest -> {Unset} \union 0 .. Written]
    <2> SUFFICES ASSUME NEW i \in ByteOfRequest,
                        i \in retransmitlen .. retransmitlen + n - 1
                 PROVE  consumed + i - retransmitlen \in 0 .. Written
      BY <1>4, <1>5
    <2> QED BY <1>1, <1>2, <1>6
  <1>8. ASSUME NEW i \in ByteOfRequest, i < retransmitlen + n
        PROVE  retransmission_byte'[i] = R * Len(handled) + i
    <2>1. R * Len(handled) \in Nat
      <3>1. Len(handled) \in Nat
        BY DEF Inv, TypeOK
      <3> QED BY <1>1, <3>1, TimesNext
    <2>2. CASE i < retransmitlen
      <3>1. retransmission_byte'[i] = retransmission_byte[i]
        BY <1>1, <1>4, <1>6, <2>2
      <3> QED BY <2>2, <3>1 DEF Inv, Reading
    <2>3. CASE i >= retransmitlen
      <3>1. retransmission_byte'[i] = consumed + i - retransmitlen
        BY <1>1, <1>4, <1>6, <1>8, <2>3
      <3>2. consumed = R * Len(handled) + retransmitlen
        BY DEF Inv, Reading
      <3> QED BY <1>1, <1>6, <2>1, <3>1, <3>2
    <2> QED BY <1>1, <1>6, <2>2, <2>3
  <1> QED BY <1>1, <1>2, <1>3, <1>7, <1>8

LEMMA DecodedRight ==
    ASSUME Inv, pc = "transfer", UNCHANGED requests, ReadBytes(R - retransmitlen)
    PROVE  /\ Len(handled) + 1 \in 1 .. Len(requests)
           /\ Decoded(retransmission_byte') = requests[Len(handled) + 1]
           /\ consumed' = R * (Len(handled) + 1)
  <1> DEFINE k == Len(handled)
             n == R - retransmitlen
  <1>1. /\ R \in Nat \ {0} /\ k \in Nat /\ Len(requests) \in Nat
        /\ retransmitlen \in Nat /\ retransmitlen < R /\ consumed \in Nat
    BY ServerAssumption DEF Inv, TypeOK, Counting, R
  <1>2. n \in 1 .. R - retransmitlen
    BY <1>1
  <1>3. /\ consumed' = consumed + n /\ consumed' \in 0 .. Written
        /\ \A i \in ByteOfRequest : i < retransmitlen + n =>
              retransmission_byte'[i] = R * k + i
    BY <1>2, ReadTypes
  <1>4. /\ R * k \in Nat /\ R * (k + 1) = R * k + R
        /\ Written = R * Len(requests) /\ Written \in Nat
    BY <1>1, TimesNext DEF Written, R
  <1>5. consumed' = R * (k + 1)
    <2>1. consumed = R * k + retransmitlen
      BY DEF Inv, Reading
    <2> QED BY <1>1, <1>3, <1>4, <2>1
  <1>6. k + 1 <= Len(requests)
    <2> SUFFICES ASSUME Len(requests) <= k PROVE FALSE
      BY <1>1
    <2>1. R * Len(requests) <= R * k
      BY <1>1, TimesUpTo
    <2> QED BY <1>1, <1>3, <1>4, <1>5, <2>1
  <1>7. \A i \in ByteOfRequest : retransmission_byte'[i] = R * k + i
    <2> SUFFICES ASSUME NEW i \in ByteOfRequest PROVE i < retransmitlen + n
      BY <1>3
    <2> QED BY <1>1 DEF ByteOfRequest, R
  <1>8. retransmission_byte'[0] \div SIZE_OF_RETRANSMISSION_T = k
    <2>1. 0 \in ByteOfRequest
      BY <1>1 DEF ByteOfRequest, R
    <2>2. retransmission_byte'[0] = R * k
      BY <1>4, <1>7, <2>1
    <2> QED BY <1>1, <2>2, DivExact DEF R
  <1>9. k * SIZE_OF_RETRANSMISSION_T = R * k
    BY <1>1 DEF R
  <1>10. \A i \in ByteOfRequest :
            retransmission_byte'[i]
              = (retransmission_byte'[0] \div SIZE_OF_RETRANSMISSION_T)
                    * SIZE_OF_RETRANSMISSION_T + i
    BY <1>7, <1>8, <1>9
  <1>11. Decoded(retransmission_byte') = requests[k + 1]
    BY <1>8, <1>10 DEF Decoded
  <1> QED BY <1>1, <1>5, <1>6, <1>11
-----------------------------------------------------------------------------
(* Every step keeps it.                                                    *)

LEMMA InitInv == Init => Inv
  <1> SUFFICES ASSUME Init PROVE Inv
    OBVIOUS
  <1>1. requests = <<>> /\ handled = <<>> /\ consumed = 0 /\ retransmitlen = 0
    BY DEF Init
  <1>2. Written = 0
    <2>1. Len(requests) = 0
      BY <1>1
    <2> QED BY <2>1, ServerAssumption DEF Written
  <1>3. TypeOK
    <2>1. requests \in Seq(Requests) /\ handled \in Seq(Requests \union {Garbled})
      BY <1>1
    <2>2. retransmission_byte \in [ByteOfRequest -> {Unset} \union 0 .. Written]
      BY DEF Init
    <2>3. consumed \in 0 .. Written /\ retransmitlen \in 0 .. SIZE_OF_RETRANSMISSION_T
      BY <1>1, <1>2, ServerAssumption
    <2>4. /\ closed \in BOOLEAN /\ block = 0 /\ restarted = 0 /\ owed = Blocks
          /\ last_block \in Nat /\ offset \in Nat
          /\ transmitted.type = "none"
          /\ deadconnection_counter = 0 /\ pc = "transfer"
      BY ServerAssumption DEF Init, NoDatagram
    <2> QED BY <2>1, <2>2, <2>3, <2>4 DEF TypeOK
  <1>4. Reading
    <2>1. IsPrefix(handled, requests)
      BY <1>1 DEF IsPrefix
    <2>2. ByteOfRequest \subseteq Nat /\ R * Len(handled) = 0
      BY <1>1, ServerAssumption DEF ByteOfRequest, R
    <2>3. consumed = R * Len(handled) + retransmitlen
      BY <1>1, <2>2
    <2>4. \A i \in ByteOfRequest : ~(i < retransmitlen)
      BY <1>1, <2>2
    <2> QED BY <2>1, <2>3, <2>4 DEF Reading
  <1>5. Counting
    BY ServerAssumption DEF Init, Counting, R
  <1>6. Rounds
    <2>1. \A b \in Blocks : b > 0
      BY BlockCount DEF Blocks
    <2> QED BY <2>1 DEF Init, Rounds, NoDatagram
  <1> QED BY <1>3, <1>4, <1>5, <1>6 DEF Inv

LEMMA TakeRequestInv == Inv /\ TakeRequest => Inv'
  <1> SUFFICES ASSUME Inv, TakeRequest PROVE Inv'
    OBVIOUS
  <1> DEFINE r == Decoded(retransmission_byte')
             n == R - retransmitlen
  <1>1. /\ pc = "transfer" /\ ReadBytes(n) /\ UNCHANGED <<requests, closed>>
        /\ handled' = Append(handled, r)
    BY DEF TakeRequest, clientVars, R
  <1>2. \/ /\ pc' = "ended" /\ transmitted' = NoDatagram
           /\ retransmitlen' = R /\ deadconnection_counter' = 0
           /\ UNCHANGED <<roundVars, buildVars>>
        \/ /\ AcceptRestart(r) \/ AcceptRetransmit(r) \/ AcceptOther(r)
           /\ retransmitlen' = 0 /\ deadconnection_counter' = 1
           /\ UNCHANGED pc
    BY DEF TakeRequest, AfterRequest, R
  <1>3. /\ R \in Nat \ {0} /\ retransmitlen \in Nat /\ retransmitlen < R
        /\ n \in 1 .. R - retransmitlen
    BY <1>1, ServerAssumption DEF Inv, TypeOK, Counting, R
  <1>4. /\ Len(handled) + 1 \in 1 .. Len(requests)
        /\ r = requests[Len(handled) + 1] /\ consumed' = R * (Len(handled) + 1)
    BY <1>1, DecodedRight
  <1>5. r \in Requests /\ r.block \in Nat
    BY <1>4, ServerAssumption DEF Inv, TypeOK
  <1>6. /\ consumed' \in 0 .. Written
        /\ retransmission_byte' \in [ByteOfRequest -> {Unset} \union 0 .. Written']
    BY <1>1, <1>3, ReadTypes
  <1>7. Written' = Written
    BY <1>1 DEF Written
  <1>8. /\ last_block' \in Nat /\ offset' \in Nat
        /\ transmitted'.type \in {"none", "R"}
    <2>1. NoDatagram.type = "none"
      BY DEF NoDatagram
    <2>2. CASE UNCHANGED buildVars /\ transmitted' = NoDatagram
      BY <2>1, <2>2 DEF Inv, TypeOK, buildVars
    <2>3. CASE AcceptRetransmit(r)
      <3>1. Build(r.block) \/ BuildFails(r.block)
        BY <2>3 DEF AcceptRetransmit
      <3>2. transmitted' = NoDatagram \/ transmitted'.type = "R"
        BY <2>3 DEF AcceptRetransmit
      <3>3. last_block' \in Nat /\ offset' \in Nat
        BY <1>5, <3>1, BuildTypes DEF Inv
      <3> QED BY <2>1, <3>2, <3>3
    <2> QED BY <1>2, <2>2, <2>3 DEF AcceptRestart, AcceptOther
  <1>15. /\ block' \in {0} \union Blocks /\ restarted' \in {0} \union Blocks
         /\ owed' \subseteq Blocks
         /\ \A b \in owed' : b > block' \/ b = restarted'
    <2>1. CASE UNCHANGED roundVars
      BY <2>1 DEF Inv, TypeOK, Rounds, roundVars
    <2>2. CASE r.block \in Blocks /\ block' = r.block /\ restarted' = r.block
               /\ owed' = r.block .. block_count
      <3>1. PICK k \in Nat : k = r.block
        BY <1>5
      <3>2. k \in Blocks /\ owed' = k .. block_count /\ block' = k /\ restarted' = k
        BY <2>2, <3>1
      <3> QED BY <3>1, <3>2, BlockCount DEF Blocks
    <2> QED BY <1>2, <2>1, <2>2 DEF AcceptRestart, AcceptRetransmit, AcceptOther
  <1>9. handled' \in Seq(Requests \union {Garbled}) /\ Len(handled') = Len(handled) + 1
    <2>1. handled \in Seq(Requests \union {Garbled}) /\ r \in Requests \union {Garbled}
      BY <1>5 DEF Inv, TypeOK
    <2> HIDE DEF r
    <2> QED BY <1>1, <2>1
  <1>10. retransmitlen' \in 0 .. SIZE_OF_RETRANSMISSION_T /\ deadconnection_counter' \in {0, 1}
           /\ pc' \in {"transfer", "ended"}
    BY <1>1, <1>2, <1>3 DEF R
  <1>11. TypeOK'
    BY <1>1, <1>6, <1>7, <1>8, <1>9, <1>10, <1>15 DEF Inv, TypeOK
  <1>12. Reading'
    <2>1. IsPrefix(handled', requests')
      <3>1. /\ handled \in Seq(Requests \union {Garbled})
            /\ requests \in Seq(Requests \union {Garbled})
            /\ IsPrefix(handled, requests) /\ Len(handled) + 1 <= Len(requests)
        BY <1>4 DEF Inv, TypeOK, Reading
      <3>2. IsPrefix(Append(handled, requests[Len(handled) + 1]), requests)
        BY <3>1, PrefixTakesNext
      <3> QED BY <1>1, <1>4, <3>2
    <2>2. ASSUME pc' = "transfer" PROVE retransmitlen' = 0
      BY <1>2, <2>2
    <2>3. ASSUME pc' = "transfer"
          PROVE  consumed' = R * Len(handled') + retransmitlen'
      <3>1. R * (Len(handled) + 1) \in Nat
        <4>1. Len(handled) + 1 \in Nat
          BY <1>4
        <4> QED BY <1>3, <4>1, TimesNext
      <3> QED BY <1>4, <1>9, <2>2, <2>3, <3>1
    <2>4. ByteOfRequest \subseteq Nat
      BY DEF ByteOfRequest
    <2>5. ASSUME pc' = "transfer", NEW i \in ByteOfRequest
          PROVE  ~(i < retransmitlen')
      BY <2>2, <2>4, <2>5
    <2> QED BY <2>1, <2>3, <2>5 DEF Reading, R
  <1>13. Counting'
    BY <1>1, <1>2, <1>3 DEF Counting, R
  <1>14. Rounds'
    BY <1>8, <1>15 DEF Rounds
  <1> QED BY <1>11, <1>12, <1>13, <1>14 DEF Inv

LEMMA TakePartInv == Inv /\ TakePart => Inv'
  <1> SUFFICES ASSUME Inv, TakePart PROVE Inv'
    OBVIOUS
  <1>1. /\ pc = "transfer" /\ UNCHANGED <<requests, closed, handled>>
        /\ block' = NextBlock
    BY DEF TakePart, clientVars
  <1>2. PICK n \in ByteOfRequest :
           /\ retransmitlen + n < R /\ ReadBytes(n) /\ retransmitlen' = retransmitlen + n
    BY DEF TakePart, R
  <1>3. /\ R \in Nat \ {0} /\ retransmitlen \in Nat /\ n \in Nat
        /\ deadconnection_counter \in Nat /\ deadconnection_counter <= retransmitlen + 1
    BY <1>1, ServerAssumption DEF Inv, TypeOK, Counting, R, ByteOfRequest
  <1>4. n \in 1 .. R - retransmitlen
    <2>1. n # 0
      <3>1. Written \in Nat /\ consumed \in Nat
        BY WrittenType DEF Inv, TypeOK
      <3> DEFINE m == Min({Written - consumed, SIZE_OF_RETRANSMISSION_T - retransmitlen})
      <3>2. n \in 1 .. m
        BY <1>2 DEF ReadBytes
      <3> HIDE DEF m
      <3> QED BY <3>2
    <2> QED BY <1>2, <1>3, <2>1
  <1>5. /\ consumed' = consumed + n /\ consumed' \in 0 .. Written
        /\ retransmission_byte' \in [ByteOfRequest -> {Unset} \union 0 .. Written']
        /\ \A i \in ByteOfRequest : i < retransmitlen + n =>
              retransmission_byte'[i] = R * Len(handled) + i
    BY <1>1, <1>2, <1>4, ReadTypes
  <1>6. Written' = Written
    BY <1>1 DEF Written
  <1>7. NextBlock \in Blocks /\ NextBlock \in Nat
    <2>1. NextBlock \in Blocks
      BY NextBlockType DEF Inv, TypeOK
    <2> QED BY <2>1, BlockCount DEF Blocks
  <1>8. /\ last_block' \in Nat /\ offset' \in Nat
        /\ \/ transmitted' = NoDatagram
           \/ transmitted' = [blk |-> NextBlock, type |-> TypeOf(NextBlock)]
        /\ restarted' = restarted /\ owed' = owed \ {NextBlock}
    <2>1. Build(NextBlock) \/ BuildFails(NextBlock)
      BY DEF TakePart
    <2>2. last_block' \in Nat /\ offset' \in Nat
      BY <1>7, <2>1, BuildTypes DEF Inv
    <2> QED BY <2>2 DEF TakePart
  <1>15. \/ deadconnection_counter' = 0 /\ pc' \in {"transfer", "ended"}
         \/ /\ deadconnection_counter' \in {deadconnection_counter, deadconnection_counter + 1}
            /\ pc' \in {"transfer", "panicked"}
    BY <1>1 DEF TakePart, Heartbeat
  <1>9. transmitted'.type \in {"none", "O", "X", "R"}
    BY <1>8 DEF NoDatagram, TypeOf
  <1>10. retransmitlen' \in 0 .. SIZE_OF_RETRANSMISSION_T /\ deadconnection_counter' \in Nat
    BY <1>2, <1>3, <1>15 DEF R
  <1>11. TypeOK'
    <2>1. block' \in {0} \union Blocks
      BY <1>1, <1>7
    <2>2. pc' \in {"transfer", "ended", "panicked"}
      BY <1>15
    <2>3. owed' \subseteq Blocks /\ restarted' \in {0} \union Blocks
      BY <1>8 DEF Inv, TypeOK
    <2> QED BY <1>1, <1>5, <1>6, <1>8, <1>9, <1>10, <2>1, <2>2, <2>3 DEF Inv, TypeOK
  <1>12. Reading'
    <2>1. IsPrefix(handled', requests')
      BY <1>1 DEF Inv, Reading
    <2>2. consumed' = R * Len(handled') + retransmitlen'
      <3>1. consumed = R * Len(handled) + retransmitlen /\ Len(handled) \in Nat
        BY <1>1 DEF Inv, Reading, TypeOK
      <3>2. R * Len(handled) \in Nat
        BY <1>3, <3>1, TimesNext
      <3> QED BY <1>1, <1>2, <1>3, <1>5, <3>1, <3>2
    <2>3. \A i \in ByteOfRequest :
             i < retransmitlen' => retransmission_byte'[i] = R * Len(handled') + i
      BY <1>1, <1>2, <1>5
    <2> QED BY <2>1, <2>2, <2>3 DEF Reading, R
  <1>13. Counting'
    <2>1. retransmitlen' < R /\ retransmitlen' \in Nat
      BY <1>2, <1>3
    <2>2. pc' = "ended" => deadconnection_counter' = 0
      BY <1>15
    <2>3. deadconnection_counter' <= retransmitlen' + 1
      BY <1>2, <1>3, <1>4, <1>15
    <2> QED BY <2>1, <2>2, <2>3 DEF Counting, R
  <1>14. Rounds'
    <2>1. transmitted'.type = "X" => block' = block_count
      <3>1. TypeOf(NextBlock) = "X" => NextBlock = block_count
        BY DEF TypeOf
      <3> QED BY <1>1, <1>8, <3>1 DEF NoDatagram
    <2>2. ASSUME NEW b \in owed' PROVE b > block' \/ b = restarted'
      <3>1. b \in owed /\ b # NextBlock /\ b \in Blocks
        BY <1>8, <2>2 DEF Inv, TypeOK
      <3>2. b > block \/ b = restarted
        BY <3>1 DEF Inv, Rounds
      <3>3. PICK m \in Int : m = NextBlock /\ m \in {block + 1, block_count} /\ m <= block + 1
        <4>1. block + 1 \in Int /\ block_count \in Int
          BY BlockCount DEF Inv, TypeOK, Blocks
        <4> QED BY <4>1, MinOfTwo DEF NextBlock
      <3>4. b > block => b > m
        BY <3>1, <3>3, BlockCount DEF Blocks, Inv, TypeOK
      <3> QED BY <1>1, <1>8, <3>2, <3>3, <3>4
    <2> QED BY <2>1, <2>2 DEF Rounds
  <1> QED BY <1>11, <1>12, <1>13, <1>14 DEF Inv

LEMMA OtherStepsInv == Inv /\ (ReadFails \/ ClientWrites \/ ClientCloses) => Inv'
  <1>1. Inv /\ ReadFails => Inv'
    <2> SUFFICES ASSUME Inv, ReadFails PROVE Inv'
      OBVIOUS
    <2>1. /\ pc = "transfer" /\ pc' = "panicked" /\ transmitted' = NoDatagram
          /\ UNCHANGED <<clientVars, consumed, retransmission_byte, retransmitlen,
                         handled, roundVars, buildVars, deadconnection_counter>>
      BY DEF ReadFails
    <2>2. NoDatagram.type = "none"
      BY DEF NoDatagram
    <2>3. TypeOK' /\ Rounds'
      BY <2>1, <2>2 DEF Inv, TypeOK, Rounds, clientVars, buildVars, roundVars, Written
    <2>4. Reading' /\ Counting'
      BY <2>1 DEF Inv, Reading, Counting, clientVars
    <2> QED BY <2>3, <2>4 DEF Inv
  <1>2. Inv /\ ClientWrites => Inv'
    <2> SUFFICES ASSUME Inv, NEW r \in Requests, requests' = Append(requests, r),
                        UNCHANGED <<closed, consumed, retransmission_byte, retransmitlen,
                                    handled, roundVars, buildVars, transmitted,
                                    deadconnection_counter, pc>>
                 PROVE  Inv'
      BY DEF ClientWrites
    <2>1. requests' \in Seq(Requests) /\ Len(requests') = Len(requests) + 1
             /\ Len(requests) \in Nat
      BY DEF Inv, TypeOK
    <2>2. Written \in Nat /\ Written' \in Nat /\ Written <= Written'
      <3>1. Written \in Nat /\ Written' = R * Len(requests') /\ Written = R * Len(requests)
        BY WrittenType DEF Inv, TypeOK, Written, R
      <3>2. R \in Nat /\ Len(requests) <= Len(requests') /\ Len(requests') \in Nat
        BY <2>1, ServerAssumption DEF R
      <3> QED BY <2>1, <3>1, <3>2, TimesUpTo, TimesNext
    <2>3. TypeOK'
      <3>1. consumed' \in 0 .. Written'
        BY <2>2 DEF Inv, TypeOK
      <3>2. retransmission_byte' \in [ByteOfRequest -> {Unset} \union 0 .. Written']
        <4>1. 0 .. Written \subseteq 0 .. Written'
          BY <2>2
        <4> QED BY <4>1 DEF Inv, TypeOK
      <3> QED BY <2>1, <3>1, <3>2 DEF Inv, TypeOK, buildVars, roundVars
    <2>4. Reading'
      <3>1. /\ handled \in Seq(Requests \union {Garbled})
            /\ requests \in Seq(Requests \union {Garbled}) /\ r \in Requests \union {Garbled}
            /\ IsPrefix(handled, requests)
        BY DEF Inv, TypeOK, Reading
      <3>2. IsPrefix(handled, Append(requests, r))
        BY <3>1, PrefixOfLonger
      <3> QED BY <3>2 DEF Inv, Reading
    <2>5. Counting' /\ Rounds'
      BY DEF Inv, Counting, Rounds, roundVars
    <2> QED BY <2>3, <2>4, <2>5 DEF Inv
  <1>3. Inv /\ ClientCloses => Inv'
    BY DEF ClientCloses, Inv, TypeOK, Reading, Counting, Rounds, buildVars, roundVars, Written
  <1> QED BY <1>1, <1>2, <1>3

LEMMA StutterInv == Inv /\ UNCHANGED vars => Inv'
  BY DEF vars, Inv, TypeOK, Reading, Counting, Rounds, Written

LEMMA Invariance == Spec => []Inv
  <1>1. Inv /\ [Next]_vars => Inv'
    BY TakeRequestInv, TakePartInv, OtherStepsInv, StutterInv DEF Next, Server
  <1> QED BY InitInv, <1>1, PTL DEF Spec
-----------------------------------------------------------------------------
(* Every variable of the server's loop keeps its type, whatever the client *)
(* writes and wherever TCP cuts it.                                        *)
THEOREM TypesKept == Spec => []TypeOK
  <1>1. Inv => TypeOK
    BY DEF Inv
  <1> QED BY Invariance, <1>1, PTL

(* However TCP cuts the stream, the requests handled are those written,    *)
(* whole, once and in order (protocol.go:653-677).                         *)
THEOREM RequestsDecoded == Spec => []RequestsInOrder
  <1>1. Inv => RequestsInOrder
    BY DEF Inv, Reading, RequestsInOrder, R
  <1> QED BY Invariance, <1>1, PTL

(* When the last block is announced as the end of a round, no block of the *)
(* round is left out, but the one a restart names, which the loop of       *)
(* protocol.go:681 skips; whatever restarts and retransmissions came.      *)
THEOREM RoundsComplete == Spec => []RoundComplete
  <1>1. Inv => RoundComplete
    <2> SUFFICES ASSUME Inv, transmitted.type = "X", NEW b \in owed
                 PROVE  b = restarted
      BY DEF RoundComplete
    <2>1. block = block_count /\ (b > block \/ b = restarted)
      BY DEF Inv, Rounds
    <2>2. b \in Blocks
      BY DEF Inv, TypeOK
    <2> QED BY <2>1, <2>2, BlockCount DEF Blocks
  <1> QED BY Invariance, <1>1, PTL

(* No request is longer than the blocks without feedback that the monitor  *)
(* of protocol.go:706 waits for; so it is never reached, for a block is    *)
(* sent, and counted, only when a part of a request arrives.               *)
THEOREM HeartbeatDead ==
    ASSUME SIZE_OF_RETRANSMISSION_T <= HEARTBEAT_LIMIT
    PROVE  Spec => []HeartbeatNotReached
  <1>1. Inv => HeartbeatNotReached
    <2> SUFFICES ASSUME Inv PROVE deadconnection_counter <= HEARTBEAT_LIMIT
      BY DEF HeartbeatNotReached
    <2>1. /\ R \in Nat \ {0} /\ R <= HEARTBEAT_LIMIT /\ HEARTBEAT_LIMIT \in Nat
          /\ retransmitlen \in Nat /\ deadconnection_counter \in Nat
      BY ServerAssumption DEF Inv, TypeOK, R
    <2> QED BY <2>1 DEF Inv, Counting
  <1> QED BY Invariance, <1>1, PTL
=============================================================================

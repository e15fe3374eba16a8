------------------------ MODULE RetransmissionProofs ------------------------
(***************************************************************************)
(* Proofs about Retransmission, for files and tables of any size: the      *)
(* table stays in its allocation, the gapless prefix has no gap, only      *)
(* missing blocks are asked for, and none of the blocks a lossless client  *)
(* counts on is forgotten.                                                 *)
(*                                                                         *)
(* The table is worked on by loops, which the model writes as recursive    *)
(* functions.  What they compute is proved by induction in the form of a   *)
(* least counterexample, which needs sets only: StepsReach for the facts,  *)
(* RecursionExists for the functions.                                      *)
(***************************************************************************)
EXTENDS Retransmission, WellFoundedInduction, TLAPS

LEMMA LeastElement ==
    ASSUME NEW T, T \subseteq Nat, T # {}
    PROVE  \E n \in T : \A m \in T : n <= m
  <1>1. IsWellFoundedOn(OpToRel(<, Nat), Nat)
    BY NatLessThanWellFounded, Zenon
  <1>2. PICK R : R = OpToRel(<, Nat)
    BY Zenon
  <1>3. IsWellFoundedOn(R, Nat)
    BY <1>1, <1>2, Zenon
  <1>4. PICK n \in T : \A m \in T : ~ (<<m, n>> \in R)
    BY <1>3, WFMin
  <1>5. ASSUME NEW m \in T PROVE n <= m
    <2>1. m \in Nat /\ n \in Nat /\ ~ (m < n)
      BY <1>2, <1>4 DEF OpToRel
    <2> QED BY <2>1
  <1> QED BY <1>5

(* What holds of 0 and is passed on from i - 1 to i holds up to n.         *)
LEMMA StepsReach ==
    ASSUME NEW n \in Nat, NEW S, 0 \in S,
           \A i \in 1 .. n : i - 1 \in S => i \in S
    PROVE  \A i \in 0 .. n : i \in S
  <1> DEFINE bad == {i \in 0 .. n : i \notin S}
  <1>1. CASE bad = {}
    BY <1>1
  <1>2. CASE bad # {}
    <2>1. bad \subseteq Nat
      OBVIOUS
    <2>2. PICK least \in bad : \A m \in bad : least <= m
      <3> HIDE DEF bad
      <3> QED BY <1>2, <2>1, LeastElement
    <2>3. least \in 1 .. n /\ least - 1 \in 0 .. n
      BY <2>2
    <2>4. least - 1 \in S
      BY <2>2, <2>3
    <2> QED BY <2>2, <2>3, <2>4
  <1> QED BY <1>1, <1>2

(* The same downwards from a greatest element.                             *)
LEMMA GreatestElement ==
    ASSUME NEW n \in Nat, NEW T, T \subseteq 0 .. n, T # {}
    PROVE  \E g \in T : \A m \in T : m <= g
  <1> DEFINE distances == {n - t : t \in T}
  <1>1. distances \subseteq Nat
    OBVIOUS
  <1>2. distances # {}
    <2>1. PICK t \in T : TRUE
      OBVIOUS
    <2>2. n - t \in distances
      OBVIOUS
    <2> QED BY <2>2
  <1>3. PICK d \in distances : \A m \in distances : d <= m
    <2> HIDE DEF distances
    <2> QED BY <1>1, <1>2, LeastElement
  <1>4. PICK g \in T : d = n - g
    BY <1>3
  <1>5. ASSUME NEW m \in T PROVE m <= g
    <2>1. d <= n - m
      BY <1>3
    <2>2. m \in 0 .. n /\ g \in 0 .. n
      BY Zenon
    <2> QED BY <1>4, <2>1, <2>2
  <1> QED BY <1>5

(* n steps on V, and the values that start with c and go on by them.       *)
Steps(n, V) == [1 .. n -> [V -> V]]
Run(n, V, c, d, f) ==
    /\ f \in [0 .. n -> V]
    /\ f[0] = c
    /\ \A i \in 1 .. n : f[i] = d[i][f[i - 1]]

LEMMA RecursionExists ==
    ASSUME NEW n \in Nat, NEW V, NEW c \in V, NEW d \in Steps(n, V)
    PROVE  \E f : Run(n, V, c, d, f)
  <1>0. d \in [1 .. n -> [V -> V]]
    BY DEF Steps
  <1> DEFINE Good(k) == \E f \in [0 .. k -> V] :
                  f[0] = c /\ \A i \in 1 .. k : f[i] = d[i][f[i - 1]]
             S == {k \in 0 .. n : Good(k)}
  <1>1. Good(0)
    <2> DEFINE f == [i \in 0 .. 0 |-> c]
    <2>1. f \in [0 .. 0 -> V] /\ f[0] = c
      OBVIOUS
    <2> HIDE DEF f
    <2>2. 1 .. 0 = {}
      OBVIOUS
    <2>3. \A i \in 1 .. 0 : f[i] = d[i][f[i - 1]]
      BY <2>2
    <2> QED BY <2>1, <2>3
  <1>2. ASSUME NEW k \in 1 .. n, k - 1 \in S PROVE k \in S
    <2>1. PICK f \in [0 .. k - 1 -> V] :
             f[0] = c /\ \A i \in 1 .. k - 1 : f[i] = d[i][f[i - 1]]
      BY <1>2
    <2> DEFINE g == [i \in 0 .. k |-> IF i = k THEN d[k][f[k - 1]] ELSE f[i]]
    <2>2. f[k - 1] \in V /\ d[k][f[k - 1]] \in V
      BY <1>0, <2>1
    <2>3. g \in [0 .. k -> V]
      BY <2>2
    <2>4. g[0] = c
      BY <2>1
    <2>5. ASSUME NEW i \in 1 .. k PROVE g[i] = d[i][g[i - 1]]
      <3>1. i - 1 \in 0 .. k /\ i - 1 # k /\ g[i - 1] = f[i - 1]
        OBVIOUS
      <3>2. CASE i = k
        BY <3>1, <3>2
      <3>3. CASE i # k
        <4>1. i \in 1 .. k - 1 /\ g[i] = f[i]
          BY <3>3
        <4> QED BY <2>1, <3>1, <4>1
      <3> QED BY <3>2, <3>3
    <2> HIDE DEF g
    <2>6. Good(k)
      BY <2>3, <2>4, <2>5
    <2>7. k \in 0 .. n
      OBVIOUS
    <2> HIDE DEF Good
    <2> QED BY <2>6, <2>7
  <1>3. 0 \in S
    BY <1>1
  <1> HIDE DEF S
  <1>4. n \in 0 .. n
    OBVIOUS
  <1>5. n \in S
    BY <1>2, <1>3, <1>4, StepsReach
  <1>6. PICK f \in [0 .. n -> V] :
             f[0] = c /\ \A i \in 1 .. n : f[i] = d[i][f[i - 1]]
    BY <1>5 DEF S
  <1>7. Run(n, V, c, d, f)
    BY <1>6 DEF Run
  <1> QED BY <1>7
-----------------------------------------------------------------------------
(* The transfer record.  The receive loop marks blocks beyond the file as  *)
(* well, so here received is any set.                                      *)
Transfer ==
    {x \in [mode : Modes, table : Seq({0} \union Blocks), tableSize : TableSizes,
            received : SUBSET Nat, gaplessToBlock : 0 .. UINT - 1,
            nextBlock : 0 .. UINT - 1, restartPending : BOOLEAN,
            restartLastIndex : 0 .. blockCount,
            restartWireClearIndex : 0 .. blockCount] :
        Len(x.table) <= x.tableSize /\ x.tableSize <= TABLE_LIMIT}

(* y differs from x in the table only.                                     *)
SameButTable(x, y) ==
    /\ y.mode = x.mode /\ y.received = x.received
    /\ y.gaplessToBlock = x.gaplessToBlock /\ y.nextBlock = x.nextBlock
    /\ y.restartPending = x.restartPending
    /\ y.restartLastIndex = x.restartLastIndex
    /\ y.restartWireClearIndex = x.restartWireClearIndex

LEMMA Numbers ==
    /\ blockCount \in Nat /\ blockCount >= 1
    /\ UINT \in Nat /\ 2 * blockCount + 1 < UINT
    /\ onWireEstimate \in 0 .. blockCount
    /\ MAX_RETRANSMISSION_BUFFER \in Nat /\ MAX_RETRANSMISSION_BUFFER >= 1
    /\ DEFAULT_TABLE_SIZE \in Nat /\ DEFAULT_TABLE_SIZE >= 1
    /\ TABLE_LIMIT \in TableSizes
    /\ TableSizes \subseteq Nat \ {0}
  BY RetransmissionAssumption DEF TableSizes

(* A size below the limit can be doubled.                                  *)
LEMMA Doubling ==
    ASSUME NEW size \in TableSizes, size < TABLE_LIMIT
    PROVE  2 * size \in TableSizes /\ 2 * size <= TABLE_LIMIT
  <1>1. PICK k \in {1, 2, 4, 8, 16} : size = DEFAULT_TABLE_SIZE * k
    BY DEF TableSizes
  <1>2. PICK l \in {1, 2, 4, 8, 16} : TABLE_LIMIT = DEFAULT_TABLE_SIZE * l
    BY Numbers DEF TableSizes
  <1>3. k < l
    BY <1>1, <1>2, Numbers
  <1>4. 2 * k \in {1, 2, 4, 8, 16} /\ 2 * k <= l
    BY <1>3
  <1>5. 2 * size = DEFAULT_TABLE_SIZE * (2 * k)
    BY <1>1, Numbers
  <1>6. 2 * size \in TableSizes
    BY <1>4, <1>5 DEF TableSizes
  <1>7. 2 * size <= TABLE_LIMIT
    BY <1>1, <1>2, <1>4, Numbers
  <1> QED BY <1>6, <1>7

LEMMA Remainder ==
    ASSUME NEW a \in Int
    PROVE  a % UINT \in 0 .. UINT - 1 /\ (a \in 0 .. UINT - 1 => a % UINT = a)
  <1>1. UINT \in Nat \ {0}
    BY Numbers
  <1>2. \A u \in Nat \ {0} : a % u \in 0 .. u - 1 /\ (a \in 0 .. u - 1 => a % u = a)
    BY Z3
  <1> QED BY <1>1, <1>2

(* What a transfer record consists of.                                     *)
LEMMA Fields ==
    ASSUME NEW x \in Transfer
    PROVE  /\ x.mode \in Modes /\ x.received \subseteq Nat
           /\ x.table \in Seq({0} \union Blocks) /\ Len(x.table) \in Nat
           /\ x.tableSize \in TableSizes /\ x.tableSize \in Nat /\ TABLE_LIMIT \in Nat
           /\ Len(x.table) <= x.tableSize /\ x.tableSize <= TABLE_LIMIT
           /\ x.gaplessToBlock \in 0 .. UINT - 1 /\ x.nextBlock \in 0 .. UINT - 1
           /\ x.gaplessToBlock \in Nat /\ x.nextBlock \in Nat
           /\ x.restartPending \in BOOLEAN
           /\ x.restartLastIndex \in 0 .. blockCount
           /\ x.restartWireClearIndex \in 0 .. blockCount
  <1>1. /\ x.mode \in Modes /\ x.received \subseteq Nat
        /\ x.table \in Seq({0} \union Blocks) /\ x.tableSize \in TableSizes
        /\ Len(x.table) <= x.tableSize /\ x.tableSize <= TABLE_LIMIT
        /\ x.gaplessToBlock \in 0 .. UINT - 1 /\ x.nextBlock \in 0 .. UINT - 1
        /\ x.restartPending \in BOOLEAN
        /\ x.restartLastIndex \in 0 .. blockCount
        /\ x.restartWireClearIndex \in 0 .. blockCount
    BY DEF Transfer
  <1>2. Len(x.table) \in Nat
    BY <1>1
  <1>3. x.tableSize \in Nat /\ TABLE_LIMIT \in Nat
    BY <1>1, Numbers
  <1>4. x.gaplessToBlock \in Nat /\ x.nextBlock \in Nat
    BY <1>1, Numbers
  <1> QED BY <1>1, <1>2, <1>3, <1>4

(* One request: the table only grows, and has room for the block unless it *)
(* has reached its limit.                                                  *)
LEMMA OneRequest ==
    ASSUME NEW x \in Transfer, NEW b \in Nat, NEW y, y = RequestRetransmit(x, b)
    PROVE  /\ y \in Transfer /\ SameButTable(x, y)
           /\ Len(x.table) <= Len(y.table)
           /\ Range(x.table) \subseteq Range(y.table)
           /\ GotBlock(x, b) \/ b \in Range(y.table) \/ Len(y.table) = TABLE_LIMIT
  <1> DEFINE full == Len(x.table) >= x.tableSize
  <1>1. CASE GotBlock(x, b) \/ (full /\ Len(x.table) >= TABLE_LIMIT)
    <2>1. y = x
      BY <1>1 DEF RequestRetransmit
    <2>2. GotBlock(x, b) \/ Len(y.table) = TABLE_LIMIT
      BY <1>1, <2>1, Fields
    <2> QED BY <2>1, <2>2, Fields DEF SameButTable
  <1>2. CASE ~GotBlock(x, b) /\ ~(full /\ Len(x.table) >= TABLE_LIMIT)
    <2> DEFINE size == IF full THEN 2 * x.tableSize ELSE x.tableSize
               t    == Append(x.table, b)
    <2>1. b \in {0} \union Blocks
      BY <1>2, Numbers DEF GotBlock, Blocks
    <2>2. size \in TableSizes /\ size <= TABLE_LIMIT /\ Len(x.table) + 1 <= size
      <3>1. CASE full
        BY <1>2, <3>1, Fields, Doubling, Numbers
      <3>2. CASE ~full
        BY <3>2, Fields
      <3> QED BY <3>1, <3>2
    <2>3. /\ t \in Seq({0} \union Blocks) /\ Len(t) = Len(x.table) + 1
          /\ t[Len(x.table) + 1] = b /\ \A i \in 1 .. Len(x.table) : t[i] = x.table[i]
      BY <2>1, Fields
    <2>4. b \in Range(t) /\ Range(x.table) \subseteq Range(t)
      <3> HIDE DEF t
      <3>1. Len(x.table) \in Nat /\ x.table \in Seq({0} \union Blocks)
        BY Fields
      <3> QED BY <2>3, <3>1 DEF Range
    <2>5. y = [x EXCEPT !.table = t, !.tableSize = size]
      BY <1>2 DEF RequestRetransmit
    <2> HIDE DEF t, size
    <2>6. y.table = t /\ y.tableSize = size /\ SameButTable(x, y) /\ y \in Transfer
      BY <2>2, <2>3, <2>5 DEF Transfer, SameButTable
    <2>7. Len(x.table) <= Len(y.table)
      BY <2>3, <2>6, Fields
    <2> QED BY <2>4, <2>6, <2>7
  <1> QED BY <1>1, <1>2

(* What the account of x has become after some requests.                   *)
Grown(x, y) ==
    /\ y \in Transfer /\ SameButTable(x, y)
    /\ Len(x.table) <= Len(y.table)
    /\ Range(x.table) \subseteq Range(y.table)

(* The loop of requestRetransmitBlocks: every missing block of the range   *)
(* is in the table, unless the table has reached its limit.                *)
LEMMA ManyRequests ==
    ASSUME NEW x \in Transfer, NEW start \in Nat, NEW end \in Nat,
           NEW y, y = RequestRetransmitBlocks(x, start, end)
    PROVE  /\ Grown(x, y)
           /\ Len(y.table) # TABLE_LIMIT =>
                \A b \in start .. end - 1 : GotBlock(x, b) \/ b \in Range(y.table)
  <1>1. CASE ~(start < end)
    <2>1. y = x
      BY <1>1 DEF RequestRetransmitBlocks
    <2>2. start .. end - 1 = {}
      BY <1>1
    <2> QED BY <2>1, <2>2, Fields DEF Grown, SameButTable
  <1>2. CASE start < end
    <2>1. PICK n \in Nat : n = end - start /\ n >= 1
      BY <1>2
    <2>2. PICK d : d = [i \in 1 .. n |->
                          [v \in Transfer |-> RequestRetransmit(v, start + i - 1)]]
      OBVIOUS
    <2>3. d \in [1 .. n -> [Transfer -> Transfer]]
      <3>1. ASSUME NEW i \in 1 .. n, NEW v \in Transfer
            PROVE  RequestRetransmit(v, start + i - 1) \in Transfer
        <4>1. start + i - 1 \in Nat
          OBVIOUS
        <4> QED BY <4>1, OneRequest
      <3> QED BY <2>2, <3>1
    <2>4. PICK f \in [0 .. n -> Transfer] :
             f[0] = x /\ \A i \in 1 .. n : f[i] = d[i][f[i - 1]]
      <3>1. d \in Steps(n, Transfer)
        BY <2>3 DEF Steps
      <3>2. PICK f : Run(n, Transfer, x, d, f)
        BY <3>1, RecursionExists, Zenon
      <3> QED BY <3>2 DEF Run
    <2>5. ASSUME NEW i \in 1 .. n
          PROVE  f[i - 1] \in Transfer /\ f[i] = RequestRetransmit(f[i - 1], start + i - 1)
      <3>1. i - 1 \in 0 .. n
        OBVIOUS
      <3>2. f[i - 1] \in Transfer
        BY <3>1
      <3> QED BY <2>2, <2>4, <3>2
    <2> DEFINE Loop(g) == g = [i \in 0 .. n |-> IF i = 0 THEN x ELSE
                                   RequestRetransmit(g[i - 1], start + i - 1)]
    <2>6. Loop(f)
      <3> DEFINE h == [i \in 0 .. n |-> IF i = 0 THEN x ELSE
                                   RequestRetransmit(f[i - 1], start + i - 1)]
      <3>1. ASSUME NEW i \in 0 .. n PROVE f[i] = h[i]
        BY <2>4, <2>5
      <3> HIDE DEF h
      <3>2. f = [i \in 0 .. n |-> f[i]]
        BY <2>4
      <3>3. h = [i \in 0 .. n |-> h[i]]
        BY DEF h
      <3>4. f = h
        BY <3>1, <3>2, <3>3
      <3> QED BY <3>4 DEF h
    <2> DEFINE after == CHOOSE g : Loop(g)
    <2>7. Loop(after)
      <3> HIDE DEF Loop
      <3> QED BY <2>6, Zenon
    <2>8. y = after[n]
      BY <1>2, <2>1 DEF RequestRetransmitBlocks
    <2> HIDE DEF after
    <2> DEFINE S == {i \in 0 .. n :
                  /\ Grown(x, after[i])
                  /\ Len(after[i].table) # TABLE_LIMIT =>
                       \A b \in start .. start + i - 1 :
                           GotBlock(x, b) \/ b \in Range(after[i].table)}
    <2>9. 0 \in S
      <3>1. after[0] = x
        BY <2>1, <2>7
      <3>2. start .. start + 0 - 1 = {}
        OBVIOUS
      <3> QED BY <2>1, <3>1, <3>2, Fields DEF Grown, SameButTable
    <2>10. \A i \in 1 .. n : i - 1 \in S => i \in S
      <3> SUFFICES ASSUME NEW i \in 1 .. n, i - 1 \in S PROVE i \in S
        OBVIOUS
      <3> DEFINE v == after[i - 1]
                 w == after[i]
                 c == start + i - 1
      <3>1. w = RequestRetransmit(v, c)
        BY <2>7
      <3>2. /\ Grown(x, v)
            /\ Len(v.table) # TABLE_LIMIT =>
                 \A b \in start .. c - 1 : GotBlock(x, b) \/ b \in Range(v.table)
        BY <2>1
      <3>3. c \in Nat /\ i \in 0 .. n /\ start + i - 1 = c
        OBVIOUS
      <3> HIDE DEF v, w, c
      <3>4. /\ Grown(v, w)
            /\ GotBlock(v, c) \/ c \in Range(w.table) \/ Len(w.table) = TABLE_LIMIT
        BY <3>1, <3>2, <3>3, OneRequest DEF Grown
      <3>5. Grown(x, w)
        <4>1. Len(x.table) \in Nat /\ Len(v.table) \in Nat /\ Len(w.table) \in Nat
          BY <3>2, <3>4, Fields DEF Grown
        <4>2. Len(x.table) <= Len(w.table)
          <5>1. Len(x.table) <= Len(v.table)
            BY <3>2 DEF Grown
          <5>2. Len(v.table) <= Len(w.table)
            BY <3>4 DEF Grown
          <5>3. \A i1, i2, i3 \in Nat : i1 <= i2 /\ i2 <= i3 => i1 <= i3
            OBVIOUS
          <5> QED BY <4>1, <5>1, <5>2, <5>3, Zenon
        <4> QED BY <3>2, <3>4, <4>2 DEF Grown, SameButTable
      <3>6. ASSUME Len(w.table) # TABLE_LIMIT, NEW b \in start .. c
            PROVE  GotBlock(x, b) \/ b \in Range(w.table)
        <4>1. Len(v.table) # TABLE_LIMIT
          <5>1. /\ Len(v.table) \in Nat /\ Len(w.table) \in Nat /\ TABLE_LIMIT \in Nat
                /\ Len(w.table) <= TABLE_LIMIT
            <6>1. v \in Transfer /\ w \in Transfer
              BY <3>2, <3>4 DEF Grown
            <6>2. Len(w.table) <= w.tableSize /\ w.tableSize <= TABLE_LIMIT
              BY <6>1, Fields
            <6> QED BY <6>1, <6>2, Fields
          <5> QED BY <3>4, <3>6, <5>1 DEF Grown
        <4>2. CASE b = c
          BY <3>2, <3>4, <3>6, <4>2 DEF Grown, SameButTable, GotBlock
        <4>3. CASE b # c
          <5>1. b \in start .. c - 1
            BY <3>3, <4>3
          <5> QED BY <3>2, <3>4, <4>1, <5>1 DEF Grown
        <4> QED BY <4>2, <4>3
      <3> QED BY <3>3, <3>5, <3>6 DEF w
    <2>11. n \in S
      <3>1. n \in 0 .. n
        BY <2>1
      <3> HIDE DEF S
      <3> QED BY <2>1, <2>9, <2>10, <3>1, StepsReach
    <2>12. start + n - 1 = end - 1
      BY <2>1
    <2> QED BY <2>8, <2>11, <2>12
  <1> QED BY <1>1, <1>2

(* The loop of repeatRetransmit: K is made of wanted entries of the table, *)
(* and of all of them unless it is as long as a restart takes.             *)
KeepsWanted(x, i, K) ==
    /\ K \in Seq(Blocks) /\ Len(K) <= i /\ Len(K) <= MAX_RETRANSMISSION_BUFFER
    /\ \A j \in 1 .. Len(K) : Wanted(x, K[j]) /\ K[j] \in Range(x.table)
    /\ \A j \in 1 .. i : Wanted(x, x.table[j]) =>
           \/ x.table[j] \in Range(K)
           \/ Len(K) = MAX_RETRANSMISSION_BUFFER /\ j > Len(K)

LEMMA WantedInFile ==
    ASSUME NEW x, NEW b \in {0} \union Blocks, Wanted(x, b)
    PROVE  b \in Blocks /\ b \notin x.received
  BY Numbers DEF Wanted, GotBlock, Blocks

(* One turn of the loop.                                                   *)
LEMMA KeepStep ==
    ASSUME NEW x \in Transfer, NEW i \in 1 .. Len(x.table),
           NEW before, KeepsWanted(x, i - 1, before),
           NEW K, K = IF Wanted(x, x.table[i]) /\ Len(before) < MAX_RETRANSMISSION_BUFFER
                      THEN Append(before, x.table[i]) ELSE before
    PROVE  KeepsWanted(x, i, K)
  <1> DEFINE b == x.table[i]
  <1>1. /\ before \in Seq(Blocks) /\ Len(before) \in Nat /\ Len(before) <= i - 1
        /\ Len(before) <= MAX_RETRANSMISSION_BUFFER
        /\ MAX_RETRANSMISSION_BUFFER \in Nat
    BY Numbers DEF KeepsWanted
  <1>2. b \in {0} \union Blocks /\ b \in Range(x.table)
    BY Fields DEF Range
  <1>3. \A j \in 1 .. Len(before) : Wanted(x, before[j]) /\ before[j] \in Range(x.table)
    BY DEF KeepsWanted
  <1>4. \A j \in 1 .. i - 1 : Wanted(x, x.table[j]) =>
           \/ x.table[j] \in Range(before)
           \/ Len(before) = MAX_RETRANSMISSION_BUFFER /\ j > Len(before)
    BY DEF KeepsWanted
  <1>5. CASE Wanted(x, b) /\ Len(before) < MAX_RETRANSMISSION_BUFFER
    <2>1. b \in Blocks
      BY <1>2, <1>5, WantedInFile
    <2>2. K = Append(before, b)
      BY <1>5
    <2>3. /\ K \in Seq(Blocks) /\ Len(K) = Len(before) + 1 /\ K[Len(before) + 1] = b
          /\ \A j \in 1 .. Len(before) : K[j] = before[j]
      BY <1>1, <2>1, <2>2
    <2>4. b \in Range(K) /\ Range(before) \subseteq Range(K)
      BY <1>1, <2>3 DEF Range
    <2>5. \A j \in 1 .. Len(K) : Wanted(x, K[j]) /\ K[j] \in Range(x.table)
      BY <1>1, <1>2, <1>3, <1>5, <2>3
    <2>6. \A j \in 1 .. i : Wanted(x, x.table[j]) => x.table[j] \in Range(K)
      BY <1>1, <1>4, <1>5, <2>4
    <2>7. Len(K) <= i /\ Len(K) <= MAX_RETRANSMISSION_BUFFER
      BY <1>1, <1>5, <2>3, SMTT(30)
    <2> QED BY <2>3, <2>5, <2>6, <2>7 DEF KeepsWanted
  <1>6. CASE ~(Wanted(x, b) /\ Len(before) < MAX_RETRANSMISSION_BUFFER)
    <2>1. K = before
      BY <1>6
    <2>2. \A j \in 1 .. i : Wanted(x, x.table[j]) =>
             \/ x.table[j] \in Range(before)
             \/ Len(before) = MAX_RETRANSMISSION_BUFFER /\ j > Len(before)
      <3>1. ASSUME Wanted(x, b)
            PROVE  Len(before) = MAX_RETRANSMISSION_BUFFER /\ i > Len(before)
        BY <1>1, <1>6, <3>1
      <3> QED BY <1>1, <1>4, <3>1
    <2>3. Len(before) <= i
      BY <1>1
    <2> QED BY <1>1, <1>3, <2>1, <2>2, <2>3 DEF KeepsWanted
  <1> QED BY <1>5, <1>6

LEMMA KeptKeeps ==
    ASSUME NEW x \in Transfer
    PROVE  KeepsWanted(x, Len(x.table), Kept(x))
  <1> DEFINE V == Seq(Blocks)
  <1>1. PICK n \in Nat : n = Len(x.table)
    BY Fields
  <1>2. PICK d : d = [i \in 1 .. n |-> [v \in V |->
                IF Wanted(x, x.table[i]) /\ Len(v) < MAX_RETRANSMISSION_BUFFER
                THEN Append(v, x.table[i]) ELSE v]]
    OBVIOUS
  <1>3. d \in Steps(n, V)
    <2>1. ASSUME NEW i \in 1 .. n, NEW v \in V, Wanted(x, x.table[i])
          PROVE  Append(v, x.table[i]) \in V
      <3>1. x.table[i] \in {0} \union Blocks
        BY <1>1, Fields
      <3>2. x.table[i] \in Blocks
        BY <2>1, <3>1, WantedInFile
      <3> QED BY <3>2
    <2> QED BY <1>2, <2>1 DEF Steps
  <1>4. <<>> \in V
    OBVIOUS
  <1>5. PICK f : Run(n, V, <<>>, d, f)
    <2> HIDE DEF V
    <2> QED BY <1>3, <1>4, RecursionExists, Zenon
  <1>6. /\ f \in [0 .. n -> V] /\ f[0] = <<>>
        /\ \A i \in 1 .. n : f[i] = d[i][f[i - 1]]
    BY <1>5 DEF Run
  <1>7. ASSUME NEW i \in 1 .. n
        PROVE  f[i] = IF Wanted(x, x.table[i]) /\ Len(f[i - 1]) < MAX_RETRANSMISSION_BUFFER
                      THEN Append(f[i - 1], x.table[i]) ELSE f[i - 1]
    <2>1. i - 1 \in 0 .. n
      OBVIOUS
    <2>2. f[i - 1] \in V
      BY <1>6, <2>1
    <2> HIDE DEF V
    <2> QED BY <1>2, <1>6, <2>2
  <1> DEFINE Turn(i, before) ==
                IF Wanted(x, x.table[i]) /\ Len(before) < MAX_RETRANSMISSION_BUFFER
                THEN Append(before, x.table[i]) ELSE before
             Loop(g) == g = [i \in 0 .. Len(x.table) |-> IF i = 0 THEN <<>> ELSE
                                   LET before == g[i - 1] IN Turn(i, before)]
  <1>8. Loop(f)
    <2> DEFINE h == [i \in 0 .. n |-> IF i = 0 THEN <<>> ELSE Turn(i, f[i - 1])]
    <2>1. ASSUME NEW i \in 0 .. n PROVE f[i] = h[i]
      <3>1. CASE i = 0
        BY <1>6, <3>1
      <3>2. CASE i # 0
        <4>1. i \in 1 .. n /\ h[i] = Turn(i, f[i - 1])
          BY <3>2
        <4>2. f[i] = Turn(i, f[i - 1])
          BY <1>7, <4>1
        <4> QED BY <4>1, <4>2
      <3> QED BY <3>1, <3>2
    <2> HIDE DEF h
    <2>2. f = [i \in 0 .. n |-> f[i]]
      BY <1>6
    <2>3. h = [i \in 0 .. n |-> h[i]]
      BY DEF h
    <2>4. f = h
      BY <2>1, <2>2, <2>3
    <2> QED BY <1>1, <2>4 DEF h
  <1> DEFINE kept == CHOOSE g : Loop(g)
  <1>9. Loop(kept)
    <2> HIDE DEF Loop
    <2> QED BY <1>8, Zenon
  <1>10. Kept(x) = kept[n]
    BY <1>1 DEF Kept
  <1> HIDE DEF kept
  <1> DEFINE S == {i \in 0 .. n : KeepsWanted(x, i, kept[i])}
  <1>11. 0 \in S
    <2>1. kept[0] = <<>>
      BY <1>1, <1>9
    <2>2. KeepsWanted(x, 0, <<>>)
      BY Numbers DEF KeepsWanted
    <2> QED BY <2>1, <2>2
  <1>12. ASSUME NEW i \in 1 .. n, i - 1 \in S PROVE i \in S
    <2>1. kept[i] = Turn(i, kept[i - 1])
      <3> HIDE DEF Turn
      <3>1. i \in 0 .. n /\ i # 0
        OBVIOUS
      <3> QED BY <1>1, <1>9, <3>1
    <2>2. KeepsWanted(x, i - 1, kept[i - 1])
      BY <1>12
    <2>3. KeepsWanted(x, i, kept[i])
      BY <1>1, <2>1, <2>2, KeepStep
    <2> QED BY <2>3
  <1>13. n \in S
    <2>1. n \in 0 .. n
      OBVIOUS
    <2> HIDE DEF S
    <2> QED BY <1>11, <1>12, <2>1, StepsReach
  <1> QED BY <1>1, <1>10, <1>13

(* What repeatRetransmit keeps is missing; it keeps all that is missing    *)
(* unless it restarts.                                                     *)
LEMMA KeptFacts ==
    ASSUME NEW x \in Transfer
    PROVE  /\ Kept(x) \in Seq(Blocks) /\ Len(Kept(x)) \in Nat
           /\ Len(Kept(x)) <= Len(x.table)
           /\ \A j \in 1 .. Len(Kept(x)) : Kept(x)[j] \in Blocks \ x.received
           /\ ~TooMany(x) => \A b \in Range(x.table) : Wanted(x, b) => b \in Range(Kept(x))
  <1>1. PICK K : K = Kept(x)
    OBVIOUS
  <1>2. KeepsWanted(x, Len(x.table), K)
    BY <1>1, KeptKeeps
  <1>3. /\ K \in Seq(Blocks) /\ Len(K) \in Nat /\ Len(K) <= Len(x.table)
        /\ Len(K) <= MAX_RETRANSMISSION_BUFFER
    BY <1>2 DEF KeepsWanted
  <1>4. ASSUME NEW j \in 1 .. Len(K) PROVE K[j] \in Blocks \ x.received
    <2>1. K[j] \in {0} \union Blocks /\ Wanted(x, K[j])
      BY <1>2, <1>3 DEF KeepsWanted
    <2> QED BY <2>1, WantedInFile
  <1>5. ASSUME ~TooMany(x), NEW b \in Range(x.table), Wanted(x, b)
        PROVE  b \in Range(K)
    <2>1. PICK j \in 1 .. Len(x.table) : b = x.table[j]
      BY Fields DEF Range
    <2>2. Len(K) # MAX_RETRANSMISSION_BUFFER
      BY <1>1, <1>3, <1>5, Numbers DEF TooMany
    <2> QED BY <1>2, <1>5, <2>1, <2>2 DEF KeepsWanted
  <1> QED BY <1>1, <1>3, <1>4, <1>5

(* The array after the compaction holds what was wanted before.            *)
LEMMA CompactedFacts ==
    ASSUME NEW x \in Transfer
    PROVE  /\ Compacted(x) \in Seq({0} \union Blocks)
           /\ Len(Compacted(x)) = Len(x.table)
           /\ \A b \in Range(x.table) : Wanted(x, b) => b \in Range(Compacted(x))
  <1>1. PICK K : K = Kept(x)
    OBVIOUS
  <1>2. PICK t : t = x.table
    OBVIOUS
  <1>3. PICK C : C = K \o SubSeq(t, Len(K) + 1, Len(t))
    OBVIOUS
  <1>4. /\ t \in Seq({0} \union Blocks) /\ Len(t) \in Nat
        /\ K \in Seq({0} \union Blocks) /\ Len(K) \in Nat /\ Len(K) <= Len(t)
    BY <1>1, <1>2, KeptFacts, Fields
  <1>5. /\ C \in Seq({0} \union Blocks) /\ Len(C) = Len(t)
        /\ \A j \in 1 .. Len(K) : C[j] = K[j]
        /\ \A j \in Len(K) + 1 .. Len(t) : C[j] = t[j]
    <2>1. PICK rest : rest = SubSeq(t, Len(K) + 1, Len(t))
      OBVIOUS
    <2>2. /\ rest \in Seq({0} \union Blocks) /\ Len(rest) = Len(t) - Len(K)
          /\ \A j \in 1 .. Len(t) - Len(K) : rest[j] = t[Len(K) + j]
      BY <1>4, <2>1
    <2>3. C = K \o rest
      BY <1>3, <2>1
    <2>4. /\ C \in Seq({0} \union Blocks) /\ Len(C) = Len(K) + Len(rest)
          /\ \A j \in 1 .. Len(K) : C[j] = K[j]
          /\ \A j \in Len(K) + 1 .. Len(K) + Len(rest) : C[j] = rest[j - Len(K)]
      BY <1>4, <2>2, <2>3
    <2>5. ASSUME NEW j \in Len(K) + 1 .. Len(t) PROVE C[j] = t[j]
      <3>1. j - Len(K) \in 1 .. Len(t) - Len(K) /\ Len(K) + (j - Len(K)) = j
        BY <1>4
      <3> QED BY <1>4, <2>2, <2>4, <3>1
    <2>6. Len(C) = Len(t)
      BY <1>4, <2>2, <2>4
    <2> QED BY <2>4, <2>5, <2>6
  <1>6. ASSUME NEW b \in Range(t), Wanted(x, b) PROVE b \in Range(C)
    <2>1. PICK j \in 1 .. Len(t) : b = t[j]
      BY <1>4 DEF Range
    <2>2. b \in Range(K) \/ j > Len(K)
      BY <1>1, <1>2, <1>6, <2>1, KeptKeeps DEF KeepsWanted
    <2>3. CASE j > Len(K)
      <3>1. b = C[j] /\ j \in 1 .. Len(C)
        BY <1>4, <1>5, <2>1, <2>3
      <3> QED BY <1>5, <3>1 DEF Range
    <2>4. CASE b \in Range(K)
      <3>1. PICK k \in 1 .. Len(K) : b = K[k]
        BY <1>4, <2>4 DEF Range
      <3>2. b = C[k] /\ k \in 1 .. Len(C)
        BY <1>4, <1>5, <3>1
      <3> QED BY <1>5, <3>2 DEF Range
    <2> QED BY <2>2, <2>3, <2>4
  <1>7. C = Compacted(x)
    BY <1>1, <1>2, <1>3 DEF Compacted
  <1> QED BY <1>2, <1>5, <1>6, <1>7

(* A restart names a block of the file, at most the one behind the prefix. *)
LEMMA RestartBlockInFile ==
    ASSUME NEW x \in Transfer
    PROVE  /\ RestartBlock(x) \in 0 .. blockCount
           /\ x.gaplessToBlock + 1 < UINT =>
                RestartBlock(x) \in Blocks /\ RestartBlock(x) <= x.gaplessToBlock + 1
  <1>1. x.gaplessToBlock \in Nat /\ x.gaplessToBlock + 1 \in Int
    BY Fields
  <1>2. PICK first : first = (x.gaplessToBlock + 1) % UINT
    OBVIOUS
  <1>3. /\ first \in 0 .. UINT - 1
        /\ x.gaplessToBlock + 1 < UINT => first = x.gaplessToBlock + 1
    BY <1>1, <1>2, Remainder, Numbers
  <1>4. RestartBlock(x) = IF blockCount > first THEN first ELSE blockCount
    BY <1>2 DEF RestartBlock
  <1> QED BY <1>1, <1>3, <1>4, Numbers DEF Blocks

(* What is written: requests for missing blocks, or one restart.           *)
LEMMA RequestsFacts ==
    ASSUME NEW x \in Transfer, NEW r \in Range(Requests(x))
    PROVE  \/ /\ ~TooMany(x) /\ r.type = "retransmit"
              /\ r.block \in Blocks \ x.received
           \/ /\ TooMany(x) /\ r.type = "restart" /\ r.block = RestartBlock(x)
  <1>1. CASE TooMany(x)
    <2>1. Requests(x) = <<[type |-> "restart", block |-> RestartBlock(x)]>>
      BY <1>1 DEF Requests
    <2>2. r = [type |-> "restart", block |-> RestartBlock(x)]
      BY <2>1 DEF Range
    <2> QED BY <1>1, <2>2
  <1>2. CASE ~TooMany(x)
    <2>1. Requests(x) = [i \in 1 .. Len(Kept(x)) |->
                            [type |-> "retransmit", block |-> Kept(x)[i]]]
      BY <1>2 DEF Requests
    <2>2. PICK i \in 1 .. Len(Kept(x)) : r = [type |-> "retransmit", block |-> Kept(x)[i]]
      BY <2>1 DEF Range
    <2>3. r.type = "retransmit" /\ r.block = Kept(x)[i]
      BY <2>2
    <2> QED BY <1>2, <2>3, KeptFacts
  <1> QED BY <1>1, <1>2

-----------------------------------------------------------------------------
(* The operations on the account.                                          *)

LEMMA RepeatFacts ==
    ASSUME NEW x \in Transfer, NEW y, y = RepeatRetransmit(x)
    PROVE  /\ y \in Transfer
           /\ y.mode = x.mode /\ y.received = x.received
           /\ y.gaplessToBlock = x.gaplessToBlock
           /\ \/ /\ TooMany(x) /\ y.nextBlock = RestartBlock(x)
              \/ /\ ~TooMany(x) /\ y.nextBlock = x.nextBlock
                 /\ \A b \in Range(x.table) : Wanted(x, b) => b \in Range(y.table)
  <1>1. CASE TooMany(x)
    <2>1. PICK last : last = Last(Compacted(x))
      OBVIOUS
    <2>2. last \in 0 .. blockCount
      <3>1. Len(Compacted(x)) \in Nat /\ Len(Compacted(x)) >= 1
        BY <1>1, KeptFacts, CompactedFacts, Fields, Numbers DEF TooMany
      <3>2. Len(Compacted(x)) \in 1 .. Len(Compacted(x))
        BY <3>1
      <3>3. Compacted(x)[Len(Compacted(x))] \in {0} \union Blocks
        BY <3>2, CompactedFacts
      <3> QED BY <2>1, <3>3, Numbers DEF Last, Blocks
    <2>3. PICK clear : clear = IF blockCount > last + onWireEstimate
                               THEN last + onWireEstimate ELSE blockCount
      OBVIOUS
    <2>4. clear \in 0 .. blockCount
      BY <2>2, <2>3, Numbers
    <2>5. y = [x EXCEPT !.table = <<>>, !.nextBlock = RestartBlock(x),
                        !.restartPending = TRUE, !.restartLastIndex = last,
                        !.restartWireClearIndex = clear]
      BY <1>1, <2>1, <2>3 DEF RepeatRetransmit, Restarted
    <2>6. RestartBlock(x) \in 0 .. UINT - 1
      BY RestartBlockInFile, Numbers
    <2>7. <<>> \in Seq({0} \union Blocks) /\ Len(<<>>) = 0
      OBVIOUS
    <2>8. 0 <= x.tableSize
      BY Fields
    <2>9. y \in Transfer
      BY <2>2, <2>4, <2>5, <2>6, <2>7, <2>8 DEF Transfer
    <2> QED BY <1>1, <2>5, <2>9 DEF Transfer
  <1>2. CASE ~TooMany(x)
    <2>1. PICK K : K = Kept(x)
      OBVIOUS
    <2>2. y = [x EXCEPT !.table = K]
      BY <1>2, <2>1 DEF RepeatRetransmit
    <2>3. K \in Seq({0} \union Blocks) /\ Len(K) <= x.tableSize
      BY <2>1, KeptFacts, Fields
    <2>4. y \in Transfer /\ y.table = K
      BY <2>2, <2>3 DEF Transfer
    <2>5. /\ y.mode = x.mode /\ y.received = x.received
          /\ y.gaplessToBlock = x.gaplessToBlock /\ y.nextBlock = x.nextBlock
      BY <2>2 DEF Transfer
    <2> QED BY <1>2, <2>1, <2>4, <2>5, KeptFacts
  <1> QED BY <1>1, <1>2

LEMMA RepeatFailedFacts ==
    ASSUME NEW x \in Transfer, NEW y, y = RepeatFailed(x)
    PROVE  /\ y \in Transfer /\ SameButTable(x, y)
           /\ \A b \in Range(x.table) : Wanted(x, b) => b \in Range(y.table)
  <1>1. PICK t : t = IF TooMany(x) THEN Compacted(x) ELSE Kept(x)
    OBVIOUS
  <1>2. /\ t \in Seq({0} \union Blocks) /\ Len(t) <= Len(x.table)
        /\ \A b \in Range(x.table) : Wanted(x, b) => b \in Range(t)
    <2>1. CASE TooMany(x)
      BY <1>1, <2>1, CompactedFacts, Fields
    <2>2. CASE ~TooMany(x)
      BY <1>1, <2>2, KeptFacts
    <2> QED BY <2>1, <2>2
  <1>3. y = [x EXCEPT !.table = t]
    BY <1>1 DEF RepeatFailed
  <1>4. Len(t) <= x.tableSize
    <2>1. Len(t) \in Nat
      BY <1>2
    <2> QED BY <1>2, <2>1, Fields
  <1>5. y \in Transfer /\ SameButTable(x, y) /\ y.table = t
    BY <1>2, <1>3, <1>4 DEF Transfer, SameButTable
  <1> QED BY <1>2, <1>5

LEMMA Smaller ==
    ASSUME NEW a \in Int, NEW b \in Int
    PROVE  Min({a, b}) \in {a, b}
  BY DEF Min

(* A gap in front of block b: the table grows, and the prefix moves only   *)
(* in the modes that give blocks up.                                       *)
Queued(x, b, y) ==
    /\ y \in Transfer
    /\ y.mode = x.mode /\ y.received = x.received
    /\ Range(x.table) \subseteq Range(y.table)
    /\ x.mode = "lossy" => y.gaplessToBlock = b /\ y.nextBlock = x.nextBlock
    /\ x.mode = "lossless" =>
         /\ y.gaplessToBlock = x.gaplessToBlock /\ y.nextBlock = x.nextBlock
         /\ Len(y.table) # TABLE_LIMIT =>
              \A m \in x.nextBlock .. b - 1 : GotBlock(x, m) \/ m \in Range(y.table)

LEMMA QueueMissingFacts ==
    ASSUME NEW x \in Transfer, NEW b \in 1 .. UINT - 1, NEW w \in Nat,
           NEW y, y = QueueMissing(x, b, w)
    PROVE  Queued(x, b, y)
  <1>1. x.mode \in {"lossless", "lossy", "semilossy"} /\ b \in Nat
    <2>1. x.mode \in Modes
      BY Fields
    <2>2. b \in Nat
      BY Numbers
    <2> QED BY <2>1, <2>2, RetransmissionAssumption
  <1>2. CASE x.mode = "lossless"
    <2>1. y = RequestRetransmitBlocks(x, x.nextBlock, b)
      BY <1>2 DEF QueueMissing
    <2>2. /\ Grown(x, y)
          /\ Len(y.table) # TABLE_LIMIT =>
               \A m \in x.nextBlock .. b - 1 : GotBlock(x, m) \/ m \in Range(y.table)
      BY <1>1, <2>1, Fields, ManyRequests
    <2> QED BY <1>2, <2>2 DEF Grown, SameButTable, Queued
  <1>3. CASE x.mode = "lossy"
    <2>1. y = [x EXCEPT !.gaplessToBlock = b]
      BY <1>3 DEF QueueMissing
    <2>2. b \in 0 .. UINT - 1
      BY Numbers
    <2>3. y \in Transfer
      BY <2>1, <2>2 DEF Transfer
    <2> QED BY <1>3, <2>1, <2>3 DEF Transfer, Queued
  <1>4. CASE x.mode = "semilossy"
    <2>1. PICK back : back = Min({w, (b - x.gaplessToBlock) % UINT})
      OBVIOUS
    <2>2. back \in Int
      <3>1. b - x.gaplessToBlock \in Int
        BY <1>1, Fields
      <3>2. (b - x.gaplessToBlock) % UINT \in Int
        BY <3>1, Remainder, Numbers
      <3> QED BY <2>1, <3>2, Smaller
    <2>3. PICK earliest : earliest = (b - back) % UINT
      OBVIOUS
    <2>4. earliest \in 0 .. UINT - 1 /\ earliest \in Nat
      <3>1. b - back \in Int
        BY <1>1, <2>2
      <3> QED BY <2>3, <3>1, Remainder, Numbers
    <2>5. PICK z : z = RequestRetransmitBlocks(x, earliest, b)
      OBVIOUS
    <2>6. Grown(x, z)
      BY <1>1, <2>4, <2>5, ManyRequests
    <2>7. y = [z EXCEPT !.nextBlock = earliest, !.gaplessToBlock = earliest]
      BY <1>4, <2>1, <2>3, <2>5 DEF QueueMissing
    <2>8. y \in Transfer /\ y.mode = z.mode /\ y.received = z.received /\ y.table = z.table
      BY <2>4, <2>6, <2>7 DEF Transfer, Grown
    <2> QED BY <1>4, <2>6, <2>8 DEF Grown, SameButTable, Queued
  <1> QED BY <1>1, <1>2, <1>3, <1>4

(* The end block: what lies behind the prefix is asked for.                *)
LEMMA QueueRestFacts ==
    ASSUME NEW x \in Transfer, NEW y, y = QueueRest(x)
    PROVE  /\ Grown(x, y)
           /\ x.gaplessToBlock + 1 < UINT /\ Len(y.table) # TABLE_LIMIT =>
                \A m \in x.gaplessToBlock + 1 .. blockCount - 1 :
                    GotBlock(x, m) \/ m \in Range(y.table)
  <1>1. PICK first : first = (x.gaplessToBlock + 1) % UINT
    OBVIOUS
  <1>2. /\ first \in Nat
        /\ x.gaplessToBlock + 1 < UINT => first = x.gaplessToBlock + 1
    <2>1. x.gaplessToBlock + 1 \in Int /\ x.gaplessToBlock \in Nat
      BY Fields
    <2> QED BY <1>1, <2>1, Remainder, Numbers
  <1>3. y = RequestRetransmitBlocks(x, first, blockCount)
    BY <1>1 DEF QueueRest
  <1>4. /\ Grown(x, y)
        /\ Len(y.table) # TABLE_LIMIT =>
             \A m \in first .. blockCount - 1 : GotBlock(x, m) \/ m \in Range(y.table)
    BY <1>2, <1>3, Numbers, ManyRequests
  <1> QED BY <1>2, <1>4

(* The prefix grows over received blocks of the file only.                 *)
LEMMA AdvanceFacts ==
    ASSUME NEW x \in Transfer, NEW y, y = AdvanceGapless(x)
    PROVE  /\ y \in Transfer
           /\ y.mode = x.mode /\ y.received = x.received /\ y.table = x.table
           /\ y.nextBlock = x.nextBlock
           /\ \/ y.gaplessToBlock = x.gaplessToBlock
              \/ /\ y.gaplessToBlock \in Blocks
                 /\ \A b \in x.gaplessToBlock + 1 .. y.gaplessToBlock : b \in x.received
  <1>1. PICK g0 : g0 = x.gaplessToBlock
    OBVIOUS
  <1>2. PICK T : T = {g0} \union {g \in Blocks : \A b \in g0 + 1 .. g : GotBlock(x, b)}
    OBVIOUS
  <1>3. g0 \in Nat /\ g0 \in 0 .. UINT - 1 /\ Blocks \subseteq 0 .. UINT - 1
    BY <1>1, Fields, Numbers DEF Blocks
  <1>4. T \subseteq 0 .. UINT - 1 /\ g0 \in T
    BY <1>2, <1>3
  <1>5. PICK top \in T : \A m \in T : m <= top
    <2>1. UINT - 1 \in Nat /\ T # {}
      BY <1>4, Numbers
    <2> QED BY <1>4, <2>1, GreatestElement
  <1>6. Max(T) \in T
    <2>1. \A m \in T : top >= m
      BY <1>3, <1>4, <1>5, Numbers
    <2> QED BY <1>5, <2>1 DEF Max
  <1>7. y = [x EXCEPT !.gaplessToBlock = Max(T)]
    BY <1>1, <1>2 DEF AdvanceGapless
  <1>8. PICK g : g = Max(T)
    OBVIOUS
  <1>9. y \in Transfer /\ y.gaplessToBlock = g
    BY <1>4, <1>6, <1>7, <1>8 DEF Transfer
  <1>10. /\ y.mode = x.mode /\ y.received = x.received /\ y.table = x.table
         /\ y.nextBlock = x.nextBlock
    BY <1>7 DEF Transfer
  <1>11. CASE g # g0
    <2>1. g \in Blocks /\ \A b \in g0 + 1 .. g : GotBlock(x, b)
      BY <1>2, <1>6, <1>8, <1>11
    <2>2. ASSUME NEW b \in g0 + 1 .. g PROVE b \in x.received
      <3>1. b <= blockCount
        BY <1>3, <2>1, Numbers DEF Blocks
      <3> QED BY <2>1, <3>1, Numbers, <1>3 DEF GotBlock, Blocks
    <2> QED BY <1>1, <1>9, <1>10, <2>1, <2>2
  <1> QED BY <1>1, <1>9, <1>10, <1>11

LEMMA EndRestartFacts ==
    ASSUME NEW x \in Transfer, NEW y, y = EndRestart(x)
    PROVE  /\ y \in Transfer
           /\ y.mode = x.mode /\ y.received = x.received /\ y.table = x.table
           /\ y.nextBlock = x.nextBlock /\ y.gaplessToBlock = x.gaplessToBlock
  <1>1. PICK p : p = (x.restartPending /\ x.nextBlock < x.restartLastIndex)
    OBVIOUS
  <1>2. p \in BOOLEAN
    BY <1>1, Zenon
  <1>3. y = [x EXCEPT !.restartPending = p]
    BY <1>1 DEF EndRestart
  <1> QED BY <1>2, <1>3 DEF Transfer

-----------------------------------------------------------------------------
(* The open module: the calls in any order.                                *)

(* The prefix does not pass the file by more than the one block that       *)
(* Arriving admits, and what is counted on is a block of the file.         *)
PrefixInFile ==
    /\ xfer.mode # "semilossy" => xfer.gaplessToBlock <= blockCount + 1
    /\ xfer.mode = "lossless" =>
         /\ xfer.gaplessToBlock <= blockCount
         /\ xfer.nextBlock \in 1 .. blockCount + 2

IInv ==
    /\ xfer \in Transfer /\ xfer.received \subseteq Blocks /\ asked \subseteq Blocks
    /\ PrefixInFile
    /\ GaplessHasNoGap /\ NoRequestForgotten
    /\ OnlyMissingRequested /\ RestartInFile

LEMMA FreshTransfer ==
    ASSUME NEW m \in Modes, NEW x, x = NewTransfer(m)
    PROVE  /\ x \in Transfer
           /\ x.received = {} /\ x.gaplessToBlock = 0 /\ x.nextBlock = 1
  <1>1. DEFAULT_TABLE_SIZE \in TableSizes /\ DEFAULT_TABLE_SIZE <= TABLE_LIMIT
    <2>1. PICK l \in {1, 2, 4, 8, 16} : TABLE_LIMIT = DEFAULT_TABLE_SIZE * l
      BY Numbers DEF TableSizes
    <2>2. DEFAULT_TABLE_SIZE <= DEFAULT_TABLE_SIZE * l
      BY Numbers
    <2>3. DEFAULT_TABLE_SIZE = DEFAULT_TABLE_SIZE * 1
      BY Numbers
    <2> QED BY <2>1, <2>2, <2>3 DEF TableSizes
  <1>2. <<>> \in Seq({0} \union Blocks) /\ Len(<<>>) = 0
    OBVIOUS
  <1> QED BY <1>1, <1>2, Numbers DEF NewTransfer, Transfer

LEMMA IInvInit == RetxInit => IInv
  <1> SUFFICES ASSUME RetxInit PROVE IInv
    OBVIOUS
  <1>1. PICK m \in Modes : xfer = NewTransfer(m)
    BY DEF RetxInit
  <1>2. written = <<>> /\ asked = {} /\ skipped = {} /\ Range(<<>>) = {} /\ 1 .. 0 = {}
    BY DEF RetxInit, Range
  <1>3. /\ xfer \in Transfer
        /\ xfer.received = {} /\ xfer.gaplessToBlock = 0 /\ xfer.nextBlock = 1
    BY <1>1, FreshTransfer
  <1>4. PrefixInFile
    BY <1>3, Numbers DEF PrefixInFile
  <1> QED BY <1>2, <1>3, <1>4
        DEF IInv, GaplessHasNoGap, NoRequestForgotten, OnlyMissingRequested, RestartInFile

(* No requests, none wrong.                                                *)
LEMMA NothingWritten ==
    ASSUME written' = <<>>
    PROVE  OnlyMissingRequested' /\ RestartInFile'
  <1>1. Range(written') = {}
    BY DEF Range
  <1> QED BY <1>1 DEF OnlyMissingRequested, RestartInFile

(* The requests written by a round.                                        *)
LEMMA WrittenRight ==
    ASSUME IInv, written' = Requests(xfer),
           xfer'.mode = xfer.mode, xfer'.received = xfer.received
    PROVE  OnlyMissingRequested' /\ RestartInFile'
  <1>1. xfer \in Transfer /\ PrefixInFile
    BY DEF IInv
  <1>2. ASSUME NEW r \in Range(written'), r.type = "retransmit"
        PROVE  r.block \in Blocks \ xfer.received
    BY <1>1, <1>2, RequestsFacts
  <1>3. ASSUME xfer.mode # "semilossy", NEW r \in Range(written'), r.type = "restart"
        PROVE  r.block \in Blocks
    <2>1. xfer.gaplessToBlock + 1 < UINT
      BY <1>1, <1>3, Fields, Numbers DEF PrefixInFile
    <2>2. r.block = RestartBlock(xfer)
      BY <1>1, <1>3, RequestsFacts
    <2> QED BY <1>1, <2>1, <2>2, RestartBlockInFile
  <1> QED BY <1>2, <1>3 DEF OnlyMissingRequested, RestartInFile, Blocks

LEMMA GapStep ==
    ASSUME IInv, NEW b \in Arriving, NEW w \in Windows, Gap(b, w)
    PROVE  IInv'
  <1>1. /\ xfer \in Transfer /\ xfer.received \subseteq Blocks /\ asked \subseteq Blocks
        /\ PrefixInFile /\ GaplessHasNoGap /\ NoRequestForgotten
    BY DEF IInv
  <1>2. b \in 1 .. UINT - 1 /\ b <= blockCount + 1 /\ w \in Nat
    BY Numbers DEF Arriving, Windows
  <1>3. xfer' = QueueMissing(xfer, b, w) /\ written' = <<>> /\ b > xfer.nextBlock
    BY DEF Gap
  <1>4. /\ xfer' \in Transfer
        /\ xfer'.mode = xfer.mode /\ xfer'.received = xfer.received
        /\ Range(xfer.table) \subseteq Range(xfer'.table)
        /\ xfer.mode = "lossy" => xfer'.gaplessToBlock = b /\ xfer'.nextBlock = xfer.nextBlock
        /\ xfer.mode = "lossless" =>
             /\ xfer'.gaplessToBlock = xfer.gaplessToBlock /\ xfer'.nextBlock = xfer.nextBlock
             /\ Len(xfer'.table) # TABLE_LIMIT =>
                  \A m \in xfer.nextBlock .. b - 1 :
                      GotBlock(xfer, m) \/ m \in Range(xfer'.table)
    <2>1. Queued(xfer, b, xfer')
      BY <1>1, <1>2, <1>3, QueueMissingFacts, Zenon
    <2> QED BY <2>1 DEF Queued
  <1>5. xfer.mode \in {"lossless", "lossy", "semilossy"}
    BY <1>1, Fields, RetransmissionAssumption
  <1>6. PrefixInFile'
    BY <1>1, <1>2, <1>4, <1>5 DEF PrefixInFile
  <1>7. GaplessHasNoGap'
    BY <1>1, <1>4 DEF GaplessHasNoGap
  <1>8. OnlyMissingRequested' /\ RestartInFile'
    BY <1>3, NothingWritten
  <1>9. PICK new : new = {m \in xfer.nextBlock .. b - 1 :
                            /\ xfer.mode = "lossless" /\ ~GotBlock(xfer, m)
                            /\ \/ Len(xfer'.table) < TABLE_LIMIT
                               \/ m \in Range(xfer'.table)}
    OBVIOUS
  <1>10. asked' = asked \union new /\ skipped' = skipped \ new
    BY <1>9 DEF Gap, Asking
  <1>11. new \subseteq Blocks
    BY <1>1, <1>2, <1>9, Numbers DEF PrefixInFile, GotBlock, Blocks
  <1>12. new \subseteq Range(xfer'.table)
    BY <1>4, <1>9
  <1>13. NoRequestForgotten'
    BY <1>1, <1>4, <1>10, <1>12 DEF NoRequestForgotten
  <1> QED BY <1>1, <1>4, <1>6, <1>7, <1>8, <1>10, <1>11, <1>13 DEF IInv

LEMMA EndRoundStep ==
    ASSUME IInv, EndRound
    PROVE  IInv'
  <1>1. /\ xfer \in Transfer /\ xfer.received \subseteq Blocks /\ asked \subseteq Blocks
        /\ PrefixInFile /\ GaplessHasNoGap /\ NoRequestForgotten
    BY DEF IInv
  <1>2. xfer' = QueueRest(xfer) /\ written' = <<>>
    BY DEF EndRound
  <1>3. /\ Grown(xfer, xfer')
        /\ xfer.gaplessToBlock + 1 < UINT /\ Len(xfer'.table) # TABLE_LIMIT =>
             \A m \in xfer.gaplessToBlock + 1 .. blockCount - 1 :
                 GotBlock(xfer, m) \/ m \in Range(xfer'.table)
    BY <1>1, <1>2, QueueRestFacts
  <1>4. /\ xfer' \in Transfer
        /\ xfer'.mode = xfer.mode /\ xfer'.received = xfer.received
        /\ xfer'.gaplessToBlock = xfer.gaplessToBlock /\ xfer'.nextBlock = xfer.nextBlock
        /\ Range(xfer.table) \subseteq Range(xfer'.table)
    BY <1>3 DEF Grown, SameButTable
  <1>5. PrefixInFile' /\ GaplessHasNoGap'
    BY <1>1, <1>4 DEF PrefixInFile, GaplessHasNoGap
  <1>6. OnlyMissingRequested' /\ RestartInFile'
    BY <1>2, NothingWritten
  <1>7. PICK new : new = {m \in xfer.gaplessToBlock + 1 .. blockCount - 1 :
                            /\ xfer.mode = "lossless" /\ ~GotBlock(xfer, m)
                            /\ \/ Len(xfer'.table) < TABLE_LIMIT
                               \/ m \in Range(xfer'.table)}
    OBVIOUS
  <1>8. asked' = asked \union new /\ skipped' = skipped \ new
    BY <1>7 DEF EndRound, Asking
  <1>9. xfer.mode = "lossless" => xfer.gaplessToBlock \in Nat /\ xfer.gaplessToBlock + 1 < UINT
    BY <1>1, Fields, Numbers DEF PrefixInFile
  <1>10. new \subseteq Blocks
    BY <1>7, <1>9, Numbers DEF Blocks
  <1>11. new \subseteq Range(xfer'.table)
    BY <1>3, <1>7, <1>9
  <1>12. NoRequestForgotten'
    BY <1>1, <1>4, <1>8, <1>11 DEF NoRequestForgotten
  <1> QED BY <1>1, <1>4, <1>5, <1>6, <1>8, <1>10, <1>12 DEF IInv

(* A restart makes up for the table it empties: what is counted on and not *)
(* sent again lies in the gapless prefix, or is the block it names.        *)
LEMMA RepeatStep ==
    ASSUME IInv, Repeat
    PROVE  IInv'
  <1>1. /\ xfer \in Transfer /\ xfer.received \subseteq Blocks /\ asked \subseteq Blocks
        /\ PrefixInFile /\ GaplessHasNoGap /\ NoRequestForgotten
    BY DEF IInv
  <1>2. xfer' = RepeatRetransmit(xfer) /\ written' = Requests(xfer)
    BY DEF Repeat
  <1>3. /\ xfer' \in Transfer
        /\ xfer'.mode = xfer.mode /\ xfer'.received = xfer.received
        /\ xfer'.gaplessToBlock = xfer.gaplessToBlock
        /\ \/ /\ TooMany(xfer) /\ xfer'.nextBlock = RestartBlock(xfer)
           \/ /\ ~TooMany(xfer) /\ xfer'.nextBlock = xfer.nextBlock
              /\ \A b \in Range(xfer.table) : Wanted(xfer, b) => b \in Range(xfer'.table)
    BY <1>1, <1>2, RepeatFacts
  <1>4. xfer.mode = "lossless" =>
           /\ xfer.gaplessToBlock + 1 < UINT
           /\ RestartBlock(xfer) \in Blocks
           /\ RestartBlock(xfer) <= xfer.gaplessToBlock + 1
    BY <1>1, Fields, Numbers, RestartBlockInFile DEF PrefixInFile
  <1>5. PrefixInFile' /\ GaplessHasNoGap'
    BY <1>1, <1>3, <1>4, Numbers DEF PrefixInFile, GaplessHasNoGap, Blocks
  <1>6. OnlyMissingRequested' /\ RestartInFile'
    BY <1>2, <1>3, WrittenRight
  <1>7. asked' \subseteq asked
    BY DEF Repeat
  <1>8. ASSUME xfer.mode = "lossless", NEW b \in asked'
        PROVE  b \in xfer.received \union Range(xfer'.table) \union skipped'
    <2>1. CASE TooMany(xfer)
      <3>1. Requests(xfer) = <<[type |-> "restart", block |-> RestartBlock(xfer)]>>
        BY <2>1 DEF Requests
      <3>2. PICK q : q = [type |-> "restart", block |-> RestartBlock(xfer)]
        OBVIOUS
      <3>3. q \in Range(Requests(xfer)) /\ q.type = "restart" /\ q.block = RestartBlock(xfer)
        BY <3>1, <3>2 DEF Range
      <3>4. PICK restarts : restarts = {r.block : r \in {p \in Range(Requests(xfer)) :
                                                             p.type = "restart"}}
        OBVIOUS
      <3>5. RestartBlock(xfer) \in restarts
        BY <3>3, <3>4
      <3>6. /\ asked' = {c \in asked : \A r \in restarts : c <= r /\ c # blockCount}
            /\ skipped' = skipped \union (restarts \ {blockCount})
        BY <3>4 DEF Repeat
      <3>7. b <= RestartBlock(xfer) /\ b # blockCount
        BY <1>8, <3>5, <3>6
      <3>8. CASE b = RestartBlock(xfer)
        BY <3>5, <3>6, <3>7, <3>8
      <3>9. CASE b # RestartBlock(xfer)
        <4>1. b \in 1 .. xfer.gaplessToBlock
          BY <1>1, <1>4, <1>7, <1>8, <3>7, <3>9, Fields, Numbers DEF Blocks
        <4> QED BY <1>1, <1>8, <4>1 DEF GaplessHasNoGap
      <3> QED BY <3>8, <3>9
    <2>2. CASE ~TooMany(xfer)
      <3>1. b \in xfer.received \/ b \in Range(xfer.table) \/ b \in skipped
        BY <1>1, <1>7, <1>8 DEF NoRequestForgotten
      <3>3. skipped \subseteq skipped'
        BY DEF Repeat
      <3>2. b \notin xfer.received => Wanted(xfer, b)
        BY <1>1, <1>7, Numbers DEF Wanted, GotBlock, Blocks
      <3> QED BY <1>3, <2>2, <3>1, <3>2, <3>3
    <2> QED BY <2>1, <2>2
  <1>9. NoRequestForgotten'
    BY <1>3, <1>8 DEF NoRequestForgotten
  <1> QED BY <1>1, <1>3, <1>5, <1>6, <1>7, <1>9 DEF IInv

LEMMA RepeatFailsStep ==
    ASSUME IInv, RepeatFails
    PROVE  IInv'
  <1>1. /\ xfer \in Transfer /\ xfer.received \subseteq Blocks /\ asked \subseteq Blocks
        /\ PrefixInFile /\ GaplessHasNoGap /\ NoRequestForgotten
    BY DEF IInv
  <1>2. xfer' = RepeatFailed(xfer) /\ written' = <<>> /\ asked' = asked /\ skipped' = skipped
    BY DEF RepeatFails
  <1>3. /\ xfer' \in Transfer /\ SameButTable(xfer, xfer')
        /\ \A b \in Range(xfer.table) : Wanted(xfer, b) => b \in Range(xfer'.table)
    BY <1>1, <1>2, RepeatFailedFacts
  <1>4. PrefixInFile' /\ GaplessHasNoGap'
    BY <1>1, <1>3 DEF PrefixInFile, GaplessHasNoGap, SameButTable
  <1>5. OnlyMissingRequested' /\ RestartInFile'
    BY <1>2, NothingWritten
  <1>6. NoRequestForgotten'
    <2>1. ASSUME NEW b \in asked, b \notin xfer.received PROVE Wanted(xfer, b)
      BY <1>1, <2>1, Numbers DEF Wanted, GotBlock, Blocks
    <2> QED BY <1>1, <1>2, <1>3, <2>1 DEF NoRequestForgotten, SameButTable
  <1> QED BY <1>1, <1>2, <1>3, <1>4, <1>5, <1>6 DEF IInv, SameButTable

LEMMA MarkStep ==
    ASSUME IInv, NEW b \in Blocks, Mark(b)
    PROVE  IInv'
  <1>1. /\ xfer \in Transfer /\ xfer.received \subseteq Blocks /\ asked \subseteq Blocks
        /\ PrefixInFile /\ GaplessHasNoGap /\ NoRequestForgotten
    BY DEF IInv
  <1>2. /\ xfer' = [xfer EXCEPT !.received = xfer.received \union {b}]
        /\ written' = <<>> /\ asked' = asked /\ skipped' = skipped
    BY DEF Mark
  <1>3. Blocks \subseteq Nat
    BY DEF Blocks
  <1>4. /\ xfer' \in Transfer /\ xfer'.received = xfer.received \union {b}
        /\ xfer'.mode = xfer.mode /\ xfer'.table = xfer.table
        /\ xfer'.gaplessToBlock = xfer.gaplessToBlock /\ xfer'.nextBlock = xfer.nextBlock
    BY <1>1, <1>2, <1>3 DEF Transfer
  <1>5. PrefixInFile' /\ GaplessHasNoGap' /\ NoRequestForgotten'
    BY <1>1, <1>2, <1>4 DEF PrefixInFile, GaplessHasNoGap, NoRequestForgotten
  <1>6. OnlyMissingRequested' /\ RestartInFile'
    BY <1>2, NothingWritten
  <1> QED BY <1>1, <1>2, <1>4, <1>5, <1>6 DEF IInv

LEMMA AdvanceStep ==
    ASSUME IInv, Advance
    PROVE  IInv'
  <1>1. /\ xfer \in Transfer /\ xfer.received \subseteq Blocks /\ asked \subseteq Blocks
        /\ PrefixInFile /\ GaplessHasNoGap /\ NoRequestForgotten
    BY DEF IInv
  <1>2. xfer' = AdvanceGapless(xfer) /\ written' = <<>> /\ asked' = asked /\ skipped' = skipped
    BY DEF Advance
  <1>3. /\ xfer' \in Transfer
        /\ xfer'.mode = xfer.mode /\ xfer'.received = xfer.received
        /\ xfer'.table = xfer.table /\ xfer'.nextBlock = xfer.nextBlock
        /\ \/ xfer'.gaplessToBlock = xfer.gaplessToBlock
           \/ /\ xfer'.gaplessToBlock \in Blocks
              /\ \A b \in xfer.gaplessToBlock + 1 .. xfer'.gaplessToBlock : b \in xfer.received
    BY <1>1, <1>2, AdvanceFacts
  <1>4. PrefixInFile'
    BY <1>1, <1>3, Numbers DEF PrefixInFile, Blocks
  <1>5. GaplessHasNoGap'
    <2>1. ASSUME xfer.mode = "lossless", NEW b \in 1 .. xfer'.gaplessToBlock
          PROVE  b \in xfer.received
      <3>1. CASE xfer'.gaplessToBlock = xfer.gaplessToBlock
        BY <1>1, <2>1, <3>1 DEF GaplessHasNoGap
      <3>2. CASE xfer'.gaplessToBlock # xfer.gaplessToBlock
        <4>1. xfer.gaplessToBlock \in Nat /\ xfer'.gaplessToBlock \in Nat
          BY <1>1, <1>3, Fields
        <4>2. b \in 1 .. xfer.gaplessToBlock \/ b \in xfer.gaplessToBlock + 1 .. xfer'.gaplessToBlock
          BY <4>1
        <4> QED BY <1>1, <1>3, <2>1, <3>2, <4>2 DEF GaplessHasNoGap
      <3> QED BY <3>1, <3>2
    <2> QED BY <1>3, <2>1 DEF GaplessHasNoGap
  <1>6. OnlyMissingRequested' /\ RestartInFile'
    BY <1>2, NothingWritten
  <1>7. NoRequestForgotten'
    BY <1>1, <1>2, <1>3 DEF NoRequestForgotten
  <1> QED BY <1>1, <1>2, <1>3, <1>4, <1>5, <1>6, <1>7 DEF IInv

LEMMA MoveHeadStep ==
    ASSUME IInv, NEW b \in Arriving, MoveHead(b)
    PROVE  IInv'
  <1>1. /\ xfer \in Transfer /\ xfer.received \subseteq Blocks /\ asked \subseteq Blocks
        /\ PrefixInFile /\ GaplessHasNoGap /\ NoRequestForgotten
    BY DEF IInv
  <1>2. PICK x : x = [xfer EXCEPT !.nextBlock = (b + 1) % UINT]
    OBVIOUS
  <1>3. xfer' = EndRestart(x) /\ written' = <<>> /\ asked' = asked /\ skipped' = skipped
    BY <1>2 DEF MoveHead
  <1>4. (b + 1) % UINT = b + 1 /\ b + 1 \in 0 .. UINT - 1 /\ b + 1 \in 1 .. blockCount + 2
    <2>1. b + 1 \in Int /\ b + 1 \in 0 .. UINT - 1 /\ b + 1 \in 1 .. blockCount + 2
      BY Numbers DEF Arriving
    <2> QED BY <2>1, Remainder
  <1>5. /\ x \in Transfer /\ x.nextBlock = b + 1
        /\ x.mode = xfer.mode /\ x.received = xfer.received /\ x.table = xfer.table
        /\ x.gaplessToBlock = xfer.gaplessToBlock
    BY <1>1, <1>2, <1>4 DEF Transfer
  <1>6. /\ xfer' \in Transfer /\ xfer'.nextBlock = b + 1
        /\ xfer'.mode = xfer.mode /\ xfer'.received = xfer.received
        /\ xfer'.table = xfer.table /\ xfer'.gaplessToBlock = xfer.gaplessToBlock
    BY <1>3, <1>5, EndRestartFacts
  <1>7. PrefixInFile' /\ GaplessHasNoGap' /\ NoRequestForgotten'
    BY <1>1, <1>3, <1>4, <1>6 DEF PrefixInFile, GaplessHasNoGap, NoRequestForgotten
  <1>8. OnlyMissingRequested' /\ RestartInFile'
    BY <1>3, NothingWritten
  <1> QED BY <1>1, <1>3, <1>6, <1>7, <1>8 DEF IInv

(* IInv is an invariant of the account.                                    *)
LEMMA IInvKept == RetxSpec => []IInv
  <1>1. IInv /\ [RetxNext]_<<xfer, written, asked, skipped>> => IInv'
    <2> SUFFICES ASSUME IInv, [RetxNext]_<<xfer, written, asked, skipped>>
                 PROVE  IInv'
      OBVIOUS
    <2>1. ASSUME NEW b \in Arriving, NEW w \in Windows, Gap(b, w) PROVE IInv'
      BY <2>1, GapStep
    <2>2. CASE EndRound
      BY <2>2, EndRoundStep
    <2>3. CASE Repeat
      BY <2>3, RepeatStep
    <2>4. CASE RepeatFails
      BY <2>4, RepeatFailsStep
    <2>5. CASE Advance
      BY <2>5, AdvanceStep
    <2>6. ASSUME NEW b \in Blocks, Mark(b) PROVE IInv'
      BY <2>6, MarkStep
    <2>7. ASSUME NEW b \in Arriving, MoveHead(b) PROVE IInv'
      BY <2>7, MoveHeadStep
    <2>8. CASE UNCHANGED <<xfer, written, asked, skipped>>
      BY <2>8 DEF IInv, PrefixInFile, GaplessHasNoGap, NoRequestForgotten,
                  OnlyMissingRequested, RestartInFile
    <2> QED BY <2>1, <2>2, <2>3, <2>4, <2>5, <2>6, <2>7, <2>8 DEF RetxNext
  <1> QED BY <1>1, IInvInit, PTL DEF RetxSpec

LEMMA TypesFollow == IInv => TransferTypeOK
  BY Fields DEF IInv, TransferTypeOK

(* The table never exceeds its allocation, and the allocation never its    *)
(* limit, for files and tables of every size: the requests and the         *)
(* compaction (client/protocol.go:336-413, 421-456) index it legally.      *)
THEOREM TypesKept == RetxSpec => []TransferTypeOK
  BY IInvKept, TypesFollow, PTL

(* The gapless prefix of a lossless transfer has no gap, although the      *)
(* loop that advances it runs after requests, restarts and marks in any    *)
(* order.                                                                  *)
THEOREM PrefixHasNoGap == RetxSpec => []GaplessHasNoGap
  <1>1. IInv => GaplessHasNoGap
    BY DEF IInv
  <1> QED BY <1>1, IInvKept, PTL

(* Every block asked for again is a missing block of the file.             *)
THEOREM AsksForMissingOnly == RetxSpec => []OnlyMissingRequested
  <1>1. IInv => OnlyMissingRequested
    BY DEF IInv
  <1> QED BY <1>1, IInvKept, PTL

(* A restart outside the semi-lossy mode names a block of the file.        *)
THEOREM RestartsInFile == RetxSpec => []RestartInFile
  <1>1. IInv => RestartInFile
    BY DEF IInv
  <1> QED BY <1>1, IInvKept, PTL

(* A request of a lossless client that the table accepted stays in it      *)
(* until the block has come, through compaction, growth and failed writes; *)
(* of what a restart drops from it, only the block the restart names is    *)
(* forgotten (client/protocol.go:364-390, server/protocol.go:132, 681).    *)
THEOREM NothingForgotten == RetxSpec => []NoRequestForgotten
  <1>1. IInv => NoRequestForgotten
    BY DEF IInv
  <1> QED BY <1>1, IInvKept, PTL
=============================================================================

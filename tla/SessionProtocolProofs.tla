------------------------ MODULE SessionProtocolProofs ------------------------
(***************************************************************************)
(* Proofs about SessionProtocol, for any files and any amount of unread    *)
(* output, however TCP cuts the two streams: the types, that neither side  *)
(* comes to the commands without the shared secret, that the server waits  *)
(* for a name when one is sent, and that a transfer is run as agreed.      *)
(*                                                                         *)
(* The first part bounds what a stream may hold: no proof of the secret is *)
(* on its way when the client does not know it, and no ok before the       *)
(* server has seen one.  The second part is the account of the exchange:   *)
(* as long as no command has been given up, no list acknowledged and no    *)
(* receive loop left, the sides and both streams are in one of its stages. *)
(***************************************************************************)
EXTENDS SessionProtocol, FiniteSetTheorems, SequenceTheorems, TLAPS

(* Sequences over a set of tokens.                                         *)

LEMMA Parts ==
    ASSUME NEW S, NEW s \in Seq(S), NEW m \in Nat \ {0}, NEW n \in Nat, n <= Len(s)
    PROVE  /\ SubSeq(s, m, n) \in Seq(S)
           /\ Len(SubSeq(s, m, n)) = IF m <= n THEN n - m + 1 ELSE 0
           /\ \A i \in 1 .. Len(SubSeq(s, m, n)) : SubSeq(s, m, n)[i] = s[m + i - 1]
  OBVIOUS

LEMMA Wider ==
    ASSUME NEW S, NEW T, S \subseteq T, NEW s \in Seq(S)
    PROVE  s \in Seq(T)
  OBVIOUS

LEMMA Joined ==
    ASSUME NEW S, NEW s \in Seq(S), NEW t \in Seq(S)
    PROVE  s \o t \in Seq(S) /\ Len(s \o t) = Len(s) + Len(t)
  OBVIOUS

LEMMA MinOfTwo ==
    ASSUME NEW a \in Int, NEW b \in Int
    PROVE  /\ Min({a, b}) \in {a, b}
           /\ Min({a, b}) <= a /\ Min({a, b}) <= b
  <1>1. \E x \in {a, b} : \A y \in {a, b} : x <= y
    OBVIOUS
  <1> QED BY <1>1 DEF Min

LEMMA LookedUp ==
    ASSUME NEW S, NEW s \in Seq(S), NEW n \in Nat, Len(s) = n, NEW i \in 1 .. n
    PROVE  s[i] \in S
  OBVIOUS

(* A Read returns a beginning of the stream and leaves the rest.           *)
LEMMA ReadParts ==
    ASSUME NEW S, NEW s \in Seq(S), NEW size \in Nat, NEW read \in MayRead(s, size)
    PROVE  /\ read \in Seq(S) /\ Len(read) \in 1 .. size /\ Rest(s, read) \in Seq(S)
           /\ \A i \in 1 .. Len(read) : read[i] \in S
  <1>1. Len(s) \in Nat /\ Len(s) \in Int /\ size \in Int
    OBVIOUS
  <1> DEFINE most == Min({size, Len(s)})
  <1>2. most \in {size, Len(s)} /\ most <= size /\ most <= Len(s)
    BY <1>1, MinOfTwo
  <1>3. most \in Nat
    BY <1>1, <1>2
  <1>4. PICK n \in 1 .. most : read = SubSeq(s, 1, n)
    BY DEF MayRead
  <1> HIDE DEF most
  <1>5. n \in Nat /\ n >= 1 /\ n <= Len(s) /\ n <= size
    BY <1>1, <1>2, <1>3, <1>4
  <1>6. read \in Seq(S) /\ Len(read) = n
    BY <1>4, <1>5, Parts
  <1>7. Rest(s, read) \in Seq(S)
    <2>1. n + 1 \in Nat \ {0}
      BY <1>5
    <2> QED BY <1>1, <1>6, <2>1, Parts DEF Rest
  <1>8. \A i \in 1 .. Len(read) : read[i] \in S
    BY <1>6
  <1> QED BY <1>5, <1>6, <1>7, <1>8

(* So does ReadLine.                                                       *)
LEMMA LineParts ==
    ASSUME NEW S, toServer \in Seq(S), NEW line \in Lines
    PROVE  Rest(toServer, line) \in Seq(S)
  <1>1. PICK n \in 1 .. Len(toServer) : line = SubSeq(toServer, 1, n)
    BY DEF Lines
  <1>2. n \in Nat /\ n <= Len(toServer) /\ Len(toServer) \in Nat /\ n >= 1
    BY <1>1
  <1>3. Len(line) = n
    BY <1>1, <1>2, Parts
  <1>4. Len(line) + 1 \in Nat \ {0}
    BY <1>2, <1>3
  <1> QED BY <1>2, <1>4, Parts DEF Rest
-----------------------------------------------------------------------------
(* What is written.                                                        *)

LEMMA BytesAre ==
    ASSUME NEW S, NEW field,
           [of |-> field, part |-> 1] \in S, [of |-> field, part |-> 2] \in S
    PROVE  /\ Bytes(field) \in Seq(S) /\ Len(Bytes(field)) = 2
           /\ Byte(field) \in Seq(S) /\ Len(Byte(field)) = 1
           /\ \A i \in {1, 2} : Bytes(field)[i] \in S
           /\ Byte(field)[1] = [of |-> field, part |-> 1]
           /\ Bytes(field)[1] = [of |-> field, part |-> 1]
  BY DEF Bytes, Byte

(* The tokens of a set of fields.                                          *)
Of(fields) == [of : fields, part : {1, 2}]

LEMMA BytesOf ==
    ASSUME NEW F, NEW field \in F
    PROVE  /\ Bytes(field) \in Seq(Of(F)) /\ Byte(field) \in Seq(Of(F))
           /\ \A i \in {1, 2} : Bytes(field)[i] \in Of(F)
           /\ Len(Bytes(field)) = 2 /\ Len(Byte(field)) = 1
  <1>1. [of |-> field, part |-> 1] \in Of(F) /\ [of |-> field, part |-> 2] \in Of(F)
    BY DEF Of
  <1> QED BY <1>1, BytesAre

LEMMA Halves ==
    ASSUME NEW n \in Nat, NEW i \in 1 .. 2 * n
    PROVE  (i + 1) \div 2 \in 1 .. n /\ ((i - 1) % 2) + 1 \in {1, 2}
  BY Z3

LEMMA AllBytesOf ==
    ASSUME NEW F, NEW fields \in Seq(F)
    PROVE  AllBytes(fields) \in Seq(Of(F))
  <1> DEFINE n == Len(fields)
             byte(i) == Bytes(fields[(i + 1) \div 2])[((i - 1) % 2) + 1]
  <1>1. n \in Nat /\ 2 * n \in Nat
    OBVIOUS
  <1>2. ASSUME NEW i \in 1 .. 2 * n PROVE byte(i) \in Of(F)
    <2>1. (i + 1) \div 2 \in 1 .. n /\ ((i - 1) % 2) + 1 \in {1, 2}
      BY <1>1, Halves
    <2>2. fields[(i + 1) \div 2] \in F
      BY <2>1
    <2> QED BY <2>1, <2>2, BytesOf
  <1>3. AllBytes(fields) = [i \in 1 .. 2 * n |-> byte(i)]
    BY DEF AllBytes
  <1> HIDE DEF byte, n
  <1>4. [i \in 1 .. 2 * n |-> byte(i)] \in [1 .. 2 * n -> Of(F)]
    BY <1>2
  <1> QED BY <1>1, <1>3, <1>4

LEMMA Thirds ==
    ASSUME NEW n \in Nat, NEW i \in 1 .. 3 * n
    PROVE  (i + 2) \div 3 \in 1 .. n /\ ((i - 1) % 3) + 1 \in {1, 2, 3}
  BY Z3

LEMMA NameAndZero ==
    ASSUME NEW S, NEW s \in Seq(S), NEW t \in Seq(S), Len(s) = 2, Len(t) = 1,
           NEW k \in {1, 2, 3}
    PROVE  (s \o t)[k] \in S
  <1>1. s \o t \in Seq(S) /\ Len(s \o t) = Len(s) + Len(t)
    BY Joined
  <1>2. k \in 1 .. 3 /\ Len(s \o t) = 3 /\ 3 \in Nat
    BY <1>1
  <1> QED BY <1>1, <1>2, LookedUp

LEMMA NamesOf == Names \in Seq(Of(Files \union {"zero"}))
  <1> DEFINE n == Cardinality(Files)
             T == Of(Files \union {"zero"})
             byte(i) == (Bytes(SetToSeq(Files)[(i + 2) \div 3]) \o Byte("zero"))
                            [((i - 1) % 3) + 1]
  <1>1. n \in Nat /\ 3 * n \in Nat
    BY SessionAssumption, FS_CardinalityType
  <1>2. SetToSeq(Files) \in [1 .. n -> Files]
    <2>1. \E f \in [1 .. n -> Files] : IsInjective(f)
      BY SessionAssumption, FS_CardinalityType
         DEF ExistsBijection, Bijection, Injection, IsInjective
    <2> QED BY <2>1 DEF SetToSeq
  <1>3. ASSUME NEW i \in 1 .. 3 * n PROVE byte(i) \in T
    <2>1. (i + 2) \div 3 \in 1 .. n /\ ((i - 1) % 3) + 1 \in {1, 2, 3}
      BY <1>1, Thirds
    <2>2. SetToSeq(Files)[(i + 2) \div 3] \in Files \union {"zero"}
      BY <1>2, <2>1
    <2>3. /\ Bytes(SetToSeq(Files)[(i + 2) \div 3]) \in Seq(T)
          /\ Len(Bytes(SetToSeq(Files)[(i + 2) \div 3])) = 2
          /\ Byte("zero") \in Seq(T) /\ Len(Byte("zero")) = 1
      BY <2>2, BytesOf
    <2>4. \A s, t, k : s \in Seq(T) /\ Len(s) = 2 /\ t \in Seq(T) /\ Len(t) = 1
                          /\ k \in {1, 2, 3} => (s \o t)[k] \in T
      BY NameAndZero
    <2> QED BY <2>1, <2>3, <2>4, Zenon
  <1>4. Names = [i \in 1 .. 3 * n |-> byte(i)]
    BY DEF Names
  <1> HIDE DEF byte, n, T
  <1>5. [i \in 1 .. 3 * n |-> byte(i)] \in [1 .. 3 * n -> T]
    BY <1>3
  <1>6. Names \in Seq(T)
    BY <1>1, <1>4, <1>5
  <1> QED BY <1>6 DEF T
-----------------------------------------------------------------------------
(* The invariant.                                                          *)

(* Where the server is once it has accepted the secret.                    *)
Accepted == Serving \union {"closed"}

(* The tokens that may be on their way to either side.                     *)
ServerToken == {t \in Token : t.of = "proof" => passphrase}
ClientToken == {t \in Token : t.of = "ok" => passphrase /\ server \in Accepted}
Streams == toServer \in Seq(ServerToken) /\ toClient \in Seq(ClientToken)

Fields ==
    /\ client \in Connected \union {"offline", "revision", "challenge", "status"}
    /\ server \in Serving \union {"negotiate", "authenticate", "closed"}
    /\ closed \subseteq {"client", "server"}
    /\ passphrase \in BOOLEAN /\ file \in BOOLEAN /\ unsure \in BOOLEAN
    /\ clientField \in 1 .. Len(Reply) /\ serverField \in 1 .. Len(Parameters)
    /\ astray \subseteq {"listed", "cut", "left"} /\ misread \subseteq Range(Parameters)
    /\ record \in Seq(Token) /\ Len(record) <= 1
    /\ port \in Seq(Token) /\ Len(port) <= 2

SInv == Fields /\ Streams /\ SecretIsShared

LEMMA StreamsTyped ==
    Streams => toServer \in Seq(Token) /\ toClient \in Seq(Token)
  <1>1. ServerToken \subseteq Token /\ ClientToken \subseteq Token
    BY DEF ServerToken, ClientToken
  <1> QED BY <1>1, Wider DEF Streams

LEMMA SInvTypes == SInv => TypeOK
  BY StreamsTyped DEF SInv, Fields, TypeOK

(* Tokens that say nothing of the secret, and what is made of them.        *)
Telling == {"ok", "proof"}
Quiet ==
    Files \union Missing \union
    {"block_size", "target_rate", "faster_den", "file_size", "epoch", "revision",
     "challenge", "wrong_proof", "refused", "list", "all", "newline", "zero", "zeros",
     "listing", "ack", "got_size", "wrong_block_size", "port", "request", "stop"}
Plain == Of(Quiet)

LEMMA TokensAre == Token = Of(Quiet \union Telling)
  <1>1. Files \union Missing \union Words = Quiet \union Telling
    BY DEF Quiet, Telling, Words
  <1> QED BY <1>1 DEF Of, Token

LEMMA QuietIsQuiet == Quiet \intersect Telling = {}
  BY SessionAssumption DEF Quiet, Telling, Words

LEMMA PlainOf ==
    ASSUME NEW field \in Quiet
    PROVE  Bytes(field) \in Seq(Plain) /\ Byte(field) \in Seq(Plain)
  BY BytesOf DEF Plain

LEMMA PlainSafe == Plain \subseteq ServerToken /\ Plain \subseteq ClientToken
  BY TokensAre, QuietIsQuiet DEF Plain, Of, ServerToken, ClientToken, Telling

LEMMA PlainSafeNext == Plain \subseteq ServerToken' /\ Plain \subseteq ClientToken'
  BY TokensAre, QuietIsQuiet DEF Plain, Of, ServerToken, ClientToken, Telling

LEMMA Lists ==
    /\ Len(Parameters) = 3 /\ Len(Reply) = 3 /\ Len(WrongReply) = 3
    /\ Range(Parameters) = {"block_size", "target_rate", "faster_den"}
    /\ \A i \in 1 .. 3 : Parameters[i] \in Range(Parameters)
    /\ Parameters \in Seq(Quiet)
    /\ Reply \in Seq(Quiet)
    /\ WrongReply \in Seq(Quiet)
  <1>1. Parameters = <<"block_size", "target_rate", "faster_den">>
    BY DEF Parameters
  <1>2. Reply = <<"file_size", "block_size", "epoch">>
    BY DEF Reply
  <1>3. WrongReply = <<"file_size", "wrong_block_size", "epoch">>
    BY DEF WrongReply, Reply
  <1>4. Range(Parameters) = {"block_size", "target_rate", "faster_den"}
    BY <1>1 DEF Range
  <1>5. Parameters \in Seq(Quiet)
    BY <1>1 DEF Quiet
  <1>6. Reply \in Seq(Quiet)
    BY <1>2 DEF Quiet
  <1>7. WrongReply \in Seq(Quiet)
    BY <1>3 DEF Quiet
  <1>8. Len(Parameters) = 3 /\ Len(Reply) = 3 /\ Len(WrongReply) = 3
    BY <1>1, <1>2, <1>3
  <1>9. \A i \in 1 .. 3 : Parameters[i] \in Range(Parameters)
    BY <1>1, <1>4
  <1> QED BY <1>4, <1>5, <1>6, <1>7, <1>8, <1>9

LEMMA Written ==
    /\ \A name \in Files \union Missing \union {"list", "all"} : Line(name) \in Seq(Plain)
    /\ AllBytes(Parameters) \in Seq(Plain)
    /\ AllBytes(Reply) \in Seq(Plain) /\ AllBytes(WrongReply) \in Seq(Plain)
    /\ Counts \in Seq(Plain) /\ Names \in Seq(Plain)
    /\ Byte("listing") \o Byte("zero") \in Seq(Plain)
    /\ <<>> \in Seq(Plain)
  <1>1. ASSUME NEW name \in Files \union Missing \union {"list", "all"}
        PROVE  Line(name) \in Seq(Plain)
    <2>1. name \in Quiet /\ "newline" \in Quiet
      BY DEF Quiet
    <2>2. Bytes(name) \in Seq(Plain) /\ Byte("newline") \in Seq(Plain)
      BY <2>1, PlainOf
    <2> QED BY <2>2, Joined DEF Line
  <1>2. AllBytes(Parameters) \in Seq(Plain)
    BY Lists, AllBytesOf DEF Plain
  <1>3. AllBytes(Reply) \in Seq(Plain) /\ AllBytes(WrongReply) \in Seq(Plain)
    BY Lists, AllBytesOf DEF Plain
  <1>4. Counts \in Seq(Plain)
    <2>1. Bytes("zeros") \in Seq(Plain)
      BY PlainOf DEF Quiet
    <2> QED BY <2>1, Joined DEF Counts
  <1>5. Names \in Seq(Plain)
    <2>1. Of(Files \union {"zero"}) \subseteq Plain
      BY DEF Of, Plain, Quiet
    <2> QED BY <2>1, NamesOf, Wider
  <1>6. Byte("listing") \o Byte("zero") \in Seq(Plain)
    <2>1. Byte("listing") \in Seq(Plain) /\ Byte("zero") \in Seq(Plain)
      BY PlainOf DEF Quiet
    <2> QED BY <2>1, Joined
  <1> QED BY <1>1, <1>2, <1>3, <1>4, <1>5, <1>6
-----------------------------------------------------------------------------
(* Steps of the server: the secret stays as it is, the client where it is. *)

(* The server's ways: into the service by the secret only, and never back. *)
ServerWay ==
    /\ server' \in Serving => passphrase
    /\ server \in Accepted => server' \in Accepted

LEMMA ServerKeepsSecret ==
    ASSUME SInv, UNCHANGED <<client, passphrase>>, ServerWay
    PROVE  SecretIsShared'
  BY DEF SInv, SecretIsShared, ServerWay, Accepted

LEMMA ServerTokensKept ==
    ASSUME UNCHANGED passphrase, ServerWay
    PROVE  ServerToken' = ServerToken /\ ClientToken \subseteq ClientToken'
  BY DEF ServerToken, ClientToken, ServerWay

LEMMA ServerKeepsStreams ==
    ASSUME Streams, UNCHANGED passphrase, ServerWay,
           NEW read, Rest(toServer, read) \in Seq(ServerToken),
           NEW answer \in Seq(ClientToken'), ServerReads(read, answer)
    PROVE  Streams'
  <1>1. ServerToken' = ServerToken /\ ClientToken \subseteq ClientToken'
    BY ServerTokensKept
  <1>2. toClient \in Seq(ClientToken')
    BY <1>1, Wider DEF Streams
  <1>3. toClient \o answer \in Seq(ClientToken')
    BY <1>2, Joined
  <1> QED BY <1>1, <1>3 DEF Streams, ServerReads

(* What most steps of the server do.                                       *)
LEMMA PlainAnswer ==
    ASSUME Streams, UNCHANGED passphrase, ServerWay,
           NEW size \in Nat, NEW read \in MayRead(toServer, size),
           NEW answer \in Seq(Plain), ServerReads(read, answer)
    PROVE  Streams'
  <1>1. answer \in Seq(ClientToken')
    BY PlainSafeNext, Wider
  <1>2. Rest(toServer, read) \in Seq(ServerToken)
    BY ReadParts DEF Streams
  <1> QED BY <1>1, <1>2, ServerKeepsStreams

LEMMA LineAnswer ==
    ASSUME Streams, UNCHANGED passphrase, ServerWay,
           NEW line \in Lines,
           NEW answer \in Seq(Plain), ServerReads(line, answer)
    PROVE  Streams'
  <1>1. answer \in Seq(ClientToken')
    BY PlainSafeNext, Wider
  <1>2. Rest(toServer, line) \in Seq(ServerToken)
    BY LineParts DEF Streams
  <1> QED BY <1>1, <1>2, ServerKeepsStreams

(* An ok is written by a server that accepts, or has accepted, the secret. *)
LEMMA OkAllowed ==
    ASSUME passphrase', server' \in Serving
    PROVE  Byte("ok") \in Seq(ClientToken')
  <1>1. [of |-> "ok", part |-> 1] \in ClientToken'
    BY TokensAre DEF ClientToken, Of, Telling, Accepted
  <1>2. [of |-> "ok", part |-> 2] \in ClientToken'
    BY TokensAre DEF ClientToken, Of, Telling, Accepted
  <1> QED BY <1>1, <1>2, BytesAre
-----------------------------------------------------------------------------
(* The actions of the server.                                              *)

(* What leads to the invariant behind a step of the server.                *)
LEMMA ServerStep ==
    ASSUME SInv, UNCHANGED clientSide, ServerWay, Streams', Fields'
    PROVE  SInv'
  BY ServerKeepsSecret DEF SInv, clientSide

(* The fields no step of the server changes.                               *)
LEMMA ClientFieldsKept ==
    ASSUME SInv, UNCHANGED clientSide
    PROVE  /\ client' \in Connected \union {"offline", "revision", "challenge", "status"}
           /\ passphrase' \in BOOLEAN /\ unsure' \in BOOLEAN
           /\ clientField' \in 1 .. Len(Reply)
  BY DEF SInv, Fields, clientSide

LEMMA NegotiateKeeps == SInv /\ Negotiate => SInv'
  <1> SUFFICES ASSUME SInv, Negotiate PROVE SInv'
    OBVIOUS
  <1>1. UNCHANGED <<clientSide, serverField, misread, astray, file, port, record>>
    BY DEF Negotiate
  <1>2. UNCHANGED passphrase /\ Streams
    BY <1>1 DEF clientSide, SInv
  <1>3. PICK read \in MayRead(toServer, 2) :
          \/ /\ ServerReads(read, Bytes("challenge"))
             /\ server' = "authenticate" /\ UNCHANGED closed
          \/ ServerReads(read, <<>>) /\ HandlerEnds
    BY DEF Negotiate
  <1>4. ServerWay
    BY <1>3 DEF Negotiate, ServerWay, Serving, Accepted, HandlerEnds
  <1>5. Streams'
    <2>1. Bytes("challenge") \in Seq(Plain)
      BY PlainOf DEF Quiet
    <2> QED BY <1>2, <1>3, <1>4, <2>1, Written, PlainAnswer
  <1>6. Fields'
    BY <1>1, <1>3, ClientFieldsKept DEF SInv, Fields, HandlerEnds
  <1> QED BY <1>1, <1>4, <1>5, <1>6, ServerStep

LEMMA AuthenticateKeeps == SInv /\ Authenticate => SInv'
  <1> SUFFICES ASSUME SInv, Authenticate PROVE SInv'
    OBVIOUS
  <1>1. UNCHANGED <<clientSide, serverField, misread, astray, file, port, record>>
    BY DEF Authenticate
  <1>2. UNCHANGED passphrase /\ Streams
    BY <1>1 DEF clientSide, SInv
  <1>3. PICK read \in MayRead(toServer, 2) :
          \/ /\ read = Bytes("proof")
             /\ ServerReads(read, Byte("ok"))
             /\ server' = "name" /\ UNCHANGED closed
          \/ ServerReads(read, Byte("refused")) /\ HandlerEnds
    BY DEF Authenticate
  <1>4. \/ /\ passphrase
           /\ ServerReads(read, Byte("ok"))
           /\ server' = "name" /\ UNCHANGED closed
        \/ ServerReads(read, Byte("refused")) /\ HandlerEnds
    <2>1. CASE read = Bytes("proof")
      <3>1. 1 \in 1 .. Len(read) /\ read[1].of = "proof"
        BY <2>1 DEF Bytes
      <3>2. read[1] \in ServerToken
        BY <1>2, <3>1, ReadParts DEF Streams
      <3>3. passphrase
        BY <3>1, <3>2 DEF ServerToken
      <3> QED BY <1>3, <3>3
    <2>2. CASE read # Bytes("proof")
      BY <1>3, <2>2
    <2> QED BY <2>1, <2>2
  <1>5. ServerWay
    BY <1>4 DEF Authenticate, ServerWay, Serving, Accepted, HandlerEnds
  <1>6. Streams'
    <2>1. CASE passphrase /\ ServerReads(read, Byte("ok")) /\ server' = "name"
      <3>1. passphrase' /\ server' \in Serving
        BY <1>2, <2>1 DEF Serving
      <3>2. Byte("ok") \in Seq(ClientToken')
        BY <3>1, OkAllowed
      <3>3. Rest(toServer, read) \in Seq(ServerToken)
        BY <1>2, ReadParts DEF Streams
      <3> QED BY <1>2, <1>5, <2>1, <3>2, <3>3, ServerKeepsStreams
    <2>2. CASE ServerReads(read, Byte("refused"))
      <3>1. Byte("refused") \in Seq(Plain)
        BY PlainOf DEF Quiet
      <3> QED BY <1>2, <1>5, <2>2, <3>1, PlainAnswer
    <2> QED BY <1>4, <2>1, <2>2
  <1>7. Fields'
    BY <1>1, <1>4, ClientFieldsKept DEF SInv, Fields, HandlerEnds, Serving
  <1> QED BY <1>1, <1>5, <1>6, <1>7, ServerStep

LEMMA LineOk ==
    ASSUME Streams, UNCHANGED passphrase, passphrase, ServerWay, server' \in Serving,
           NEW line \in Lines, ServerReads(line, Byte("ok"))
    PROVE  Streams'
  <1>1. Byte("ok") \in Seq(ClientToken')
    BY OkAllowed
  <1>2. Rest(toServer, line) \in Seq(ServerToken)
    BY LineParts DEF Streams
  <1> QED BY <1>1, <1>2, ServerKeepsStreams

LEMMA OpenTransferKeeps == SInv /\ OpenTransfer => SInv'
  <1> SUFFICES ASSUME SInv, OpenTransfer PROVE SInv'
    OBVIOUS
  <1>1. UNCHANGED <<clientSide, closed, astray, record>>
    BY DEF OpenTransfer
  <1>2. UNCHANGED passphrase /\ Streams /\ passphrase /\ server = "name"
    BY <1>1 DEF clientSide, SInv, OpenTransfer, SecretIsShared, Serving
  <1>3. PICK line \in Lines :
          \/ /\ ServerReads(line, Byte("listing") \o Byte("zero"))
             /\ server' = "ack" /\ file' = FALSE
          \/ /\ ServerReads(line, Counts)
             /\ server' \in {"sizes", "empty_hook"} /\ file' = FALSE
          \/ /\ ServerReads(line, Byte("ok"))
             /\ server' = "parameters" /\ file' = TRUE
          \/ /\ ServerReads(line, Byte("refused"))
             /\ server' = "name" /\ file' = FALSE
    BY <1>2 DEF OpenTransfer, AfterRefusal
  <1>4. server' \in Serving
    BY <1>3 DEF Serving
  <1>5. ServerWay
    BY <1>2, <1>4 DEF ServerWay, Accepted
  <1>6. Streams'
    <2>1. Byte("refused") \in Seq(Plain)
      BY PlainOf DEF Quiet
    <2>2. CASE ServerReads(line, Byte("listing") \o Byte("zero"))
      BY <1>2, <1>5, <2>2, Written, LineAnswer
    <2>3. CASE ServerReads(line, Counts)
      BY <1>2, <1>5, <2>3, Written, LineAnswer
    <2>4. CASE ServerReads(line, Byte("ok"))
      BY <1>2, <1>4, <1>5, <2>4, LineOk
    <2>5. CASE ServerReads(line, Byte("refused"))
      BY <1>2, <1>5, <2>1, <2>5, LineAnswer
    <2> QED BY <1>3, <2>2, <2>3, <2>4, <2>5
  <1>7. Fields'
    <2>1. /\ serverField' = 1 /\ misread' = {} /\ port' = <<>> /\ file' \in BOOLEAN
      BY <1>3 DEF OpenTransfer
    <2> QED BY <1>1, <1>4, <2>1, ClientFieldsKept, Lists DEF SInv, Fields
  <1> QED BY <1>1, <1>5, <1>6, <1>7, ServerStep

LEMMA AnswerToCountsKeeps == SInv /\ AnswerToCounts => SInv'
  <1> SUFFICES ASSUME SInv, AnswerToCounts PROVE SInv'
    OBVIOUS
  <1>1. UNCHANGED <<clientSide, closed, serverField, misread, file, port, record>>
    BY DEF AnswerToCounts
  <1>2. UNCHANGED passphrase /\ Streams /\ passphrase
    BY <1>1 DEF clientSide, SInv, AnswerToCounts, SecretIsShared, Serving
  <1>3. PICK read \in MayRead(toServer, 2) :
          /\ \/ ServerReads(read, Names) /\ server' = "names"
             \/ ServerReads(read, Byte("refused")) /\ server' = "name"
          /\ NoteAnswer(read)
    BY DEF AnswerToCounts
  <1>4. server' \in Serving
    BY <1>3 DEF Serving
  <1>5. ServerWay
    BY <1>2, <1>4 DEF ServerWay, Accepted
  <1>6. Streams'
    <2>1. Byte("refused") \in Seq(Plain)
      BY PlainOf DEF Quiet
    <2>2. CASE ServerReads(read, Names)
      BY <1>2, <1>5, <2>2, Written, PlainAnswer
    <2>3. CASE ServerReads(read, Byte("refused"))
      BY <1>2, <1>5, <2>1, <2>3, PlainAnswer
    <2> QED BY <1>3, <2>2, <2>3
  <1>7. Fields'
    BY <1>1, <1>3, <1>4, ClientFieldsKept DEF SInv, Fields, NoteAnswer
  <1> QED BY <1>1, <1>5, <1>6, <1>7, ServerStep

LEMMA AnswerToNamesKeeps == SInv /\ AnswerToNames => SInv'
  <1> SUFFICES ASSUME SInv, AnswerToNames PROVE SInv'
    OBVIOUS
  <1>1. UNCHANGED <<clientSide, closed, serverField, misread, file, port, record>>
    BY DEF AnswerToNames
  <1>2. UNCHANGED passphrase /\ Streams /\ passphrase
    BY <1>1 DEF clientSide, SInv, AnswerToNames, SecretIsShared, Serving
  <1>3. PICK read \in MayRead(toServer, 2) : ServerReads(read, <<>>) /\ NoteAnswer(read)
    BY DEF AnswerToNames
  <1>4. server' \in Serving
    BY DEF AnswerToNames, Serving
  <1>5. ServerWay
    BY <1>2, <1>4 DEF ServerWay, Accepted
  <1>6. Streams'
    BY <1>2, <1>3, <1>5, Written, PlainAnswer
  <1>7. Fields'
    BY <1>1, <1>3, <1>4, ClientFieldsKept DEF SInv, Fields, NoteAnswer
  <1> QED BY <1>1, <1>5, <1>6, <1>7, ServerStep

LEMMA FirstNameKeeps == SInv /\ FirstName => SInv'
  <1> SUFFICES ASSUME SInv, FirstName PROVE SInv'
    OBVIOUS
  <1>1. UNCHANGED <<clientSide, closed, serverField, misread, astray, port, record>>
    BY DEF FirstName
  <1>2. UNCHANGED passphrase /\ Streams /\ passphrase
    BY <1>1 DEF clientSide, SInv, FirstName, SecretIsShared, Serving
  <1>3. PICK line \in Lines :
          \/ /\ ServerReads(line, Byte("ok"))
             /\ server' = "parameters" /\ file' = TRUE
          \/ /\ ServerReads(line, Byte("refused"))
             /\ server' = "name" /\ UNCHANGED file
    BY DEF FirstName
  <1>4. server' \in Serving
    BY <1>3 DEF Serving
  <1>5. ServerWay
    BY <1>2, <1>4 DEF ServerWay, Accepted
  <1>6. Streams'
    <2>1. Byte("refused") \in Seq(Plain)
      BY PlainOf DEF Quiet
    <2>2. CASE ServerReads(line, Byte("ok"))
      BY <1>2, <1>4, <1>5, <2>2, LineOk
    <2>3. CASE ServerReads(line, Byte("refused"))
      BY <1>2, <1>5, <2>1, <2>3, LineAnswer
    <2> QED BY <1>3, <2>2, <2>3
  <1>7. Fields'
    BY <1>1, <1>3, <1>4, ClientFieldsKept DEF SInv, Fields
  <1> QED BY <1>1, <1>5, <1>6, <1>7, ServerStep

LEMMA ListAcknowledgedKeeps == SInv /\ ListAcknowledged => SInv'
  <1> SUFFICES ASSUME SInv, ListAcknowledged PROVE SInv'
    OBVIOUS
  <1>1. UNCHANGED <<clientSide, closed, serverField, misread, file, port, record>>
    BY DEF ListAcknowledged
  <1>2. UNCHANGED passphrase /\ Streams /\ passphrase
    BY <1>1 DEF clientSide, SInv, ListAcknowledged, SecretIsShared, Serving
  <1>3. PICK read \in MayRead(toServer, 1) : ServerReads(read, <<>>)
    BY DEF ListAcknowledged
  <1>4. server' \in Serving /\ astray' = astray \union {"listed"}
    BY DEF ListAcknowledged, Serving
  <1>5. ServerWay
    BY <1>2, <1>4 DEF ServerWay, Accepted
  <1>6. Streams'
    BY <1>2, <1>3, <1>5, Written, PlainAnswer
  <1>7. Fields'
    BY <1>1, <1>4, ClientFieldsKept DEF SInv, Fields
  <1> QED BY <1>1, <1>5, <1>6, <1>7, ServerStep

LEMMA ReadParameterKeeps == SInv /\ ReadParameter => SInv'
  <1> SUFFICES ASSUME SInv, ReadParameter PROVE SInv'
    OBVIOUS
  <1>1. UNCHANGED <<clientSide, file, port, record>>
    BY DEF ReadParameter
  <1>2. UNCHANGED passphrase /\ Streams /\ passphrase /\ server = "parameters"
    BY <1>1 DEF clientSide, SInv, ReadParameter, SecretIsShared, Serving
  <1>3. serverField \in 1 .. 3 /\ misread \subseteq Range(Parameters)
    BY Lists DEF SInv, Fields
  <1>4. PICK read \in MayRead(toServer, 2), answer \in {<<>>, AllBytes(Reply), AllBytes(WrongReply)} :
          /\ ServerReads(read, answer) /\ NoteLength(read)
          /\ misread' \subseteq misread \union {Parameters[serverField]}
          /\ \/ /\ serverField # 3 /\ serverField' = serverField + 1
                /\ UNCHANGED <<server, closed>>
             \/ /\ server' = "port" /\ UNCHANGED <<serverField, closed>>
             \/ HandlerEnds /\ UNCHANGED serverField
    BY Lists DEF ReadParameter, LastParameter
  <1>5. ServerWay
    BY <1>2, <1>4 DEF ServerWay, Serving, Accepted, HandlerEnds
  <1>6. Streams'
    BY <1>2, <1>4, <1>5, Written, PlainAnswer
  <1>7. Fields'
    <2>1. serverField' \in 1 .. Len(Parameters)
      BY <1>3, <1>4, Lists
    <2>2. misread' \subseteq Range(Parameters)
      BY <1>3, <1>4, Lists
    <2>3. /\ server' \in Serving \union {"negotiate", "authenticate", "closed"}
          /\ closed' \subseteq {"client", "server"}
      BY <1>2, <1>4 DEF Serving, HandlerEnds, SInv, Fields
    <2>4. astray' \subseteq {"listed", "cut", "left"}
      BY <1>4 DEF NoteLength, SInv, Fields
    <2> QED BY <1>1, <2>1, <2>2, <2>3, <2>4, ClientFieldsKept DEF SInv, Fields
  <1> QED BY <1>1, <1>5, <1>6, <1>7, ServerStep

(* What OpenPort and Transfer keep of a read are tokens, and no more than  *)
(* was read.                                                               *)
LEMMA ReadTokens ==
    ASSUME SInv, NEW size \in Nat, NEW read \in MayRead(toServer, size)
    PROVE  read \in Seq(Token) /\ Len(read) \in 1 .. size
  BY StreamsTyped, ReadParts DEF SInv

LEMMA OpenPortKeeps == SInv /\ OpenPort => SInv'
  <1> SUFFICES ASSUME SInv, OpenPort PROVE SInv'
    OBVIOUS
  <1>1. UNCHANGED <<clientSide, closed, serverField, misread, file>>
    BY DEF OpenPort
  <1>2. UNCHANGED passphrase /\ Streams /\ passphrase
    BY <1>1 DEF clientSide, SInv, OpenPort, SecretIsShared, Serving
  <1>3. PICK read \in MayRead(toServer, 2) :
          ServerReads(read, <<>>) /\ port' = read /\ NoteLength(read)
    BY DEF OpenPort
  <1>4. server' \in Serving /\ record' = <<>>
    BY DEF OpenPort, Serving
  <1>5. ServerWay
    BY <1>2, <1>4 DEF ServerWay, Accepted
  <1>6. Streams'
    BY <1>2, <1>3, <1>5, Written, PlainAnswer
  <1>7. Fields'
    <2>1. port' \in Seq(Token) /\ Len(port') <= 2
      BY <1>3, ReadTokens
    <2>2. astray' \subseteq {"listed", "cut", "left"}
      BY <1>3 DEF NoteLength, SInv, Fields
    <2>3. record' \in Seq(Token) /\ Len(record') <= 1
      BY <1>4
    <2> QED BY <1>1, <1>4, <2>1, <2>2, <2>3, ClientFieldsKept DEF SInv, Fields
  <1> QED BY <1>1, <1>5, <1>6, <1>7, ServerStep

LEMMA TransferKeeps == SInv /\ Transfer => SInv'
  <1> SUFFICES ASSUME SInv, Transfer PROVE SInv'
    OBVIOUS
  <1>1. UNCHANGED <<clientSide, serverField, misread, astray, file, port>>
    BY DEF Transfer
  <1>2. UNCHANGED passphrase /\ Streams /\ passphrase /\ server = "transfer"
    BY <1>1 DEF clientSide, SInv, Transfer, SecretIsShared, Serving
  <1>3. record \in Seq(Token) /\ 2 - Len(record) \in Nat
    <2>1. record \in Seq(Token) /\ Len(record) <= 1
      BY DEF SInv, Fields
    <2>2. Len(record) \in Nat
      BY <2>1
    <2> QED BY <2>1, <2>2
  <1>4. PICK read \in MayRead(toServer, 2 - Len(record)) :
          /\ ServerReads(read, <<>>)
          /\ \/ /\ server' \in {"name", "transfer"} /\ record' = <<>>
                /\ UNCHANGED closed
             \/ /\ Len(record \o read) = 1 /\ record' = record \o read
                /\ UNCHANGED <<server, closed>>
             \/ HandlerEnds /\ UNCHANGED record
    BY <1>2 DEF Transfer
  <1>5. ServerWay
    BY <1>2, <1>4 DEF ServerWay, Serving, Accepted, HandlerEnds
  <1>6. Streams'
    BY <1>2, <1>3, <1>4, <1>5, Written, PlainAnswer
  <1>7. Fields'
    <2>1. record' \in Seq(Token) /\ Len(record') <= 1
      <3>1. record \o read \in Seq(Token)
        BY <1>3, ReadTokens, Joined
      <3>2. CASE record' = <<>>
        BY <3>2
      <3>3. CASE record' = record
        BY <3>3 DEF SInv, Fields
      <3>4. CASE Len(record \o read) = 1 /\ record' = record \o read
        BY <3>1, <3>4
      <3> QED BY <1>4, <3>2, <3>3, <3>4
    <2>2. /\ server' \in Serving \union {"negotiate", "authenticate", "closed"}
          /\ closed' \subseteq {"client", "server"}
      BY <1>2, <1>4 DEF Serving, HandlerEnds, SInv, Fields
    <2> QED BY <1>1, <2>1, <2>2, ClientFieldsKept DEF SInv, Fields
  <1> QED BY <1>1, <1>5, <1>6, <1>7, ServerStep

LEMMA ServerReadFailsKeeps == SInv /\ ServerReadFails => SInv'
  <1> SUFFICES ASSUME SInv, ServerReadFails PROVE SInv'
    OBVIOUS
  <1>1. UNCHANGED <<clientSide, toServer, toClient, serverField, misread, astray, file,
                    port, record>>
    BY DEF ServerReadFails
  <1>2. \/ HandlerEnds
        \/ server \in Serving /\ server' = "name" /\ UNCHANGED closed
    BY DEF ServerReadFails, Serving
  <1>3. ServerWay
    BY <1>2 DEF ServerWay, Accepted, Serving, HandlerEnds, SInv, SecretIsShared
  <1>4. Streams'
    <2>1. ServerToken' = ServerToken /\ ClientToken \subseteq ClientToken'
      BY <1>1, <1>3, ServerTokensKept DEF clientSide
    <2>2. toClient \in Seq(ClientToken')
      BY <2>1, Wider DEF SInv, Streams
    <2> QED BY <1>1, <2>1, <2>2 DEF SInv, Streams
  <1>5. Fields'
    BY <1>1, <1>2, ClientFieldsKept DEF SInv, Fields, HandlerEnds, Serving
  <1> QED BY <1>1, <1>3, <1>4, <1>5, ServerStep

LEMMA ServerKeeps == SInv /\ Server => SInv'
  BY NegotiateKeeps, AuthenticateKeeps, OpenTransferKeeps, ListAcknowledgedKeeps,
     AnswerToCountsKeeps, AnswerToNamesKeeps, FirstNameKeeps, ReadParameterKeeps,
     OpenPortKeeps, TransferKeeps, ServerReadFailsKeeps DEF Server
-----------------------------------------------------------------------------
(* Steps of the client: the server stays where it is, the secret as it is. *)

(* The client's ways: to the prompt by an ok only.                         *)
ClientWay ==
    client' \in Connected => passphrase /\ server \in Accepted

LEMMA ClientTokensKept ==
    ASSUME UNCHANGED <<serverSide, passphrase>>
    PROVE  ServerToken' = ServerToken /\ ClientToken' = ClientToken
  BY DEF ServerToken, ClientToken, serverSide

LEMMA ClientStep ==
    ASSUME SInv, UNCHANGED <<serverSide, passphrase>>, ClientWay,
           client' \in Connected \union {"offline", "revision", "challenge", "status"},
           closed' \subseteq {"client", "server"}, unsure' \in BOOLEAN,
           clientField' \in 1 .. Len(Reply),
           toServer' \in Seq(ServerToken), toClient' \in Seq(ClientToken)
    PROVE  SInv'
  <1>1. Streams'
    BY ClientTokensKept DEF Streams
  <1>2. SecretIsShared'
    BY DEF SInv, SecretIsShared, ClientWay, Accepted, serverSide
  <1>3. Fields'
    BY DEF SInv, Fields, serverSide
  <1> QED BY <1>1, <1>2, <1>3 DEF SInv

LEMMA ClientReadsSafe ==
    ASSUME SInv, NEW size \in Nat, NEW read \in MayRead(toClient, size),
           NEW answer \in Seq(ServerToken), ClientReads(read, answer)
    PROVE  /\ toServer' \in Seq(ServerToken) /\ toClient' \in Seq(ClientToken)
  <1>1. toServer \o answer \in Seq(ServerToken)
    BY Joined DEF SInv, Streams
  <1>2. Rest(toClient, read) \in Seq(ClientToken)
    BY ReadParts DEF SInv, Streams
  <1> QED BY <1>1, <1>2 DEF ClientReads

LEMMA ClientReadsPlain ==
    ASSUME SInv, NEW size \in Nat, NEW read \in MayRead(toClient, size),
           NEW answer \in Seq(Plain), ClientReads(read, answer)
    PROVE  /\ toServer' \in Seq(ServerToken) /\ toClient' \in Seq(ClientToken)
  <1>1. answer \in Seq(ServerToken)
    BY PlainSafe, Wider
  <1> QED BY <1>1, ClientReadsSafe

(* What is kept where nothing else is said.                                *)
LEMMA ClientHas ==
    ASSUME SInv
    PROVE  /\ closed \subseteq {"client", "server"} /\ unsure \in BOOLEAN
           /\ clientField \in 1 .. Len(Reply) /\ clientField \in 1 .. 3
           /\ toServer \in Seq(ServerToken) /\ toClient \in Seq(ClientToken)
           /\ client \in Connected => passphrase /\ server \in Accepted
  BY Lists DEF SInv, Fields, Streams, SecretIsShared, Accepted

LEMMA ConnectKeeps == SInv /\ Connect => SInv'
  <1> SUFFICES ASSUME SInv, Connect PROVE SInv'
    OBVIOUS
  <1>1. /\ client' = "revision" /\ server' = "negotiate"
        /\ toServer' = Bytes("revision") /\ toClient' = Bytes("revision")
        /\ closed' = {} /\ passphrase' \in BOOLEAN /\ unsure' = FALSE
        /\ file' = FALSE /\ misread' = {} /\ astray' = {} /\ port' = <<>>
        /\ record' = <<>> /\ clientField' = 1 /\ serverField' = 1
    BY DEF Connect
  <1>2. Fields'
    <2>1. record' \in Seq(Token) /\ Len(record') <= 1
      BY <1>1
    <2>2. port' \in Seq(Token) /\ Len(port') <= 2
      BY <1>1
    <2>3. clientField' \in 1 .. Len(Reply) /\ serverField' \in 1 .. Len(Parameters)
      BY <1>1, Lists
    <2> QED BY <1>1, <2>1, <2>2, <2>3 DEF Fields
  <1>3. Streams'
    <2>1. Bytes("revision") \in Seq(Plain)
      BY PlainOf DEF Quiet
    <2>2. Bytes("revision") \in Seq(ServerToken') /\ Bytes("revision") \in Seq(ClientToken')
      BY <2>1, PlainSafeNext, Wider
    <2> QED BY <1>1, <2>2 DEF Streams
  <1>4. SecretIsShared'
    BY <1>1 DEF SecretIsShared, Serving, Connected, Receiving
  <1> QED BY <1>2, <1>3, <1>4 DEF SInv

(* An answer that is sent only by a client that knows what it says.        *)
LEMMA HandshakeKeeps ==
    ASSUME SInv, NEW here, NEW there \in {"challenge", "status", "prompt"},
           NEW expected, Len(expected) \in Nat, NEW answer \in Seq(ServerToken),
           there = "prompt" => expected = Byte("ok"),
           Handshake(here, expected, answer, there)
    PROVE  SInv'
  <1>1. UNCHANGED <<serverSide, passphrase, clientField, unsure>>
    BY DEF Handshake
  <1>2. PICK read \in MayRead(toClient, Len(expected)) :
          \/ /\ read = expected
             /\ ClientReads(read, answer)
             /\ client' = there /\ UNCHANGED closed
          \/ ClientReads(read, <<>>) /\ GoesOffline
    BY DEF Handshake
  <1>3. toServer' \in Seq(ServerToken) /\ toClient' \in Seq(ClientToken)
    BY <1>2, Written, ClientReadsSafe, ClientReadsPlain
  <1>4. ClientWay
    <2>1. CASE client' = "prompt"
      <3>1. read = Byte("ok")
        BY <1>2, <2>1 DEF GoesOffline
      <3>2. 1 \in 1 .. Len(read) /\ read[1].of = "ok"
        BY <3>1 DEF Byte
      <3>3. read[1] \in ClientToken
        BY <3>2, ClientHas, ReadParts
      <3> QED BY <3>2, <3>3 DEF ClientToken, ClientWay
    <2>2. CASE client' # "prompt"
      BY <1>2, <2>2 DEF ClientWay, Connected, GoesOffline, Receiving
    <2> QED BY <2>1, <2>2
  <1>5. client' \in Connected \union {"offline", "revision", "challenge", "status"}
    BY <1>2 DEF GoesOffline, Connected, Receiving
  <1>6. closed' \subseteq {"client", "server"}
    BY <1>2, ClientHas DEF GoesOffline
  <1> QED BY <1>1, <1>3, <1>4, <1>5, <1>6, ClientHas, ClientStep

LEMMA ProofAllowed == Proof \in Seq(ServerToken)
  <1>1. CASE passphrase
    <2>1. [of |-> "proof", part |-> 1] \in ServerToken
      BY <1>1, TokensAre DEF ServerToken, Of, Telling
    <2>2. [of |-> "proof", part |-> 2] \in ServerToken
      BY <1>1, TokensAre DEF ServerToken, Of, Telling
    <2>3. Bytes("proof") \in Seq(ServerToken)
      BY <2>1, <2>2, BytesAre
    <2> QED BY <1>1, <2>3 DEF Proof
  <1>2. CASE ~passphrase
    <2>1. Bytes("wrong_proof") \in Seq(Plain)
      BY PlainOf DEF Quiet
    <2>2. Bytes("wrong_proof") \in Seq(ServerToken)
      BY <2>1, PlainSafe, Wider
    <2> QED BY <1>2, <2>2 DEF Proof
  <1> QED BY <1>1, <1>2

LEMMA AuthenticatingKeeps == SInv /\ Authenticating => SInv'
  <1> SUFFICES ASSUME SInv, Authenticating PROVE SInv'
    OBVIOUS
  <1>1. <<>> \in Seq(ServerToken)
    OBVIOUS
  <1>2. /\ Len(Bytes("revision")) \in Nat /\ Len(Bytes("challenge")) \in Nat
        /\ Len(Byte("ok")) \in Nat
    BY DEF Bytes, Byte
  <1>3. CASE Handshake("revision", Bytes("revision"), <<>>, "challenge")
    BY <1>1, <1>2, <1>3, HandshakeKeeps
  <1>4. CASE Handshake("challenge", Bytes("challenge"), Proof, "status")
    BY <1>2, <1>4, HandshakeKeeps, ProofAllowed
  <1>5. CASE Handshake("status", Byte("ok"), <<>>, "prompt")
    BY <1>1, <1>2, <1>5, HandshakeKeeps
  <1> QED BY <1>3, <1>4, <1>5 DEF Authenticating

LEMMA RequestKeeps ==
    ASSUME SInv, NEW name \in Files \union Missing \union {"list", "all"},
           NEW there \in Connected, Request(name, there)
    PROVE  SInv'
  <1>1. UNCHANGED <<toClient, closed, serverSide, passphrase, unsure>>
        /\ client = "prompt" /\ client' = there /\ clientField' = 1
        /\ toServer' = toServer \o Line(name)
    BY DEF Request
  <1>2. Line(name) \in Seq(ServerToken)
    BY Written, PlainSafe, Wider
  <1>3. toServer' \in Seq(ServerToken)
    BY <1>1, <1>2, Joined, ClientHas
  <1>4. ClientWay
    BY <1>1, ClientHas DEF ClientWay, Connected, Receiving
  <1> QED BY <1>1, <1>3, <1>4, ClientHas, ClientStep, Lists

LEMMA RequestsKeep == SInv /\ (Get \/ GetAll \/ Dir) => SInv'
  <1> SUFFICES ASSUME SInv, Get \/ GetAll \/ Dir PROVE SInv'
    OBVIOUS
  <1>1. {"result", "counts", "listing"} \subseteq Connected
    BY DEF Connected, Receiving
  <1>2. CASE Get
    BY <1>1, <1>2, RequestKeeps DEF Get
  <1>3. CASE GetAll
    BY <1>1, <1>3, RequestKeeps DEF GetAll
  <1>4. CASE Dir
    BY <1>1, <1>4, RequestKeeps DEF Dir
  <1> QED BY <1>2, <1>3, <1>4

(* A client that reads, behind the handshake.                              *)
LEMMA ReaderStep ==
    ASSUME SInv, UNCHANGED <<closed, serverSide, passphrase>>, client \in Connected,
           NEW size \in Nat, NEW read \in MayRead(toClient, size),
           NEW answer \in Seq(Plain), ClientReads(read, answer),
           client' \in Connected, clientField' \in 1 .. 3, unsure' \in BOOLEAN
    PROVE  SInv'
  <1>1. ClientWay
    BY ClientHas DEF ClientWay
  <1>2. toServer' \in Seq(ServerToken) /\ toClient' \in Seq(ClientToken)
    BY ClientReadsPlain
  <1> QED BY <1>1, <1>2, ClientHas, ClientStep, Lists

LEMMA TakeCountsKeeps == SInv /\ TakeCounts => SInv'
  <1> SUFFICES ASSUME SInv, TakeCounts PROVE SInv'
    OBVIOUS
  <1>1. UNCHANGED <<closed, serverSide, passphrase, unsure>> /\ client = "counts"
    BY DEF TakeCounts
  <1>2. PICK read \in MayRead(toClient, 2), answer \in {<<>>, Bytes("got_size")} :
          /\ ClientReads(read, answer)
          /\ client' \in {client, "no_files"} /\ clientField' \in {clientField, 2}
    BY DEF TakeCounts
  <1>3. answer \in Seq(Plain)
    <2>1. Bytes("got_size") \in Seq(Plain)
      BY PlainOf DEF Quiet
    <2> QED BY <1>2, <2>1, Written
  <1>4. client \in Connected /\ client' \in Connected
    BY <1>1, <1>2 DEF Connected, Receiving
  <1>5. clientField' \in 1 .. 3
    BY <1>2, ClientHas
  <1> QED BY <1>1, <1>2, <1>3, <1>4, <1>5, ClientHas, ReaderStep

LEMMA NoFilesKeeps == SInv /\ NoFiles => SInv'
  <1> SUFFICES ASSUME SInv, NoFiles PROVE SInv'
    OBVIOUS
  <1>1. /\ UNCHANGED <<closed, serverSide, passphrase, clientField>>
        /\ client = "no_files" /\ client' = "prompt"
    BY DEF NoFiles
  <1>2. PICK read \in MayRead(toClient, 1) :
          ClientReads(read, <<>>) /\ unsure' = (unsure \/ read # Byte("refused"))
    BY DEF NoFiles
  <1>3. client \in Connected /\ client' \in Connected
    BY <1>1 DEF Connected, Receiving
  <1>4. unsure' \in BOOLEAN
    BY <1>2, Zenon
  <1> QED BY <1>1, <1>2, <1>3, <1>4, ClientHas, Written, ReaderStep

LEMMA FileResultKeeps == SInv /\ FileResult => SInv'
  <1> SUFFICES ASSUME SInv, FileResult PROVE SInv'
    OBVIOUS
  <1>1. /\ UNCHANGED <<closed, serverSide, passphrase, unsure>>
        /\ client = "result" /\ clientField' = 1
    BY DEF FileResult
  <1>2. PICK read \in MayRead(toClient, 1), answer \in {<<>>, AllBytes(Parameters)} :
          ClientReads(read, answer) /\ client' \in {"reply", "prompt"}
    BY DEF FileResult
  <1>3. client \in Connected /\ client' \in Connected
    BY <1>1, <1>2 DEF Connected, Receiving
  <1>4. answer \in Seq(Plain)
    BY <1>2, Written
  <1>5. unsure' \in BOOLEAN /\ clientField' \in 1 .. 3
    BY <1>1, ClientHas
  <1> QED BY <1>1, <1>2, <1>3, <1>4, <1>5, ReaderStep

LEMMA FileReplyKeeps == SInv /\ FileReply => SInv'
  <1> SUFFICES ASSUME SInv, FileReply PROVE SInv'
    OBVIOUS
  <1>1. UNCHANGED <<closed, serverSide, passphrase>> /\ client = "reply"
    BY DEF FileReply
  <1>2. PICK read \in MayRead(toClient, 2), answer \in {<<>>, Bytes("port")} :
          /\ ClientReads(read, answer)
          /\ client' \in {client, "receive", "prompt"}
          /\ \/ clientField < 3 /\ clientField' = clientField + 1
             \/ UNCHANGED clientField
          /\ unsure' \in {unsure, TRUE}
    BY Lists DEF FileReply
  <1>3. answer \in Seq(Plain)
    <2>1. Bytes("port") \in Seq(Plain)
      BY PlainOf DEF Quiet
    <2> QED BY <1>2, <2>1, Written
  <1>4. client \in Connected /\ client' \in Connected
    BY <1>1, <1>2 DEF Connected, Receiving
  <1>5. clientField' \in 1 .. 3
    BY <1>2, ClientHas
  <1>6. unsure' \in BOOLEAN
    BY <1>2, ClientHas
  <1> QED BY <1>1, <1>2, <1>3, <1>4, <1>5, <1>6, ReaderStep

LEMMA ReceiveKeeps == SInv /\ Receive => SInv'
  <1> SUFFICES ASSUME SInv, Receive PROVE SInv'
    OBVIOUS
  <1>1. /\ UNCHANGED <<toClient, closed, passphrase, clientField, server, serverField,
                       misread, file, port, record>>
        /\ client \in {"receive", "again"}
    BY DEF Receive
  <1>2. Bytes("request") \in Seq(ServerToken) /\ Bytes("stop") \in Seq(ServerToken)
    <2>1. Bytes("request") \in Seq(Plain) /\ Bytes("stop") \in Seq(Plain)
      BY PlainOf DEF Quiet
    <2> QED BY <2>1, PlainSafe, Wider
  <1>3. /\ toServer' \in {toServer, toServer \o Bytes("request"), toServer \o Bytes("stop")}
        /\ client' \in {client, "flushing", "stuck", "prompt"} /\ unsure' \in {unsure, TRUE}
        /\ astray' \subseteq astray \union {"left"}
    BY DEF Receive
  <1>4. toServer' \in Seq(ServerToken)
    <2>1. toServer \in Seq(ServerToken)
      BY ClientHas
    <2>2. /\ toServer \o Bytes("request") \in Seq(ServerToken)
          /\ toServer \o Bytes("stop") \in Seq(ServerToken)
      BY <1>2, <2>1, Joined
    <2> QED BY <1>3, <2>1, <2>2
  <1>5. /\ client \in Connected /\ client' \in Connected
        /\ passphrase /\ server \in Accepted
    BY <1>1, <1>3, ClientHas DEF Connected, Receiving
  <1>6. Fields'
    <2>1. unsure' \in BOOLEAN
      BY <1>3, ClientHas
    <2>2. astray' \subseteq {"listed", "cut", "left"}
      BY <1>3 DEF SInv, Fields
    <2> QED BY <1>1, <1>5, <2>1, <2>2 DEF SInv, Fields
  <1>7. Streams'
    BY <1>1, <1>4, ClientHas DEF Streams, ServerToken, ClientToken
  <1>8. SecretIsShared'
    BY <1>1, <1>5 DEF SecretIsShared, Accepted
  <1> QED BY <1>6, <1>7, <1>8 DEF SInv

LEMMA StartOverKeeps == SInv /\ StartOver => SInv'
  <1> SUFFICES ASSUME SInv, StartOver PROVE SInv'
    OBVIOUS
  <1>1. /\ UNCHANGED <<toServer, toClient, closed, serverSide, passphrase, clientField, unsure>>
        /\ client = "flushing" /\ client' = "again"
    BY DEF StartOver
  <1>2. ClientWay /\ client' \in Connected
    BY <1>1, ClientHas DEF ClientWay, Connected, Receiving
  <1> QED BY <1>1, <1>2, ClientHas, ClientStep

LEMMA LeavingKeeps == SInv /\ (Crash \/ Close) => SInv'
  <1> SUFFICES ASSUME SInv, Crash \/ Close PROVE SInv'
    OBVIOUS
  <1>1. /\ UNCHANGED <<toServer, toClient, serverSide, passphrase, clientField, unsure>>
        /\ client' = "offline" /\ closed' = closed \union {"client"}
    BY DEF Crash, Close, GoesOffline
  <1>2. ClientWay
    BY <1>1 DEF ClientWay, Connected, Receiving
  <1> QED BY <1>1, <1>2, ClientHas, ClientStep

LEMMA ListingKeeps == SInv /\ Listing => SInv'
  <1> SUFFICES ASSUME SInv, Listing PROVE SInv'
    OBVIOUS
  <1>1. /\ UNCHANGED <<closed, serverSide, passphrase, clientField>>
        /\ client = "listing" /\ client' = "prompt" /\ unsure' \in {unsure, TRUE}
    BY DEF Listing
  <1>2. PICK n \in {1, 2}, answer \in {<<>>, Byte("ack")} :
          /\ Len(toClient) >= n /\ toClient' = SubSeq(toClient, n + 1, Len(toClient))
          /\ toServer' = toServer \o answer
    <2>1. toClient \in Seq(ClientToken) /\ Len(toClient) \in Nat
      BY ClientHas
    <2>2. CASE toClient # <<>> /\ ClientReads(Byte("refused"), <<>>)
      <3>1. Len(Byte("refused")) = 1 /\ Len(toClient) >= 1
        BY <2>1, <2>2 DEF Byte
      <3>2. /\ toClient' = SubSeq(toClient, 1 + 1, Len(toClient))
            /\ toServer' = toServer \o <<>>
        BY <2>2, <3>1 DEF ClientReads, Rest
      <3> QED BY <3>1, <3>2
    <2>3. CASE /\ Len(toClient) >= 2
               /\ \/ ClientReads(SubSeq(toClient, 1, 2), Byte("ack"))
                  \/ ClientReads(SubSeq(toClient, 1, 2), <<>>)
      <3>1. Len(SubSeq(toClient, 1, 2)) = 2
        BY <2>1, <2>3
      <3>2. /\ toClient' = SubSeq(toClient, 2 + 1, Len(toClient))
            /\ \/ toServer' = toServer \o Byte("ack")
               \/ toServer' = toServer \o <<>>
        BY <2>3, <3>1 DEF ClientReads, Rest
      <3> QED BY <2>3, <3>2
    <2> QED BY <2>2, <2>3 DEF Listing
  <1>3. toClient' \in Seq(ClientToken)
    <2>1. n + 1 \in Nat \ {0} /\ Len(toClient) \in Nat
      BY ClientHas
    <2> QED BY <1>2, <2>1, Parts, ClientHas
  <1>4. toServer' \in Seq(ServerToken)
    <2>1. Byte("ack") \in Seq(Plain)
      BY PlainOf DEF Quiet
    <2>2. answer \in Seq(ServerToken)
      BY <1>2, <2>1, Written, PlainSafe, Wider
    <2> QED BY <1>2, <2>2, Joined, ClientHas
  <1>5. client' \in Connected /\ ClientWay
    BY <1>1, ClientHas DEF Connected, ClientWay, Receiving
  <1>6. unsure' \in BOOLEAN
    BY <1>1, ClientHas
  <1> QED BY <1>1, <1>3, <1>4, <1>5, <1>6, ClientHas, ClientStep

LEMMA ClientReadFailsKeeps == SInv /\ ClientReadFails => SInv'
  <1> SUFFICES ASSUME SInv, ClientReadFails PROVE SInv'
    OBVIOUS
  <1>1. UNCHANGED <<toServer, toClient, serverSide, passphrase, clientField>>
    BY DEF ClientReadFails
  <1>2. \/ GoesOffline /\ UNCHANGED unsure
        \/ client \in Connected /\ client' = "prompt" /\ unsure' = TRUE /\ UNCHANGED closed
    BY DEF ClientReadFails, Connected, Receiving
  <1>3. ClientWay /\ client' \in Connected \union {"offline"}
    BY <1>2, ClientHas DEF ClientWay, Connected, GoesOffline, Receiving
  <1>4. unsure' \in BOOLEAN /\ closed' \subseteq {"client", "server"}
    BY <1>2, ClientHas DEF GoesOffline
  <1> QED BY <1>1, <1>3, <1>4, ClientHas, ClientStep
-----------------------------------------------------------------------------
LEMMA InitSInv == Init => SInv
  <1> SUFFICES ASSUME Init PROVE SInv
    OBVIOUS
  <1>1. /\ client = "offline" /\ server = "closed"
        /\ toServer = <<>> /\ toClient = <<>> /\ closed = {"client", "server"}
        /\ passphrase = FALSE /\ clientField = 1 /\ serverField = 1
        /\ misread = {} /\ astray = {} /\ file = FALSE /\ port = <<>>
        /\ record = <<>> /\ unsure = FALSE
    BY DEF Init
  <1>2. Fields
    <2>1. record \in Seq(Token) /\ Len(record) <= 1
      BY <1>1
    <2>2. port \in Seq(Token) /\ Len(port) <= 2
      BY <1>1
    <2>3. clientField \in 1 .. Len(Reply) /\ serverField \in 1 .. Len(Parameters)
      BY <1>1, Lists
    <2> QED BY <1>1, <2>1, <2>2, <2>3 DEF Fields
  <1>3. Streams
    BY <1>1 DEF Streams
  <1>4. SecretIsShared
    BY <1>1 DEF SecretIsShared, Serving, Connected, Receiving
  <1> QED BY <1>2, <1>3, <1>4 DEF SInv

LEMMA StepSInv == SInv /\ [Next]_vars => SInv'
  <1> SUFFICES ASSUME SInv, [Next]_vars PROVE SInv'
    OBVIOUS
  <1>1. CASE Server
    BY <1>1, ServerKeeps
  <1>2. CASE ClientAnswers
    BY <1>2, AuthenticatingKeeps, FileResultKeeps, FileReplyKeeps, TakeCountsKeeps,
       NoFilesKeeps, ListingKeeps, ClientReadFailsKeeps DEF ClientAnswers
  <1>3. CASE Connect
    BY <1>3, ConnectKeeps
  <1>4. CASE Get \/ GetAll \/ Dir
    BY <1>4, RequestsKeep
  <1>5. CASE Receive
    BY <1>5, ReceiveKeeps
  <1>6. CASE StartOver \/ Crash \/ Close
    BY <1>6, StartOverKeeps, LeavingKeeps
  <1>7. CASE UNCHANGED vars
    BY <1>7 DEF vars, SInv, Fields, Streams, SecretIsShared, ServerToken, ClientToken
  <1> QED BY <1>1, <1>2, <1>3, <1>4, <1>5, <1>6, <1>7 DEF Next

LEMMA Invariance == Spec => []SInv
  BY InitSInv, StepSInv, PTL DEF Spec

(* The variables keep their types: what is read as a field, a port or a    *)
(* part of a request is bytes of the protocol, and never more than there   *)
(* is room for.                                                            *)
THEOREM TypesKept == Spec => []TypeOK
  BY Invariance, SInvTypes, PTL

(* Neither side comes to the commands without the shared secret, however   *)
(* the streams are cut and however often a client tries (Negotiate and     *)
(* Authenticate of the server, CommandConnect of the client).              *)
THEOREM SecretKept == Spec => []SecretIsShared
  <1>1. SInv => SecretIsShared
    BY DEF SInv
  <1> QED BY <1>1, Invariance, PTL

-----------------------------------------------------------------------------
(* Where both sides are.  As long as no command has been given up, no list *)
(* acknowledged and no receive loop left, the two sides and both streams   *)
(* are in one of the stages of an exchange.                                *)

At(c, s, up, down) == client = c /\ server = s /\ toServer = up /\ toClient = down

(* negotiate and authenticate.                                             *)
Greeting ==
    \/ At("revision", "negotiate", Bytes("revision"), Bytes("revision"))
    \/ At("revision", "authenticate", <<>>, Bytes("revision") \o Bytes("challenge"))
    \/ At("challenge", "negotiate", Bytes("revision"), <<>>)
    \/ At("challenge", "authenticate", <<>>, Bytes("challenge"))
    \/ At("status", "authenticate", Proof, <<>>)
    \/ At("status", "name", <<>>, Byte("ok"))

Idle == At("prompt", "name", <<>>, <<>>)

(* get, up to the result.                                                  *)
Asking ==
    \/ \E name \in Files \union Missing : At("result", "name", Line(name), <<>>)
    \/ At("result", "name", <<>>, Byte("refused"))
    \/ /\ At("result", "parameters", <<>>, Byte("ok"))
       /\ serverField = 1 /\ misread = {}

(* dir; nothing is answered until the list is acknowledged.                *)
Dirring ==
    \/ At("listing", "name", Line("list"), <<>>)
    \/ At("listing", "ack", <<>>, Byte("listing") \o Byte("zero"))
    \/ /\ client \in {"prompt", "result", "counts", "listing"}
       /\ server = "ack" /\ toClient = <<>>

(* get *: of the counts a part may be left when the client has read twice, *)
(* and then it does not read the refusal as one.                           *)
Counting ==
    \/ At("counts", "name", Line("all"), <<>>)
    \/ /\ client = "counts" /\ server \in {"sizes", "empty_hook"}
       /\ toServer = <<>> /\ toClient \in Seq(Of({"zeros"}))
    \/ /\ client = "no_files" /\ server \in {"sizes", "empty_hook"}
       /\ toServer = Bytes("got_size") /\ toClient \in Seq(Of({"zeros"}))
    \/ /\ client = "no_files" /\ server = "name" /\ toServer = <<>>
       /\ toClient # <<>>
       /\ \A i \in 1 .. Len(toClient) :
            toClient[i] = [of |-> "refused", part |-> 1] => i = Len(toClient)
    \/ /\ client = "no_files" /\ server = "names" /\ toServer = <<>>
       /\ toClient \in Seq(Of(Files \union {"zero", "zeros"}))

(* The parameters from the given one on.                                   *)
ParametersFrom(k) == SubSeq(AllBytes(Parameters), 2 * k - 1, 6)

(* An accepted get, when TCP cuts no field.                                *)
Agreed ==
    \/ At("reply", "parameters", ParametersFrom(serverField), <<>>) /\ misread = {}
    \/ client = "reply" /\ server = "port" /\ toServer = <<>> /\ misread = {}
    \/ /\ client \in Receiving
       /\ toServer \in Seq(Of({"port", "request", "stop"}))
       /\ \/ /\ server = "port" /\ misread = {}
             /\ Len(toServer) >= 2 /\ SubSeq(toServer, 1, 2) = Bytes("port")
          \/ server = "transfer" /\ misread = {} /\ port = Bytes("port")
          \/ server = "name"

Stage ==
    \/ astray = {} /\ (Greeting \/ Idle \/ Asking \/ Dirring \/ Counting)
    \/ client \in {"reply"} \union Receiving /\ (astray = {} => Agreed)

(* The connection is up, and nothing has put the two sides out of step.    *)
Steady == client # "offline" /\ server # "closed" /\ ~unsure
          /\ {"listed", "left"} \intersect astray = {}

Closers ==
    /\ "server" \in closed => server = "closed"
    /\ "client" \in closed => client = "offline"

IInv == SInv /\ Closers /\ (Steady => Stage)
-----------------------------------------------------------------------------
(* Reads of streams that are known.                                        *)

LEMMA ReadNothing == ASSUME NEW size \in Nat PROVE MayRead(<<>>, size) = {}
  <1>1. Min({size, 0}) \in Int /\ Min({size, 0}) <= 0
    BY MinOfTwo
  <1>2. 1 .. Min({size, 0}) = {}
    BY <1>1
  <1>3. Len(<<>>) = 0
    OBVIOUS
  <1> QED BY <1>2, <1>3 DEF MayRead

(* A Read returns the first tokens and leaves the others.                  *)
LEMMA ReadGives ==
    ASSUME NEW S, NEW s \in Seq(S), NEW size \in Nat, NEW read \in MayRead(s, size)
    PROVE  /\ read \in Seq(S) /\ Len(read) \in 1 .. size /\ Len(read) <= Len(s)
           /\ read = SubSeq(s, 1, Len(read))
           /\ \A i \in 1 .. Len(read) : read[i] = s[i]
           /\ Rest(s, read) \in Seq(S) /\ Len(Rest(s, read)) = Len(s) - Len(read)
           /\ \A i \in 1 .. Len(s) - Len(read) : Rest(s, read)[i] = s[Len(read) + i]
  <1>1. Len(s) \in Nat /\ Len(s) \in Int /\ size \in Int
    OBVIOUS
  <1>2. PICK most : most = Min({size, Len(s)})
    OBVIOUS
  <1>3. most \in Nat /\ most <= size /\ most <= Len(s)
    BY <1>1, <1>2, MinOfTwo
  <1>4. PICK n \in 1 .. most : read = SubSeq(s, 1, n)
    BY <1>2 DEF MayRead
  <1>5. n \in Nat /\ n >= 1 /\ n <= Len(s) /\ n <= size
    BY <1>1, <1>3, <1>4
  <1>6. read \in Seq(S) /\ Len(read) = n /\ \A i \in 1 .. n : read[i] = s[i]
    BY <1>4, <1>5, Parts
  <1>7. Rest(s, read) = SubSeq(s, n + 1, Len(s))
    BY <1>6 DEF Rest
  <1>8. /\ Rest(s, read) \in Seq(S) /\ Len(Rest(s, read)) = Len(s) - n
        /\ \A i \in 1 .. Len(s) - n : Rest(s, read)[i] = s[n + i]
    BY <1>1, <1>5, <1>7
  <1> QED BY <1>4, <1>5, <1>6, <1>8

(* A Read of all there is.                                                 *)
LEMMA ReadAll ==
    ASSUME NEW S, NEW s \in Seq(S), NEW size \in Nat, NEW read \in MayRead(s, size),
           Len(read) = Len(s)
    PROVE  read = s /\ Rest(s, read) = <<>>
  <1>1. /\ read \in Seq(S) /\ \A i \in 1 .. Len(read) : read[i] = s[i]
        /\ Rest(s, read) \in Seq(S) /\ Len(Rest(s, read)) = Len(s) - Len(read)
    BY ReadGives
  <1>2. read = s
    BY <1>1
  <1>3. Len(s) \in Nat
    OBVIOUS
  <1>4. Len(Rest(s, read)) = 0
    BY <1>1, <1>3
  <1> QED BY <1>1, <1>2, <1>4

LEMMA ReadOnly ==
    ASSUME NEW S, NEW s \in Seq(S), Len(s) = 1, NEW size \in Nat, NEW read \in MayRead(s, size)
    PROVE  read = s /\ Rest(s, read) = <<>>
  <1>1. Len(read) = Len(s)
    BY ReadGives
  <1> QED BY <1>1, ReadAll

(* ReadLine of a line takes the line.                                      *)
LEMMA TwoAndOne ==
    ASSUME NEW S, NEW s \in Seq(S), NEW t \in Seq(S), Len(s) = 2, Len(t) = 1
    PROVE  /\ s \o t \in Seq(S) /\ Len(s \o t) = 3
           /\ (s \o t)[1] = s[1] /\ (s \o t)[2] = s[2] /\ (s \o t)[3] = t[1]
  <1>1. /\ s \o t \in Seq(S) /\ Len(s \o t) = Len(s) + Len(t)
        /\ \A i \in 1 .. Len(s) + Len(t) :
              (s \o t)[i] = IF i <= Len(s) THEN s[i] ELSE t[i - Len(s)]
    BY ConcatProperties
  <1>2. PICK u : u = s \o t
    OBVIOUS
  <1>3. u \in Seq(S) /\ Len(u) = 3
    BY <1>1, <1>2
  <1>4. \A i \in 1 .. 3 : u[i] = IF i <= 2 THEN s[i] ELSE t[i - 2]
    BY <1>1, <1>2
  <1> QED BY <1>2, <1>3, <1>4

LEMMA LineIs ==
    ASSUME NEW name
    PROVE  /\ Line(name) \in Seq(Of({name, "newline"})) /\ Len(Line(name)) = 3
           /\ Line(name)[1] = [of |-> name, part |-> 1]
           /\ Line(name)[2] = [of |-> name, part |-> 2]
  <1>1. /\ Bytes(name) \in Seq(Of({name, "newline"})) /\ Len(Bytes(name)) = 2
        /\ Byte("newline") \in Seq(Of({name, "newline"})) /\ Len(Byte("newline")) = 1
    BY BytesOf
  <1>2. /\ Bytes(name)[1] = [of |-> name, part |-> 1]
        /\ Bytes(name)[2] = [of |-> name, part |-> 2]
    BY DEF Bytes
  <1>3. /\ Line(name) \in Seq(Of({name, "newline"})) /\ Len(Line(name)) = 3
        /\ Line(name)[1] = Bytes(name)[1] /\ Line(name)[2] = Bytes(name)[2]
    <2>1. PICK S, s, t : S = Of({name, "newline"}) /\ s = Bytes(name) /\ t = Byte("newline")
      OBVIOUS
    <2>2. s \in Seq(S) /\ t \in Seq(S) /\ Len(s) = 2 /\ Len(t) = 1
      BY <1>1, <2>1
    <2>3. /\ s \o t \in Seq(S) /\ Len(s \o t) = 3
          /\ (s \o t)[1] = s[1] /\ (s \o t)[2] = s[2]
      BY <2>2, TwoAndOne
    <2> QED BY <2>1, <2>3 DEF Line
  <1> QED BY <1>2, <1>3

LEMMA LinesDiffer ==
    ASSUME NEW a, NEW b, Line(a) = Line(b) PROVE a = b
  <1>1. Line(a)[1] = [of |-> a, part |-> 1] /\ Line(b)[1] = [of |-> b, part |-> 1]
    BY LineIs
  <1> QED BY <1>1

LEMMA TakesTheLine ==
    ASSUME NEW name \in Files \union Missing \union {"list", "all"},
           toServer = Line(name), NEW line \in Lines
    PROVE  line = Line(name) /\ Rest(toServer, line) = <<>>
  <1>1. PICK n \in 1 .. Len(toServer) :
          line = SubSeq(toServer, 1, n) /\ EndsLine(toServer[n])
    BY DEF Lines
  <1>2. Len(toServer) = 3 /\ toServer \in Seq(Of({name, "newline"}))
    BY LineIs
  <1>3. toServer[1].of = name /\ toServer[2].of = name
    <2>1. /\ toServer[1] = [of |-> name, part |-> 1]
          /\ toServer[2] = [of |-> name, part |-> 2]
      BY LineIs, Zenon
    <2> QED BY <2>1
  <1>4. n # 1 /\ n # 2
    BY <1>1, <1>3 DEF EndsLine
  <1>5. n = 3
    BY <1>1, <1>2, <1>4
  <1>6. line = toServer
    BY <1>1, <1>2, <1>5
  <1>7. SubSeq(toServer, 4, 3) = <<>>
    BY <1>2
  <1> QED BY <1>2, <1>6, <1>7 DEF Rest

(* No line of requests is the name of a file.                              *)
LEMMA NoName ==
    ASSUME NEW F, toServer \in Seq(Of(F)), NEW name, name \notin F, NEW line \in Lines
    PROVE  line # Line(name)
  <1>1. PICK n \in 1 .. Len(toServer) : line = SubSeq(toServer, 1, n)
    BY DEF Lines
  <1>2. Len(toServer) \in Nat /\ 1 \in 1 .. Len(toServer)
    BY <1>1
  <1>3. line[1] = toServer[1]
    BY <1>1, <1>2
  <1>4. toServer[1] \in Of(F)
    BY <1>2
  <1>5. Line(name)[1].of = name
    <2>1. Line(name)[1] = [of |-> name, part |-> 1]
      BY LineIs, Zenon
    <2> QED BY <2>1
  <1> QED BY <1>3, <1>4, <1>5 DEF Of
(* The parameters, one after the other.                                    *)
LEMMA ParametersAre ==
    /\ AllBytes(Parameters) \in Seq(Plain) /\ Len(AllBytes(Parameters)) = 6
    /\ ParametersFrom(1) = AllBytes(Parameters)
    /\ \A k \in 1 .. 3 :
          /\ AllBytes(Parameters)[2 * k - 1] = Bytes(Parameters[k])[1]
          /\ AllBytes(Parameters)[2 * k] = Bytes(Parameters[k])[2]
  <1>1. AllBytes(Parameters) \in Seq(Plain) /\ Len(Parameters) = 3
    BY Written, Lists
  <1>2. AllBytes(Parameters) =
          [i \in 1 .. 6 |-> Bytes(Parameters[(i + 1) \div 2])[((i - 1) % 2) + 1]]
    BY <1>1 DEF AllBytes
  <1>3. Len(AllBytes(Parameters)) = 6
    <2>1. DOMAIN AllBytes(Parameters) = 1 .. 6
      BY <1>2
    <2>2. DOMAIN AllBytes(Parameters) = 1 .. Len(AllBytes(Parameters))
          /\ Len(AllBytes(Parameters)) \in Nat
      BY <1>1
    <2> QED BY <2>1, <2>2
  <1>4. ParametersFrom(1) = AllBytes(Parameters)
    <2>1. \A S : \A s \in Seq(S) : Len(s) = 6 => SubSeq(s, 1, 6) = s
      OBVIOUS
    <2> QED BY <1>1, <1>3, <2>1 DEF ParametersFrom
  <1>5. ASSUME NEW k \in 1 .. 3
        PROVE  /\ AllBytes(Parameters)[2 * k - 1] = Bytes(Parameters[k])[1]
               /\ AllBytes(Parameters)[2 * k] = Bytes(Parameters[k])[2]
    <2>1. /\ 2 * k - 1 \in 1 .. 6 /\ ((2 * k - 1) + 1) \div 2 = k
          /\ (((2 * k - 1) - 1) % 2) + 1 = 1
          /\ 2 * k \in 1 .. 6 /\ (2 * k + 1) \div 2 = k /\ ((2 * k - 1) % 2) + 1 = 2
      BY Z3
    <2> QED BY <1>2, <2>1
  <1> QED BY <1>1, <1>3, <1>4, <1>5

LEMMA ParameterRead ==
    ASSUME NEW k \in 1 .. 3, NEW read \in MayRead(ParametersFrom(k), 2), Len(read) = 2
    PROVE  /\ read = Bytes(Parameters[k])
           /\ k < 3 => Rest(ParametersFrom(k), read) = ParametersFrom(k + 1)
           /\ k = 3 => Rest(ParametersFrom(k), read) = <<>>
  <1>1. PICK s : s = AllBytes(Parameters)
    OBVIOUS
  <1>2. s \in Seq(Plain) /\ Len(s) = 6
    BY <1>1, ParametersAre
  <1>3. PICK left : left = ParametersFrom(k)
    OBVIOUS
  <1>4. left = SubSeq(s, 2 * k - 1, 6)
    BY <1>1, <1>3 DEF ParametersFrom
  <1>5. /\ left \in Seq(Plain) /\ Len(left) = 8 - 2 * k
        /\ \A i \in 1 .. 8 - 2 * k : left[i] = s[2 * k - 2 + i]
    <2>1. PICK m \in Nat \ {0} : m = 2 * k - 1
      OBVIOUS
    <2>2. /\ left \in Seq(Plain) /\ Len(left) = IF m <= 6 THEN 6 - m + 1 ELSE 0
          /\ \A i \in 1 .. Len(left) : left[i] = s[m + i - 1]
      <3>1. PICK S, n : S = Plain /\ n = 6
        OBVIOUS
      <3>2. n \in Nat /\ n <= Len(s) /\ s \in Seq(S)
        BY <1>2, <3>1
      <3>3. /\ SubSeq(s, m, n) \in Seq(S)
            /\ Len(SubSeq(s, m, n)) = IF m <= n THEN n - m + 1 ELSE 0
            /\ \A i \in 1 .. Len(SubSeq(s, m, n)) : SubSeq(s, m, n)[i] = s[m + i - 1]
        BY <3>2, Parts
      <3>4. left = SubSeq(s, m, n)
        BY <1>4, <2>1, <3>1
      <3> QED BY <3>1, <3>3, <3>4
    <2>3. Len(left) = 8 - 2 * k /\ \A i \in 1 .. 8 - 2 * k : m + i - 1 = 2 * k - 2 + i
      BY <2>1, <2>2
    <2> QED BY <2>2, <2>3
  <1>6. /\ read \in Seq(Plain) /\ read[1] = left[1] /\ read[2] = left[2]
        /\ Rest(left, read) = SubSeq(left, 3, Len(left))
    <2>1. read \in MayRead(left, 2)
      BY <1>3
    <2>2. read \in Seq(Plain) /\ \A i \in 1 .. Len(read) : read[i] = left[i]
      BY <1>5, <2>1, ReadGives
    <2> QED BY <2>2 DEF Rest
  <1>7. read[1] = Bytes(Parameters[k])[1] /\ read[2] = Bytes(Parameters[k])[2]
    <2>1. left[1] = s[2 * k - 1] /\ left[2] = s[2 * k]
      <3>1. 1 \in 1 .. 8 - 2 * k /\ 2 \in 1 .. 8 - 2 * k /\ (2 * k - 2) + 1 = 2 * k - 1
            /\ (2 * k - 2) + 2 = 2 * k
        OBVIOUS
      <3> QED BY <1>5, <3>1
    <2> QED BY <1>1, <1>6, <2>1, ParametersAre
  <1>8. read = Bytes(Parameters[k])
    <2>1. Parameters[k] \in Quiet
      <3>1. Parameters \in Seq(Quiet) /\ Len(Parameters) = 3
        BY Lists
      <3> QED BY <3>1, LookedUp
    <2>2. Bytes(Parameters[k]) \in Seq(Plain) /\ Len(Bytes(Parameters[k])) = 2
      BY <2>1, PlainOf, BytesOf
    <2>3. \A t, u \in Seq(Plain) :
            Len(t) = 2 /\ Len(u) = 2 /\ t[1] = u[1] /\ t[2] = u[2] => t = u
      OBVIOUS
    <2> QED BY <1>6, <1>7, <2>2, <2>3
  <1>9. k < 3 => SubSeq(left, 3, Len(left)) = SubSeq(s, 2 * (k + 1) - 1, 6)
    BY <1>2, <1>4, <1>5
  <1>10. k = 3 => SubSeq(left, 3, Len(left)) = <<>>
    BY <1>5
  <1> QED BY <1>1, <1>3, <1>6, <1>8, <1>9, <1>10 DEF ParametersFrom
-----------------------------------------------------------------------------
(* Steps of the server.                                                    *)

(* A server at work has a client that has not closed, and is at one of the *)
(* places where steps of the server may take it.                           *)
ServerMoves ==
    /\ UNCHANGED clientSide /\ astray \subseteq astray' /\ server # "closed"

LEMMA ServerWasSteady ==
    ASSUME IInv, ServerMoves, Steady'
    PROVE  /\ Steady /\ Stage /\ UNCHANGED client /\ "client" \notin closed
           /\ toServer \in Seq(Token) /\ toClient \in Seq(Token)
           /\ client \in Connected => server \in Accepted
  <1>1. UNCHANGED <<client, unsure>>
    BY DEF ServerMoves, clientSide
  <1>2. Steady
    BY <1>1 DEF ServerMoves, Steady
  <1>3. "client" \notin closed
    BY <1>2 DEF IInv, Closers, Steady
  <1>4. client \in Connected => server \in Accepted
    BY DEF IInv, SInv, SecretIsShared, Accepted
  <1> QED BY <1>1, <1>2, <1>3, <1>4, StreamsTyped DEF IInv, SInv

(* Nothing more is claimed of a get in which a field was cut.              *)
LEMMA CutStays ==
    ASSUME UNCHANGED client, astray' # {}, client \in {"reply"} \union Receiving
    PROVE  Stage'
  BY DEF Stage

(* Of a server before and at a place, with nothing cut so far.             *)
LEMMA AtNegotiate ==
    Stage /\ server = "negotiate" /\ (client \in Connected => server \in Accepted)
    => /\ astray = {} /\ toServer = Bytes("revision")
       /\ \/ client = "revision" /\ toClient = Bytes("revision")
          \/ client = "challenge" /\ toClient = <<>>
  BY DEF Stage, Greeting, Idle, Asking, Dirring, Counting, At, Agreed, Accepted, Serving,
         Connected, Receiving

LEMMA AtAuthenticate ==
    Stage /\ server = "authenticate" /\ (client \in Connected => server \in Accepted)
    => /\ astray = {}
       /\ \/ toServer = <<>>
          \/ client = "status" /\ toServer = Proof /\ toClient = <<>>
  BY DEF Stage, Greeting, Idle, Asking, Dirring, Counting, At, Agreed, Accepted, Serving,
         Connected, Receiving

LEMMA AtName ==
    Stage /\ server = "name" /\ astray = {}
    => \/ toServer = <<>>
       \/ \E name \in Files \union Missing : At("result", "name", Line(name), <<>>)
       \/ At("listing", "name", Line("list"), <<>>)
       \/ At("counts", "name", Line("all"), <<>>)
       \/ /\ client \in Receiving
          /\ toServer \in Seq(Of({"port", "request", "stop"}))
  BY DEF Stage, Greeting, Idle, Asking, Dirring, Counting, At, Agreed, Receiving

LEMMA AtOther ==
    ASSUME Stage, astray = {}
    PROVE  /\ server \in {"sizes", "empty_hook"} =>
                \/ toServer = <<>>
                \/ /\ client = "no_files" /\ toServer = Bytes("got_size")
                   /\ toClient \in Seq(Of({"zeros"}))
           /\ server \in {"names", "first_name"} => toServer = <<>>
           /\ server = "parameters" =>
                \/ toServer = <<>>
                \/ /\ client = "reply" /\ toServer = ParametersFrom(serverField)
                   /\ toClient = <<>> /\ misread = {}
           /\ server = "port" =>
                \/ toServer = <<>>
                \/ /\ client \in Receiving
                   /\ toServer \in Seq(Of({"port", "request", "stop"}))
                   /\ misread = {} /\ Len(toServer) >= 2
                   /\ SubSeq(toServer, 1, 2) = Bytes("port")
           /\ server = "transfer" =>
                /\ client \in Receiving
                /\ toServer \in Seq(Of({"port", "request", "stop"}))
                /\ misread = {} /\ port = Bytes("port")
  BY DEF Stage, Greeting, Idle, Asking, Dirring, Counting, At, Agreed, Receiving

LEMMA CutAt ==
    Stage /\ astray # {} => client \in {"reply"} \union Receiving
  BY DEF Stage

LEMMA NegotiateStage ==
    ASSUME IInv, Negotiate, Steady' PROVE Stage'
  <1>1. UNCHANGED <<clientSide, astray>> /\ server = "negotiate"
    BY DEF Negotiate
  <1>2. /\ Stage /\ UNCHANGED client /\ toServer \in Seq(Token) /\ toClient \in Seq(Token)
        /\ client \in Connected => server \in Accepted
    BY <1>1, ServerWasSteady DEF ServerMoves
  <1>3. /\ astray = {} /\ toServer = Bytes("revision")
        /\ \/ client = "revision" /\ toClient = Bytes("revision")
           \/ client = "challenge" /\ toClient = <<>>
    BY <1>1, <1>2, AtNegotiate
  <1>4. PICK read \in MayRead(toServer, 2) :
          /\ read = Bytes("revision") /\ ServerReads(read, Bytes("challenge"))
          /\ server' = "authenticate"
    BY DEF Negotiate, HandlerEnds, Steady
  <1>5. toServer' = <<>>
    BY <1>2, <1>3, <1>4, ReadAll DEF ServerReads
  <1>6. toClient' = toClient \o Bytes("challenge")
    BY <1>4 DEF ServerReads
  <1>7. toClient = <<>> => toClient' = Bytes("challenge")
    BY <1>6, ConcatEmptySeq, PlainOf DEF Quiet
  <1>8. Greeting'
    BY <1>1, <1>2, <1>3, <1>4, <1>5, <1>6, <1>7 DEF Greeting, At
  <1> QED BY <1>1, <1>3, <1>8 DEF Stage

LEMMA AuthenticateStage ==
    ASSUME IInv, Authenticate, Steady' PROVE Stage'
  <1>1. UNCHANGED <<clientSide, astray>> /\ server = "authenticate"
    BY DEF Authenticate
  <1>2. /\ Stage /\ UNCHANGED client /\ toServer \in Seq(Token)
        /\ client \in Connected => server \in Accepted
    BY <1>1, ServerWasSteady DEF ServerMoves
  <1>3. PICK read \in MayRead(toServer, 2) :
          /\ read = Bytes("proof") /\ ServerReads(read, Byte("ok")) /\ server' = "name"
    BY DEF Authenticate, HandlerEnds, Steady
  <1>4. toServer # <<>>
    BY <1>3, ReadNothing
  <1>5. astray = {} /\ client = "status" /\ toServer = Proof /\ toClient = <<>>
    BY <1>1, <1>2, <1>4, AtAuthenticate
  <1>6. Len(read) = 2 /\ Len(toServer) = 2
    BY <1>3, <1>5 DEF Proof, Bytes
  <1>7. toServer' = <<>>
    BY <1>2, <1>3, <1>6, ReadAll DEF ServerReads
  <1>8. toClient' = Byte("ok")
    <2>1. toClient' = <<>> \o Byte("ok")
      BY <1>3, <1>5 DEF ServerReads
    <2>2. Byte("ok") \in Seq({[of |-> "ok", part |-> 1]})
      BY DEF Byte
    <2> QED BY <2>1, <2>2, ConcatEmptySeq
  <1>9. Greeting'
    BY <1>2, <1>3, <1>5, <1>7, <1>8 DEF Greeting, At
  <1> QED BY <1>1, <1>5, <1>9 DEF Stage

LEMMA EmptyBefore ==
    ASSUME NEW S, NEW s \in Seq(S) PROVE <<>> \o s = s /\ s \o <<>> = s
  BY ConcatEmptySeq

(* Names are no special ones.                                              *)
LEMMA NamesApart ==
    ASSUME NEW name \in Files \union Missing PROVE name \notin Words
  BY SessionAssumption

LEMMA OpenTransferStage ==
    ASSUME IInv, OpenTransfer, Steady' PROVE Stage'
  <1>1. UNCHANGED <<clientSide, astray>> /\ server = "name"
    BY DEF OpenTransfer
  <1>2. Stage /\ UNCHANGED client
    BY <1>1, ServerWasSteady DEF ServerMoves
  <1>3. CASE astray # {}
    BY <1>1, <1>2, <1>3, CutAt, CutStays
  <1>4. CASE astray = {}
    <2>1. PICK line \in Lines :
          \/ /\ line = Line("list")
             /\ ServerReads(line, Byte("listing") \o Byte("zero")) /\ server' = "ack"
          \/ /\ line = Line("all")
             /\ ServerReads(line, Counts) /\ server' \in {"sizes", "empty_hook"}
          \/ /\ \E name \in Files : line = Line(name)
             /\ ServerReads(line, Byte("ok")) /\ server' = "parameters"
          \/ /\ \A name \in Files \union {"list", "all"} : line # Line(name)
             /\ ServerReads(line, Byte("refused")) /\ server' = "name"
      BY <1>1 DEF OpenTransfer, AfterRefusal
    <2>2. toServer # <<>>
      BY <2>1 DEF Lines
    <2>3. serverField' = 1 /\ misread' = {}
      BY DEF OpenTransfer
    <2>4. CASE \E name \in Files \union Missing : At("result", "name", Line(name), <<>>)
      <3>1. PICK name \in Files \union Missing :
              client = "result" /\ toServer = Line(name) /\ toClient = <<>>
        BY <2>4 DEF At
      <3>2. line = Line(name) /\ Rest(toServer, line) = <<>>
        BY <3>1, TakesTheLine
      <3>3. line # Line("list") /\ line # Line("all")
        <4>1. name # "list" /\ name # "all"
          BY NamesApart DEF Words
        <4> QED BY <3>2, <4>1, LinesDiffer
      <3>4. /\ Byte("ok") \in Seq({[of |-> "ok", part |-> 1]})
            /\ Byte("refused") \in Seq({[of |-> "refused", part |-> 1]})
        BY DEF Byte
      <3>5. toServer' = <<>>
        BY <2>1, <3>2 DEF ServerReads
      <3>6. \/ server' = "parameters" /\ toClient' = Byte("ok")
            \/ server' = "name" /\ toClient' = Byte("refused")
        BY <2>1, <3>1, <3>3, <3>4, EmptyBefore DEF ServerReads
      <3>7. Asking'
        BY <1>2, <2>3, <3>1, <3>5, <3>6 DEF Asking, At
      <3> QED BY <1>1, <1>4, <3>7 DEF Stage
    <2>5. CASE At("listing", "name", Line("list"), <<>>)
      <3>1. client = "listing" /\ toServer = Line("list") /\ toClient = <<>>
        BY <2>5 DEF At
      <3>2. line = Line("list") /\ Rest(toServer, line) = <<>>
        BY <3>1, TakesTheLine
      <3>3. line # Line("all") /\ \A name \in Files : line # Line(name)
        <4>1. \A name \in Files \union {"all"} : name # "list"
          BY NamesApart DEF Words
        <4> QED BY <3>2, <4>1, LinesDiffer
      <3>4. /\ toServer' = <<>> /\ server' = "ack"
            /\ toClient' = toClient \o (Byte("listing") \o Byte("zero"))
        BY <2>1, <3>2, <3>3 DEF ServerReads
      <3>5. toClient' = Byte("listing") \o Byte("zero")
        BY <3>1, <3>4, EmptyBefore, Written
      <3>6. Dirring'
        BY <1>2, <3>1, <3>4, <3>5 DEF Dirring, At
      <3> QED BY <1>1, <1>4, <3>6 DEF Stage
    <2>6. CASE At("counts", "name", Line("all"), <<>>)
      <3>1. client = "counts" /\ toServer = Line("all") /\ toClient = <<>>
        BY <2>6 DEF At
      <3>2. line = Line("all") /\ Rest(toServer, line) = <<>>
        BY <3>1, TakesTheLine
      <3>3. line # Line("list") /\ \A name \in Files : line # Line(name)
        <4>1. \A name \in Files \union {"list"} : name # "all"
          BY NamesApart DEF Words
        <4> QED BY <3>2, <4>1, LinesDiffer
      <3>4. toServer' = <<>> /\ server' \in {"sizes", "empty_hook"} /\ toClient' = toClient \o Counts
        BY <2>1, <3>2, <3>3 DEF ServerReads
      <3>5. toClient' \in Seq(Of({"zeros"}))
        <4>1. Counts \in Seq(Of({"zeros"}))
          BY BytesOf, Joined DEF Counts
        <4> QED BY <3>1, <3>4, <4>1, EmptyBefore
      <3>6. Counting'
        BY <1>2, <3>1, <3>4, <3>5 DEF Counting
      <3> QED BY <1>1, <1>4, <3>6 DEF Stage
    <2>7. CASE client \in Receiving /\ toServer \in Seq(Of({"port", "request", "stop"}))
      <3>1. \A name \in Files \union {"list", "all"} : name \notin {"port", "request", "stop"}
        BY NamesApart DEF Words
      <3>2. \A name \in Files \union {"list", "all"} : line # Line(name)
        BY <2>7, <3>1, NoName
      <3>3. server' = "name" /\ toServer' = Rest(toServer, line)
        BY <2>1, <3>2 DEF ServerReads
      <3>4. toServer' \in Seq(Of({"port", "request", "stop"}))
        BY <2>7, <3>3, LineParts
      <3>5. Agreed'
        BY <1>2, <2>7, <3>3, <3>4 DEF Agreed, Receiving
      <3> QED BY <1>2, <2>7, <3>5 DEF Stage
    <2> QED BY <1>1, <1>2, <1>4, <2>2, <2>4, <2>5, <2>6, <2>7, AtName
  <1> QED BY <1>3, <1>4

LEMMA AnswerToCountsStage ==
    ASSUME IInv, AnswerToCounts, Steady' PROVE Stage'
  <1>1. UNCHANGED clientSide /\ server \in {"sizes", "empty_hook"}
    BY DEF AnswerToCounts
  <1>2. PICK read \in MayRead(toServer, 2) :
          /\ \/ ServerReads(read, Names) /\ server' = "names"
             \/ ServerReads(read, Byte("refused")) /\ server' = "name"
          /\ NoteAnswer(read)
    BY DEF AnswerToCounts
  <1>3. UNCHANGED astray /\ Len(read) = 2
    BY <1>2 DEF NoteAnswer, Steady
  <1>4. Stage /\ UNCHANGED client /\ toServer \in Seq(Token)
    BY <1>1, <1>3, ServerWasSteady DEF ServerMoves
  <1>5. CASE astray # {}
    BY <1>3, <1>4, <1>5, CutAt, CutStays
  <1>6. CASE astray = {}
    <2>1. toServer # <<>>
      BY <1>2, ReadNothing
    <2>2. /\ client = "no_files" /\ toServer = Bytes("got_size")
          /\ toClient \in Seq(Of({"zeros"}))
      BY <1>1, <1>4, <1>6, <2>1, AtOther
    <2>3. toServer' = <<>>
      <3>1. Len(toServer) = 2
        BY <2>2 DEF Bytes
      <3> QED BY <1>2, <1>3, <1>4, <3>1, ReadAll DEF ServerReads
    <2>4. CASE ServerReads(read, Names) /\ server' = "names"
      <3>1. PICK T : T = Of(Files \union {"zero", "zeros"})
        OBVIOUS
      <3>2. Of({"zeros"}) \subseteq T /\ Of(Files \union {"zero"}) \subseteq T
        BY <3>1 DEF Of
      <3>3. toClient \in Seq(T) /\ Names \in Seq(T)
        BY <2>2, <3>2, NamesOf, Wider
      <3>4. toClient' \in Seq(T)
        BY <2>4, <3>3, Joined DEF ServerReads
      <3>5. Counting'
        BY <1>4, <2>2, <2>3, <2>4, <3>1, <3>4 DEF Counting
      <3> QED BY <1>3, <1>6, <3>5 DEF Stage
    <2>5. CASE ServerReads(read, Byte("refused")) /\ server' = "name"
      <3>1. PICK S, t : S = Of({"zeros", "refused"}) /\ t = Byte("refused")
        OBVIOUS
      <3>2. Of({"zeros"}) \subseteq S
        BY <3>1 DEF Of
      <3>3. toClient \in Seq(S) /\ t \in Seq(S) /\ Len(t) = 1
        BY <2>2, <3>1, <3>2, BytesOf, Wider
      <3>4. PICK s \in Seq(S) : s = toClient
        BY <3>3
      <3>5. /\ Len(s \o t) = Len(s) + 1
            /\ \A i \in 1 .. Len(s) + 1 : (s \o t)[i] = IF i <= Len(s) THEN s[i] ELSE t[i - Len(s)]
        <4>1. /\ Len(s \o t) = Len(s) + Len(t)
              /\ \A i \in 1 .. Len(s) + Len(t) :
                    (s \o t)[i] = IF i <= Len(s) THEN s[i] ELSE t[i - Len(s)]
          BY <3>3, <3>4, ConcatProperties
        <4> QED BY <3>3, <4>1
      <3>6. toClient' = s \o t
        BY <2>5, <3>1, <3>4 DEF ServerReads
      <3>7. \A i \in 1 .. Len(s) : s[i] # [of |-> "refused", part |-> 1]
        BY <2>2, <3>4 DEF Of
      <3>8. Len(s) \in Nat
        BY <3>4
      <3>9. \A i \in 1 .. Len(toClient') :
              toClient'[i] = [of |-> "refused", part |-> 1] => i = Len(toClient')
        BY <3>5, <3>6, <3>7, <3>8
      <3>10. toClient' # <<>>
        BY <3>5, <3>6, <3>8
      <3>11. Counting'
        BY <1>4, <2>2, <2>3, <2>5, <3>9, <3>10 DEF Counting
      <3> QED BY <1>3, <1>6, <3>11 DEF Stage
    <2> QED BY <1>2, <2>4, <2>5
  <1> QED BY <1>5, <1>6

LEMMA NamesStage ==
    ASSUME IInv, AnswerToNames \/ FirstName, Steady' PROVE Stage'
  <1>1. UNCHANGED clientSide /\ server \in {"names", "first_name"} /\ toServer # <<>>
    BY ReadNothing DEF AnswerToNames, FirstName, Lines
  <1>2. astray \subseteq astray'
    BY DEF AnswerToNames, FirstName, NoteAnswer
  <1>3. Stage /\ UNCHANGED client
    BY <1>1, <1>2, ServerWasSteady DEF ServerMoves
  <1>4. astray # {}
    BY <1>1, <1>3, AtOther
  <1> QED BY <1>2, <1>3, <1>4, CutAt, CutStays

LEMMA ListAcknowledgedStage ==
    ASSUME ListAcknowledged, Steady' PROVE Stage'
  BY DEF ListAcknowledged, Steady

LEMMA ReadParameterStage ==
    ASSUME IInv, ReadParameter, Steady' PROVE Stage'
  <1>1. UNCHANGED clientSide /\ server = "parameters"
    BY DEF ReadParameter
  <1>2. PICK read \in MayRead(toServer, 2) :
          /\ NoteLength(read)
          /\ misread' = misread \union (IF read = Bytes(Parameters[serverField]) THEN {}
                                        ELSE {Parameters[serverField]})
          /\ toServer' = Rest(toServer, read)
          /\ \/ /\ serverField # 3 /\ toClient' = toClient \o <<>>
                /\ serverField' = serverField + 1 /\ server' = "parameters"
             \/ serverField = 3 /\ server' = "port"
    <2>1. Len(Parameters) = 3
      BY Lists
    <2> QED BY <1>1, <2>1 DEF ReadParameter, LastParameter, ServerReads, HandlerEnds, Steady
  <1>3. astray \subseteq astray' /\ (Len(read) # 2 => astray' # {})
    BY <1>2 DEF NoteLength
  <1>4. Stage /\ UNCHANGED client /\ toServer \in Seq(Token)
    BY <1>1, <1>3, ServerWasSteady DEF ServerMoves
  <1>5. CASE astray # {}
    BY <1>3, <1>4, <1>5, CutAt, CutStays
  <1>6. CASE astray = {}
    <2>1. toServer # <<>>
      BY <1>2, ReadNothing
    <2>2. /\ client = "reply" /\ toServer = ParametersFrom(serverField)
          /\ toClient = <<>> /\ misread = {}
      BY <1>1, <1>4, <1>6, <2>1, AtOther
    <2>3. CASE Len(read) # 2
      BY <1>3, <1>4, <2>2, <2>3, CutStays
    <2>4. CASE Len(read) = 2
      <3>1. serverField \in 1 .. 3
        BY Lists DEF IInv, SInv, Fields
      <3>2. /\ read = Bytes(Parameters[serverField])
            /\ serverField < 3 =>
                 Rest(toServer, read) = ParametersFrom(serverField + 1)
            /\ serverField = 3 => Rest(toServer, read) = <<>>
        BY <1>2, <2>2, <2>4, <3>1, ParameterRead
      <3>3. misread' = {}
        BY <1>2, <2>2, <3>2
      <3>4. Agreed'
        <4>1. CASE serverField # 3
          <5>1. toClient' = <<>>
            <6>1. \A S : \A s \in Seq(S) : s \o <<>> = s
              BY EmptyBefore
            <6>2. <<>> \in Seq({})
              OBVIOUS
            <6> QED BY <1>2, <2>2, <4>1, <6>1, <6>2
          <5>2. toServer' = ParametersFrom(serverField')
            BY <1>2, <3>1, <3>2, <4>1
          <5> QED BY <1>2, <1>4, <2>2, <3>3, <4>1, <5>1, <5>2 DEF Agreed, At, ParametersFrom, Receiving
        <4>2. CASE serverField = 3
          BY <1>2, <1>4, <2>2, <3>2, <3>3, <4>2 DEF Agreed, Receiving
        <4> QED BY <4>1, <4>2
      <3> QED BY <1>4, <2>2, <3>4 DEF Stage
    <2> QED BY <2>3, <2>4
  <1> QED BY <1>5, <1>6

LEMMA OpenPortStage ==
    ASSUME IInv, OpenPort, Steady' PROVE Stage'
  <1>1. UNCHANGED <<clientSide, misread>> /\ server = "port" /\ server' \in {"transfer", "name"}
    BY DEF OpenPort
  <1>2. PICK read \in MayRead(toServer, 2) :
          toServer' = Rest(toServer, read) /\ port' = read /\ NoteLength(read)
    BY DEF OpenPort, ServerReads
  <1>3. astray \subseteq astray' /\ (Len(read) # 2 => astray' # {})
    BY <1>2 DEF NoteLength
  <1>4. Stage /\ UNCHANGED client
    BY <1>1, <1>3, ServerWasSteady DEF ServerMoves
  <1>5. CASE astray # {}
    BY <1>3, <1>4, <1>5, CutAt, CutStays
  <1>6. CASE astray = {}
    <2>1. toServer # <<>>
      BY <1>2, ReadNothing
    <2>2. /\ client \in Receiving
          /\ toServer \in Seq(Of({"port", "request", "stop"})) /\ misread = {}
          /\ SubSeq(toServer, 1, 2) = Bytes("port")
      BY <1>1, <1>4, <1>6, <2>1, AtOther
    <2>3. CASE Len(read) # 2
      BY <1>3, <1>4, <2>2, <2>3, CutStays
    <2>4. CASE Len(read) = 2
      <3>1. read = SubSeq(toServer, 1, 2) /\ toServer' \in Seq(Of({"port", "request", "stop"}))
        BY <1>2, <2>2, <2>4, ReadGives
      <3>2. Agreed'
        BY <1>1, <1>2, <1>4, <2>2, <3>1 DEF Agreed, Receiving
      <3> QED BY <1>4, <2>2, <3>2 DEF Stage
    <2> QED BY <2>3, <2>4
  <1> QED BY <1>5, <1>6

LEMMA TransferStage ==
    ASSUME IInv, Transfer, Steady' PROVE Stage'
  <1>1. UNCHANGED <<clientSide, misread, astray, port>> /\ server = "transfer"
    BY DEF Transfer
  <1>2. Stage /\ UNCHANGED client
    BY <1>1, ServerWasSteady DEF ServerMoves
  <1>3. CASE astray # {}
    BY <1>1, <1>2, <1>3, CutAt, CutStays
  <1>4. CASE astray = {}
    <2>1. /\ client \in Receiving
          /\ toServer \in Seq(Of({"port", "request", "stop"}))
          /\ misread = {} /\ port = Bytes("port")
      BY <1>1, <1>2, <1>4, AtOther
    <2>2. 2 - Len(record) \in Nat
      <3>1. record \in Seq(Token) /\ Len(record) <= 1
        BY DEF IInv, SInv, Fields
      <3> QED BY <3>1
    <2>3. PICK read \in MayRead(toServer, 2 - Len(record)) :
            toServer' = Rest(toServer, read) /\ server' \in {"name", "transfer"}
      BY <1>1 DEF Transfer, ServerReads, HandlerEnds, Steady
    <2>4. toServer' \in Seq(Of({"port", "request", "stop"}))
      BY <2>1, <2>2, <2>3, ReadParts
    <2>5. Agreed'
      BY <1>1, <1>2, <2>1, <2>3, <2>4 DEF Agreed, Receiving
    <2> QED BY <1>2, <2>1, <2>5 DEF Stage
  <1> QED BY <1>3, <1>4

(* A Read fails only when the client has closed.                           *)
LEMMA ServerReadFailsStage ==
    ASSUME IInv, ServerReadFails, Steady' PROVE Stage'
  <1>1. UNCHANGED <<clientSide, astray>> /\ "client" \in closed
    BY DEF ServerReadFails
  <1>2. client = "offline"
    BY <1>1 DEF IInv, Closers
  <1> QED BY <1>1, <1>2 DEF Steady, clientSide

LEMMA ServerStage == IInv /\ Server /\ Steady' => Stage'
  BY NegotiateStage, AuthenticateStage, OpenTransferStage, AnswerToCountsStage, NamesStage,
     ListAcknowledgedStage, ReadParameterStage, OpenPortStage, TransferStage,
     ServerReadFailsStage DEF Server
-----------------------------------------------------------------------------
(* Steps of the client.                                                    *)

LEMMA ClientWasSteady ==
    ASSUME IInv, UNCHANGED serverSide, client # "offline", unsure => unsure', Steady'
    PROVE  /\ Steady /\ Stage /\ UNCHANGED <<server, astray>>
           /\ toServer \in Seq(Token) /\ toClient \in Seq(Token)
           /\ "server" \notin closed
           /\ client \in Connected => server \in Accepted
  <1>1. UNCHANGED <<server, astray>>
    BY DEF serverSide
  <1>2. Steady
    BY <1>1 DEF Steady
  <1>3. "server" \notin closed
    BY <1>2 DEF IInv, Closers, Steady
  <1>4. client \in Connected => server \in Accepted
    BY DEF IInv, SInv, SecretIsShared, Accepted
  <1> QED BY <1>1, <1>2, <1>3, <1>4, StreamsTyped DEF IInv, SInv

LEMMA AtHandshake ==
    ASSUME Stage
    PROVE  /\ client = "revision" =>
                \/ At("revision", "negotiate", Bytes("revision"), Bytes("revision"))
                \/ At("revision", "authenticate", <<>>, Bytes("revision") \o Bytes("challenge"))
           /\ client = "challenge" =>
                \/ toClient = <<>>
                \/ At("challenge", "authenticate", <<>>, Bytes("challenge"))
           /\ client = "status" =>
                \/ toClient = <<>>
                \/ At("status", "name", <<>>, Byte("ok"))
           /\ client \in {"revision", "challenge", "status"} => astray = {}
  BY DEF Stage, Greeting, Idle, Asking, Dirring, Counting, At, Agreed, Receiving

LEMMA AtPrompt ==
    ASSUME Stage
    PROVE  /\ client = "prompt" =>
                \/ Idle
                \/ server = "ack" /\ toClient = <<>>
           /\ client = "result" =>
                \/ toClient = <<>>
                \/ server = "name" /\ toServer = <<>> /\ toClient = Byte("refused")
                \/ /\ server = "parameters" /\ toServer = <<>> /\ toClient = Byte("ok")
                   /\ serverField = 1 /\ misread = {}
           /\ client = "listing" =>
                \/ toClient = <<>>
                \/ server = "ack" /\ toClient = Byte("listing") \o Byte("zero")
           /\ client \in {"prompt", "result", "listing"} => astray = {}
  BY DEF Stage, Greeting, Idle, Asking, Dirring, Counting, At, Agreed, Receiving

LEMMA AtCounts ==
    ASSUME Stage
    PROVE  /\ client = "counts" =>
                \/ toClient = <<>>
                \/ /\ server \in {"sizes", "empty_hook"} /\ toServer = <<>>
                   /\ toClient \in Seq(Of({"zeros"}))
           /\ client = "no_files" =>
                \/ toClient \in Seq(Of({"zeros"}))
                \/ toClient \in Seq(Of(Files \union {"zero", "zeros"}))
                \/ /\ server = "name" /\ toServer = <<>>
                   /\ \A i \in 1 .. Len(toClient) :
                        toClient[i] = [of |-> "refused", part |-> 1] => i = Len(toClient)
           /\ client \in {"counts", "no_files"} => astray = {}
  BY DEF Stage, Greeting, Idle, Asking, Dirring, Counting, At, Agreed, Receiving

LEMMA AtGet ==
    ASSUME Stage, astray = {}
    PROVE  /\ client = "reply" =>
                \/ toClient = <<>>
                \/ server = "port" /\ toServer = <<>> /\ misread = {}
           /\ client \in {"receive", "again"} =>
                /\ toServer \in Seq(Of({"port", "request", "stop"}))
                /\ \/ /\ server = "port" /\ misread = {}
                      /\ Len(toServer) >= 2 /\ SubSeq(toServer, 1, 2) = Bytes("port")
                   \/ server = "transfer" /\ misread = {} /\ port = Bytes("port")
                   \/ server = "name"
  BY DEF Stage, Greeting, Idle, Asking, Dirring, Counting, At, Agreed, Receiving

LEMMA SecondField ==
    ASSUME NEW S, NEW s \in Seq(S), NEW t \in Seq(S), Len(s) = 2, Len(t) = 2,
           NEW read, Len(read) = 2
    PROVE  Rest(s \o t, read) = t
  <1>1. PICK u : u = s \o t
    OBVIOUS
  <1>2. /\ u \in Seq(S) /\ Len(u) = Len(s) + Len(t)
        /\ \A i \in 1 .. Len(s) + Len(t) : u[i] = IF i <= Len(s) THEN s[i] ELSE t[i - Len(s)]
    BY <1>1, ConcatProperties
  <1>3. Len(u) = 4 /\ u[3] = t[1] /\ u[4] = t[2]
    BY <1>2
  <1>4. PICK v : v = Rest(u, read)
    OBVIOUS
  <1>5. v = SubSeq(u, 3, 4)
    BY <1>3, <1>4 DEF Rest
  <1>6. v \in Seq(S) /\ Len(v) = 2 /\ v[1] = t[1] /\ v[2] = t[2]
    BY <1>2, <1>3, <1>5
  <1>7. v = t
    <2>1. \A x, y \in Seq(S) :
            Len(x) = 2 /\ Len(y) = 2 /\ x[1] = y[1] /\ x[2] = y[2] => x = y
      OBVIOUS
    <2> QED BY <1>5, <1>6, <2>1
  <1> QED BY <1>1, <1>4, <1>7

LEMMA RevisionStage ==
    ASSUME IInv, Handshake("revision", Bytes("revision"), <<>>, "challenge"), Steady'
    PROVE  Stage'
  <1>1. UNCHANGED <<serverSide, unsure>> /\ client = "revision"
    BY DEF Handshake
  <1>2. /\ Stage /\ UNCHANGED <<server, astray>> /\ toServer \in Seq(Token)
        /\ toClient \in Seq(Token)
    BY <1>1, ClientWasSteady
  <1>3. PICK read \in MayRead(toClient, 2) :
          /\ read = Bytes("revision") /\ client' = "challenge"
          /\ toClient' = Rest(toClient, read) /\ toServer' = toServer \o <<>>
    <2>1. Len(Bytes("revision")) = 2
      BY DEF Bytes
    <2> QED BY <2>1 DEF Handshake, ClientReads, GoesOffline, Steady
  <1>4. toServer' = toServer /\ Len(read) = 2
    BY <1>2, <1>3, EmptyBefore DEF Bytes
  <1>5. CASE At("revision", "negotiate", Bytes("revision"), Bytes("revision"))
    <2>1. toClient' = <<>>
      BY <1>2, <1>3, <1>4, <1>5, ReadAll DEF At
    <2>2. Greeting'
      BY <1>2, <1>3, <1>4, <1>5, <2>1 DEF Greeting, At
    <2> QED BY <1>1, <1>2, <2>2, AtHandshake DEF Stage
  <1>6. CASE At("revision", "authenticate", <<>>, Bytes("revision") \o Bytes("challenge"))
    <2>1. PICK s, t : s = Bytes("revision") /\ t = Bytes("challenge")
      OBVIOUS
    <2>2. PICK S : S = Plain
      OBVIOUS
    <2>3. s \in Seq(S) /\ t \in Seq(S) /\ Len(s) = 2 /\ Len(t) = 2
      BY <2>1, <2>2, PlainOf, BytesOf DEF Quiet
    <2>4. toClient = s \o t /\ toClient \in Seq(S)
      BY <1>6, <2>1, <2>3, Joined DEF At
    <2>5. toClient' = t
      BY <1>3, <1>4, <2>3, <2>4, SecondField
    <2>6. Greeting'
      BY <1>2, <1>3, <1>4, <1>6, <2>1, <2>5 DEF Greeting, At
    <2> QED BY <1>1, <1>2, <2>6, AtHandshake DEF Stage
  <1> QED BY <1>1, <1>2, <1>5, <1>6, AtHandshake

LEMMA ChallengeStage ==
    ASSUME IInv, Handshake("challenge", Bytes("challenge"), Proof, "status"), Steady'
    PROVE  Stage'
  <1>1. UNCHANGED <<serverSide, passphrase, unsure>> /\ client = "challenge"
    BY DEF Handshake
  <1>2. Stage /\ UNCHANGED <<server, astray>> /\ toClient \in Seq(Token)
    BY <1>1, ClientWasSteady
  <1>3. PICK read \in MayRead(toClient, 2) :
          /\ read = Bytes("challenge") /\ client' = "status"
          /\ toClient' = Rest(toClient, read) /\ toServer' = toServer \o Proof
    <2>1. Len(Bytes("challenge")) = 2
      BY DEF Bytes
    <2> QED BY <2>1 DEF Handshake, ClientReads, GoesOffline, Steady
  <1>4. At("challenge", "authenticate", <<>>, Bytes("challenge"))
    <2>1. toClient # <<>>
      BY <1>3, ReadNothing
    <2> QED BY <1>1, <1>2, <2>1, AtHandshake
  <1>5. toClient' = <<>>
    BY <1>2, <1>3, <1>4, ReadAll DEF At
  <1>6. toServer' = Proof' /\ Proof' = Proof
    <2>1. toServer' = <<>> \o Proof
      BY <1>3, <1>4 DEF At
    <2>2. Proof \in Seq(ServerToken)
      BY ProofAllowed
    <2>3. toServer' = Proof
      BY <2>1, <2>2, EmptyBefore
    <2> QED BY <1>1, <2>3 DEF Proof
  <1>7. Greeting'
    BY <1>2, <1>3, <1>4, <1>5, <1>6 DEF Greeting, At
  <1> QED BY <1>1, <1>2, <1>7, AtHandshake DEF Stage

LEMMA StatusStage ==
    ASSUME IInv, Handshake("status", Byte("ok"), <<>>, "prompt"), Steady'
    PROVE  Stage'
  <1>1. UNCHANGED <<serverSide, unsure>> /\ client = "status"
    BY DEF Handshake
  <1>2. /\ Stage /\ UNCHANGED <<server, astray>> /\ toServer \in Seq(Token)
        /\ toClient \in Seq(Token)
    BY <1>1, ClientWasSteady
  <1>3. PICK read \in MayRead(toClient, 1) :
          /\ client' = "prompt"
          /\ toClient' = Rest(toClient, read) /\ toServer' = toServer \o <<>>
    <2>1. Len(Byte("ok")) = 1
      BY DEF Byte
    <2> QED BY <2>1 DEF Handshake, ClientReads, GoesOffline, Steady
  <1>4. At("status", "name", <<>>, Byte("ok"))
    <2>1. toClient # <<>>
      BY <1>3, ReadNothing
    <2> QED BY <1>1, <1>2, <2>1, AtHandshake
  <1>5. toClient' = <<>> /\ toServer' = <<>>
    <2>1. Len(toClient) = 1
      BY <1>4 DEF At, Byte
    <2>2. toClient' = <<>>
      BY <1>2, <1>3, <2>1, ReadOnly
    <2> QED BY <1>2, <1>3, <1>4, <2>2, EmptyBefore DEF At
  <1>6. Idle'
    BY <1>2, <1>3, <1>4, <1>5 DEF Idle, At
  <1> QED BY <1>1, <1>2, <1>6, AtHandshake DEF Stage

LEMMA FileResultStage ==
    ASSUME IInv, FileResult, Steady' PROVE Stage'
  <1>1. UNCHANGED <<serverSide, unsure>> /\ client = "result"
    BY DEF FileResult
  <1>2. /\ Stage /\ UNCHANGED <<server, astray>> /\ toServer \in Seq(Token)
        /\ toClient \in Seq(Token)
    BY <1>1, ClientWasSteady
  <1>3. PICK read \in MayRead(toClient, 1) :
          /\ toClient' = Rest(toClient, read)
          /\ \/ /\ read # Byte("refused") /\ client' = "reply"
                /\ toServer' = toServer \o AllBytes(Parameters)
             \/ /\ read # Byte("ok") /\ client' = "prompt"
                /\ toServer' = toServer \o <<>>
    BY DEF FileResult, ClientReads
  <1>4. toClient # <<>>
    BY <1>3, ReadNothing
  <1>5. CASE server = "name" /\ toServer = <<>> /\ toClient = Byte("refused")
    <2>1. Len(toClient) = 1
      BY <1>5 DEF Byte
    <2>2. read = Byte("refused") /\ toClient' = <<>>
      BY <1>2, <1>3, <1>5, <2>1, ReadOnly
    <2>3. client' = "prompt" /\ toServer' = <<>>
      BY <1>2, <1>3, <1>5, <2>2, EmptyBefore
    <2>4. Idle'
      BY <1>2, <1>5, <2>2, <2>3 DEF Idle, At
    <2> QED BY <1>1, <1>2, <2>4, AtPrompt DEF Stage
  <1>6. CASE /\ server = "parameters" /\ toServer = <<>> /\ toClient = Byte("ok")
             /\ serverField = 1 /\ misread = {}
    <2>1. Len(toClient) = 1
      BY <1>6 DEF Byte
    <2>2. read = Byte("ok") /\ toClient' = <<>>
      BY <1>2, <1>3, <1>6, <2>1, ReadOnly
    <2>3. client' = "reply" /\ toServer' = AllBytes(Parameters)
      BY <1>3, <1>6, <2>2, EmptyBefore, ParametersAre
    <2>4. serverField' = 1 /\ misread' = {}
      BY <1>1, <1>6 DEF serverSide
    <2>5. toServer' = ParametersFrom(serverField')
      BY <2>3, <2>4, ParametersAre
    <2>6. Agreed'
      BY <1>2, <1>6, <2>2, <2>3, <2>4, <2>5 DEF Agreed, At, ParametersFrom, Receiving
    <2> QED BY <2>3, <2>6 DEF Stage
  <1> QED BY <1>1, <1>2, <1>4, <1>5, <1>6, AtPrompt

LEMMA FileReplyStage ==
    ASSUME IInv, FileReply, Steady' PROVE Stage'
  <1>1. /\ UNCHANGED serverSide /\ client = "reply" /\ (unsure => unsure')
    BY DEF FileReply
  <1>2. /\ Stage /\ UNCHANGED <<server, astray>> /\ toServer \in Seq(Token)
    BY <1>1, ClientWasSteady
  <1>3. PICK read \in MayRead(toClient, 2) :
          \/ client' = "reply" /\ toServer' = toServer \o <<>>
          \/ client' = "receive" /\ toServer' = toServer \o Bytes("port")
    BY <1>1 DEF FileReply, ClientReads, Steady
  <1>4. CASE astray # {}
    BY <1>2, <1>3, <1>4 DEF Stage, Receiving
  <1>5. CASE astray = {}
    <2>1. toClient # <<>>
      BY <1>3, ReadNothing
    <2>2. server = "port" /\ toServer = <<>> /\ misread = {}
      BY <1>1, <1>2, <1>5, <2>1, AtGet
    <2>3. UNCHANGED misread
      BY <1>1 DEF serverSide
    <2>4. CASE client' = "reply" /\ toServer' = toServer \o <<>>
      <3>1. toServer' = <<>>
        BY <1>2, <2>2, <2>4, EmptyBefore
      <3>2. Agreed'
        BY <1>2, <2>2, <2>3, <2>4, <3>1 DEF Agreed, Receiving
      <3> QED BY <2>4, <3>2 DEF Stage
    <2>5. CASE client' = "receive" /\ toServer' = toServer \o Bytes("port")
      <3>1. PICK T, t : T = Of({"port", "request", "stop"}) /\ t = Bytes("port")
        OBVIOUS
      <3>2. t \in Seq(T) /\ Len(t) = 2
        BY <3>1, BytesOf
      <3>3. toServer' = t
        BY <2>2, <2>5, <3>1, <3>2, EmptyBefore
      <3>4. SubSeq(t, 1, 2) = t
        BY <3>2
      <3>5. Len(toServer') >= 2 /\ SubSeq(toServer', 1, 2) = Bytes("port")
            /\ toServer' \in Seq(Of({"port", "request", "stop"}))
        <4>1. Len(toServer') >= 2
          BY <3>2, <3>3
        <4> QED BY <3>1, <3>2, <3>3, <3>4, <4>1, Zenon
      <3>6. Agreed'
        BY <1>2, <2>2, <2>3, <2>5, <3>5 DEF Agreed, Receiving
      <3> QED BY <2>5, <3>6 DEF Stage, Receiving
    <2> QED BY <1>3, <2>4, <2>5
  <1> QED BY <1>4, <1>5

LEMMA TakeCountsStage ==
    ASSUME IInv, TakeCounts, Steady' PROVE Stage'
  <1>1. UNCHANGED <<serverSide, unsure>> /\ client = "counts"
    BY DEF TakeCounts
  <1>2. Stage /\ UNCHANGED <<server, astray>>
    BY <1>1, ClientWasSteady
  <1>3. PICK read \in MayRead(toClient, 2) :
          /\ toClient' = Rest(toClient, read)
          /\ \/ client' = "counts" /\ toServer' = toServer \o <<>>
             \/ client' = "no_files" /\ toServer' = toServer \o Bytes("got_size")
    BY <1>1 DEF TakeCounts, ClientReads
  <1>4. /\ server \in {"sizes", "empty_hook"} /\ toServer = <<>>
        /\ toClient \in Seq(Of({"zeros"})) /\ astray = {}
    <2>1. toClient # <<>>
      BY <1>3, ReadNothing
    <2> QED BY <1>1, <1>2, <2>1, AtCounts
  <1>5. toClient' \in Seq(Of({"zeros"}))
    BY <1>3, <1>4, ReadParts
  <1>6. \/ client' = "counts" /\ toServer' = <<>>
        \/ client' = "no_files" /\ toServer' = Bytes("got_size")
    <2>1. Bytes("got_size") \in Seq(Of({"got_size"})) /\ <<>> \in Seq({})
      BY BytesOf
    <2>2. <<>> \o Bytes("got_size") = Bytes("got_size")
      BY <2>1, EmptyBefore
    <2>3. <<>> \o <<>> = <<>>
      BY <2>1, EmptyBefore
    <2> QED BY <1>3, <1>4, <2>2, <2>3
  <1>7. Counting'
    BY <1>2, <1>4, <1>5, <1>6 DEF Counting
  <1> QED BY <1>2, <1>4, <1>7 DEF Stage

(* The answer of get * is the refusal, or the client does not know where   *)
(* the server is.                                                          *)
LEMMA NoFilesStage ==
    ASSUME IInv, NoFiles, Steady' PROVE Stage'
  <1>1. UNCHANGED serverSide /\ client = "no_files" /\ client' = "prompt"
    BY DEF NoFiles
  <1>2. PICK read \in MayRead(toClient, 1) :
          /\ toClient' = Rest(toClient, read) /\ toServer' = toServer \o <<>>
          /\ unsure' = (unsure \/ read # Byte("refused"))
    BY DEF NoFiles, ClientReads
  <1>3. read = Byte("refused") /\ (unsure => unsure')
    BY <1>2 DEF Steady
  <1>4. /\ Stage /\ UNCHANGED <<server, astray>> /\ toServer \in Seq(Token)
        /\ toClient \in Seq(Token)
    BY <1>1, <1>3, ClientWasSteady
  <1>5. Len(read) = 1 /\ read[1] = [of |-> "refused", part |-> 1]
    BY <1>3 DEF Byte
  <1>6. ASSUME NEW S, toClient \in Seq(S) PROVE [of |-> "refused", part |-> 1] \in S
    BY <1>2, <1>5, <1>6, ReadParts
  <1>7. "refused" \notin Files
    BY NamesApart DEF Words
  <1>8. /\ toClient \notin Seq(Of({"zeros"}))
        /\ toClient \notin Seq(Of(Files \union {"zero", "zeros"}))
    <2>1. /\ [of |-> "refused", part |-> 1] \notin Of({"zeros"})
          /\ [of |-> "refused", part |-> 1] \notin Of(Files \union {"zero", "zeros"})
      BY <1>7 DEF Of
    <2> QED BY <1>6, <2>1
  <1>9. /\ server = "name" /\ toServer = <<>> /\ astray = {}
        /\ \A i \in 1 .. Len(toClient) :
             toClient[i] = [of |-> "refused", part |-> 1] => i = Len(toClient)
    BY <1>1, <1>4, <1>8, AtCounts
  <1>10. Len(toClient) = 1
    <2>1. read[1] = toClient[1] /\ 1 <= Len(toClient)
      BY <1>2, <1>4, <1>5, ReadGives
    <2>2. 1 \in 1 .. Len(toClient)
      BY <1>4, <2>1
    <2> QED BY <1>5, <1>9, <2>1, <2>2
  <1>11. toClient' = <<>>
    BY <1>2, <1>4, <1>10, ReadOnly
  <1>12. toServer' = <<>>
    BY <1>2, <1>4, <1>9, EmptyBefore
  <1>13. Idle'
    BY <1>1, <1>4, <1>9, <1>11, <1>12 DEF Idle, At
  <1> QED BY <1>4, <1>9, <1>13 DEF Stage

LEMMA ListingStage ==
    ASSUME IInv, Listing, Steady' PROVE Stage'
  <1>1. UNCHANGED <<serverSide, unsure>> /\ client = "listing" /\ client' = "prompt"
    BY DEF Listing, Steady
  <1>2. /\ Stage /\ UNCHANGED <<server, astray>> /\ toClient \in Seq(Token)
    BY <1>1, ClientWasSteady
  <1>3. toClient # <<>>
    BY DEF Listing
  <1>4. server = "ack" /\ toClient = Byte("listing") \o Byte("zero") /\ astray = {}
    BY <1>1, <1>2, <1>3, AtPrompt
  <1>5. PICK s : s = toClient
    OBVIOUS
  <1>6. s \in Seq(Token) /\ Len(s) = 2 /\ s[1] = [of |-> "listing", part |-> 1]
    <2>1. PICK T, a, b : T = Of({"listing", "zero"}) /\ a = Byte("listing") /\ b = Byte("zero")
      OBVIOUS
    <2>2. a \in Seq(T) /\ b \in Seq(T) /\ Len(a) = 1 /\ Len(b) = 1
      BY <2>1, BytesOf
    <2>3. /\ Len(a \o b) = Len(a) + Len(b)
          /\ \A i \in 1 .. Len(a) + Len(b) :
                (a \o b)[i] = IF i <= Len(a) THEN a[i] ELSE b[i - Len(a)]
      BY <2>2, ConcatProperties
    <2>4. Len(a \o b) = 2 /\ (a \o b)[1] = a[1]
      BY <2>2, <2>3
    <2>5. a[1] = [of |-> "listing", part |-> 1]
      BY <2>1 DEF Byte
    <2> QED BY <1>2, <1>4, <1>5, <2>1, <2>4, <2>5
  <1>7. toClient' = <<>>
    <2>1. Head(s).of = "listing"
      BY <1>6
    <2>2. toClient' = Rest(s, SubSeq(s, 1, 2))
      BY <1>1, <1>5, <2>1 DEF Listing, ClientReads, Steady
    <2>3. Len(SubSeq(s, 1, 2)) = 2
      BY <1>6
    <2>4. SubSeq(s, 3, 2) = <<>>
      BY <1>6
    <2> QED BY <1>6, <2>2, <2>3, <2>4 DEF Rest
  <1>8. Dirring'
    BY <1>1, <1>2, <1>4, <1>7 DEF Dirring
  <1> QED BY <1>2, <1>4, <1>8 DEF Stage

LEMMA ClientReadFailsStage ==
    ASSUME IInv, ClientReadFails, Steady' PROVE Stage'
  <1>1. UNCHANGED serverSide /\ "server" \in closed
    BY DEF ClientReadFails
  <1>2. server' = "closed"
    BY <1>1 DEF serverSide, IInv, Closers
  <1> QED BY <1>2 DEF Steady

LEMMA ConnectStage ==
    ASSUME Connect PROVE Stage'
  <1>1. Greeting' /\ astray' = {}
    BY DEF Connect, Greeting, At
  <1> QED BY <1>1 DEF Stage

LEMMA RequestStage ==
    ASSUME IInv, Get \/ GetAll \/ Dir, Steady' PROVE Stage'
  <1>1. PICK name \in Files \union Missing \union {"list", "all"}, there \in {"result", "counts", "listing"} :
          /\ Request(name, there)
          /\ \/ name \in Files \union Missing /\ there = "result"
             \/ name = "all" /\ there = "counts"
             \/ name = "list" /\ there = "listing"
    BY DEF Get, GetAll, Dir
  <1>2. /\ UNCHANGED <<toClient, serverSide, unsure>> /\ client = "prompt"
        /\ client' = there /\ toServer' = toServer \o Line(name)
    BY <1>1 DEF Request
  <1>3. Stage /\ UNCHANGED <<server, astray>> /\ astray = {}
    BY <1>2, ClientWasSteady, AtPrompt
  <1>4. CASE Idle
    <2>1. toServer' = Line(name)
      <3>1. toServer' = <<>> \o Line(name)
        BY <1>2, <1>4 DEF Idle, At
      <3>2. Line(name) \in Seq(Plain)
        BY Written
      <3> QED BY <3>1, <3>2, EmptyBefore
    <2>2. (Asking \/ Counting \/ Dirring)'
      BY <1>1, <1>2, <1>3, <1>4, <2>1 DEF Idle, Asking, Counting, Dirring, At
    <2> QED BY <1>3, <2>2 DEF Stage
  <1>5. CASE server = "ack" /\ toClient = <<>>
    <2>1. Dirring'
      BY <1>1, <1>2, <1>3, <1>5 DEF Dirring
    <2> QED BY <1>3, <2>1 DEF Stage
  <1> QED BY <1>2, <1>3, <1>4, <1>5, AtPrompt

LEMMA ReceiveStage ==
    ASSUME IInv, Receive, Steady' PROVE Stage'
  <1>1. /\ UNCHANGED <<toClient, serverSide>> /\ client \in {"receive", "again"}
        /\ (unsure => unsure')
    <2>1. "left" \notin astray'
      BY DEF Steady
    <2>2. UNCHANGED <<astray, unsure>>
      BY <2>1, Zenon DEF Receive
    <2> QED BY <2>2 DEF Receive, serverSide
  <1>2. Stage /\ UNCHANGED <<server, astray>> /\ toServer \in Seq(Token)
    BY <1>1, ClientWasSteady
  <1>3. PICK field \in {"request", "stop"} :
          toServer' = toServer \o Bytes(field) /\ client' \in Receiving
    BY <1>1 DEF Receive, Receiving, Steady
  <1>4. CASE astray # {}
    BY <1>2, <1>3, <1>4 DEF Stage
  <1>5. CASE astray = {}
    <2>1. PICK T, s, t : T = Of({"port", "request", "stop"}) /\ s = toServer /\ t = Bytes(field)
      OBVIOUS
    <2>2. s \in Seq(T) /\ t \in Seq(T) /\ Len(t) = 2
      BY <1>1, <1>2, <1>5, <2>1, AtGet, BytesOf
    <2>3. s \o t \in Seq(T) /\ Len(s \o t) = Len(s) + Len(t)
      BY <2>2, Joined
    <2>4. Len(s) >= 2 => Len(s \o t) >= 2 /\ SubSeq(s \o t, 1, 2) = SubSeq(s, 1, 2)
      <3>1. PICK u : u = s \o t
        OBVIOUS
      <3>2. /\ u \in Seq(T) /\ Len(u) = Len(s) + 2 /\ Len(s) \in Nat
            /\ \A i \in 1 .. Len(s) + Len(t) : u[i] = IF i <= Len(s) THEN s[i] ELSE t[i - Len(s)]
        BY <2>2, <2>3, <3>1, ConcatProperties
      <3>3. ASSUME Len(s) >= 2
            PROVE  Len(u) >= 2 /\ u[1] = s[1] /\ u[2] = s[2]
        BY <2>2, <3>2, <3>3
      <3>4. \A x, y \in Seq(T) : Len(x) >= 2 /\ Len(y) >= 2 /\ x[1] = y[1] /\ x[2] = y[2]
                => SubSeq(x, 1, 2) = SubSeq(y, 1, 2)
        OBVIOUS
      <3> QED BY <2>2, <3>1, <3>2, <3>3, <3>4
    <2>5. /\ toServer' \in Seq(Of({"port", "request", "stop"}))
          /\ Len(toServer) >= 2 /\ SubSeq(toServer, 1, 2) = Bytes("port")
                => Len(toServer') >= 2 /\ SubSeq(toServer', 1, 2) = Bytes("port")
      BY <1>3, <2>1, <2>3, <2>4
    <2>6. UNCHANGED <<misread, port>>
      BY <1>1 DEF serverSide
    <2>7. Agreed'
      BY <1>1, <1>2, <1>3, <1>5, <2>5, <2>6, AtGet DEF Agreed, Receiving
    <2> QED BY <1>3, <2>7 DEF Stage
  <1> QED BY <1>4, <1>5

LEMMA StartOverStage ==
    ASSUME IInv, StartOver, Steady' PROVE Stage'
  <1>1. /\ UNCHANGED <<toServer, toClient, serverSide, unsure>>
        /\ client = "flushing" /\ client' = "again"
    BY DEF StartOver
  <1>2. Stage /\ UNCHANGED <<server, astray, misread, port>>
    BY <1>1, ClientWasSteady DEF serverSide
  <1>3. CASE astray # {}
    BY <1>1, <1>2, <1>3 DEF Stage, Receiving
  <1>4. CASE astray = {}
    <2>1. Agreed
      BY <1>1, <1>2, <1>4 DEF Stage, Greeting, Idle, Asking, Dirring, Counting, At
    <2>2. Agreed'
      BY <1>1, <1>2, <2>1 DEF Agreed, At, Receiving
    <2> QED BY <1>1, <2>2 DEF Stage, Receiving
  <1> QED BY <1>3, <1>4

LEMMA ClientStage ==
    ASSUME IInv, Steady',
           \/ ClientAnswers \/ Connect \/ Get \/ GetAll \/ Dir
           \/ Receive \/ StartOver \/ Crash \/ Close
    PROVE  Stage'
  <1>1. CASE Authenticating
    BY <1>1, RevisionStage, ChallengeStage, StatusStage DEF Authenticating
  <1>2. CASE ClientAnswers /\ ~Authenticating
    BY <1>2, FileResultStage, FileReplyStage, TakeCountsStage, NoFilesStage, ListingStage,
       ClientReadFailsStage DEF ClientAnswers
  <1>3. CASE Connect
    BY <1>3, ConnectStage
  <1>4. CASE Get \/ GetAll \/ Dir
    BY <1>4, RequestStage
  <1>5. CASE Receive
    BY <1>5, ReceiveStage
  <1>6. CASE Crash \/ Close
    BY <1>6 DEF Crash, Close, GoesOffline, Steady
  <1>7. CASE StartOver
    BY <1>7, StartOverStage
  <1> QED BY <1>1, <1>2, <1>3, <1>4, <1>5, <1>6, <1>7
-----------------------------------------------------------------------------
(* Who has closed has ended.                                               *)
LEMMA ClosersKept == IInv /\ [Next]_vars => Closers'
  <1> SUFFICES ASSUME IInv, [Next]_vars PROVE Closers'
    OBVIOUS
  <1>1. /\ "server" \in closed => server = "closed"
        /\ "client" \in closed => client = "offline"
    BY DEF IInv, Closers
  <1>2. CASE Server
    <2>1. UNCHANGED client /\ server # "closed"
      BY <1>2 DEF Server, Negotiate, Authenticate, OpenTransfer, ListAcknowledged,
         AnswerToCounts, AnswerToNames, FirstName, ReadParameter, OpenPort, Transfer,
         ServerReadFails, clientSide
    <2>2. UNCHANGED closed \/ HandlerEnds
      BY <1>2 DEF Server, Negotiate, Authenticate, OpenTransfer, ListAcknowledged,
         AnswerToCounts, AnswerToNames, FirstName, ReadParameter, OpenPort, Transfer,
         ServerReadFails
    <2> QED BY <1>1, <2>1, <2>2 DEF HandlerEnds, Closers
  <1>3. CASE Connect
    BY <1>3 DEF Connect, Closers
  <1>4. CASE ClientAnswers \/ Get \/ GetAll \/ Dir \/ Receive \/ StartOver \/ Crash \/ Close
    <2>1. UNCHANGED server /\ client # "offline"
      BY <1>4 DEF ClientAnswers, Authenticating, Handshake, FileResult, FileReply, TakeCounts,
         NoFiles, Listing, ClientReadFails, Get, GetAll, Dir, Request, Receive, StartOver, Crash,
         Close,
         serverSide
    <2>2. UNCHANGED closed \/ GoesOffline
      BY <1>4 DEF ClientAnswers, Authenticating, Handshake, FileResult, FileReply, TakeCounts,
         NoFiles, Listing, ClientReadFails, Get, GetAll, Dir, Request, Receive, StartOver, Crash,
         Close
    <2> QED BY <1>1, <2>1, <2>2 DEF GoesOffline, Closers
  <1>5. CASE UNCHANGED vars
    BY <1>1, <1>5 DEF vars, Closers
  <1> QED BY <1>2, <1>3, <1>4, <1>5 DEF Next

LEMMA InitIInv == Init => IInv
  BY InitSInv DEF IInv, Init, Closers, Steady

LEMMA StepIInv == IInv /\ [Next]_vars => IInv'
  <1> SUFFICES ASSUME IInv, [Next]_vars PROVE IInv'
    OBVIOUS
  <1>1. SInv' /\ Closers'
    BY StepSInv, ClosersKept DEF IInv
  <1>2. ASSUME Steady' PROVE Stage'
    <2>1. CASE Server
      BY <1>2, <2>1, ServerStage
    <2>2. CASE ClientAnswers \/ Connect \/ Get \/ GetAll \/ Dir \/ Receive \/ StartOver \/ Crash \/ Close
      BY <1>2, <2>2, ClientStage
    <2>3. CASE UNCHANGED vars
      <3>1. Steady /\ Stage
        BY <1>2, <2>3 DEF IInv, Steady, vars
      <3> QED BY <2>3, <3>1 DEF vars, Stage, Greeting, Idle, Asking, Dirring, Counting, At,
                               Agreed, ParametersFrom, Proof, Receiving
    <2> QED BY <2>1, <2>2, <2>3 DEF Next
  <1> QED BY <1>1, <1>2 DEF IInv

LEMMA InStep == Spec => []IInv
  BY InitIInv, StepIInv, PTL DEF Spec

(* Whenever the client waits for the result of a get, on a connection on   *)
(* which no list was acknowledged, no command given up and no receive loop *)
(* left, the server is about to read the name, has read it, or still has   *)
(* an acknowledgement before it (protocol.go:188-189 of the client): the   *)
(* gets after refusals and get *, up to the first transfer.                *)
THEOREM NameAwaited == Spec => []ServerAwaitsName
  <1>1. IInv => ServerAwaitsName
    BY DEF IInv, Steady, Stage, Greeting, Idle, Asking, Dirring, Counting, At, Receiving,
           ServerAwaitsName
  <1> QED BY <1>1, InStep, PTL

(* The server runs a transfer, as long as the client is in its receive     *)
(* loop, with the parameters and the port the client has sent, unless TCP  *)
(* has cut a field, a command was given up or an earlier loop left         *)
(* (ReadParameter, OpenPort; protocol.go:254-259 of the server).           *)
THEOREM TransfersAgree == Spec => []TransferAsAgreed
  <1>1. IInv => TransferAsAgreed
    BY DEF IInv, Steady, Stage, Greeting, Idle, Asking, Dirring, Counting, At, Agreed,
           TransferAsAgreed, Receiving
  <1> QED BY <1>1, InStep, PTL
=============================================================================

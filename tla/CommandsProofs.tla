--------------------------- MODULE CommandsProofs ---------------------------
(***************************************************************************)
(* Proofs about Commands, for any clients, words, parameters and numbers   *)
(* of commands and connections: handlers work with the parameters of their *)
(* own sessions, every open connection is accounted for, and who waits for *)
(* blocks of a handler that has ended asked for a rate of zero.            *)
(*                                                                         *)
(* A step of one client, or of the handler of one of its connections,      *)
(* leaves what belongs to another client as it is (Framed); so each step   *)
(* needs a proof for one client only.                                      *)
(***************************************************************************)
EXTENDS Commands, TLAPS

LEMMA Remainder == ASSUME NEW a \in Int PROVE a % UINT \in Value
  BY CommandsAssumption, Z3 DEF Value

LEMMA ElementReplaced ==
    ASSUME NEW S, NEW s \in Seq(S), NEW c, NEW e \in S
    PROVE  /\ [s EXCEPT ![c] = e] \in Seq(S) /\ Len([s EXCEPT ![c] = e]) = Len(s)
           /\ \A d \in 1 .. Len(s) : d # c => [s EXCEPT ![c] = e][d] = s[d]
           /\ c \in 1 .. Len(s) => [s EXCEPT ![c] = e][c] = e
  <1> DEFINE t == [s EXCEPT ![c] = e]
  <1>1. DOMAIN t = 1 .. Len(s) /\ \A d \in 1 .. Len(s) : t[d] = IF d = c THEN e ELSE s[d]
    OBVIOUS
  <1>2. Len(s) \in Nat /\ \A d \in 1 .. Len(s) : t[d] \in S
    OBVIOUS
  <1>3. t \in [1 .. Len(s) -> S]
    <2>1. t = [d \in 1 .. Len(s) |-> IF d = c THEN e ELSE s[d]]
      <3>1. DOMAIN s = 1 .. Len(s)
        OBVIOUS
      <3> QED BY <3>1
    <2>2. \A d \in 1 .. Len(s) : s[d] \in S
      OBVIOUS
    <2> QED BY <2>1, <2>2
  <1> HIDE DEF t
  <1>4. t \in Seq(S) /\ Len(t) = Len(s)
    BY <1>1, <1>2, <1>3
  <1> QED BY <1>1, <1>4 DEF t

LEMMA Appended ==
    ASSUME NEW S, NEW s \in Seq(S), NEW e \in S
    PROVE  /\ Append(s, e) \in Seq(S) /\ Len(Append(s, e)) = Len(s) + 1
           /\ \A d \in 1 .. Len(s) : Append(s, e)[d] = s[d]
           /\ Append(s, e)[Len(s) + 1] = e
  OBVIOUS
-----------------------------------------------------------------------------
(* What belongs to a client.                                               *)

(* A session's connection is open and the client's own, and so is the one  *)
(* being made, which is another.                                           *)
Linked(k) ==
    /\ session[k].conn > 0 => session[k].conn \in open /\ by[session[k].conn] = k
    /\ status[k] \in {"requested", "receiving"} => session[k].conn > 0
    /\ status[k] = "connecting" =>
          /\ dialled[k].conn \in open /\ by[dialled[k].conn] = k
          /\ dialled[k].conn # session[k].conn

(* No open connection is lost track of.                                    *)
Accounted(k) ==
    \A c \in open : by[c] = k =>
        \/ c = session[k].conn \/ c \in left
        \/ status[k] = "connecting" /\ c = dialled[k].conn

(* A handler that has replied has taken over the parameters, and has ended *)
(* only for a rate of zero; so it is while the client receives.            *)
AsAsked(k) ==
    LET conn  == session[k].conn
        param == session[k].param
        replies == status[k] = "requested" /\ replied[conn]
    IN  status[k] = "receiving" \/ replies =>
           /\ served[conn] = Sent(param)
           /\ handler[conn] = "closed" => param.targetRate = 0
           /\ status[k] = "requested" => handler[conn] \in {"port", "closed"}

Kept(k) == Linked(k) /\ Accounted(k) /\ AsAsked(k)
CInv == TypeOK /\ \A k \in Clients : Kept(k)

(* What a step of others leaves alone.                                     *)
Framed(j) ==
    /\ session'[j] = session[j] /\ status'[j] = status[j] /\ dialled'[j] = dialled[j]
    /\ \A c \in Connections : by[c] = j =>
          /\ by'[c] = j
          /\ handler'[c] = handler[c] /\ served'[c] = served[c] /\ replied'[c] = replied[c]
          /\ c \in open <=> c \in open'
          /\ c \in left => c \in left'
    /\ \A c \in open' : by'[c] = j => c \in Connections /\ by[c] = j

LEMMA FramedKept ==
    ASSUME TypeOK, NEW j \in Clients, Kept(j), Framed(j)
    PROVE  Kept(j)'
  <1> DEFINE conn == session[j].conn
  <1>1. open \subseteq Connections
    BY DEF TypeOK
  <1>2. Linked(j)'
    BY <1>1 DEF Kept, Linked, Framed
  <1>3. Accounted(j)'
    BY <1>1 DEF Kept, Accounted, Framed
  <1>4. AsAsked(j)'
    <2>1. CASE status[j] \in {"requested", "receiving"}
      <3>1. conn \in open /\ by[conn] = j /\ conn \in Connections
        BY <1>1, <2>1 DEF Kept, Linked
      <3> QED BY <3>1 DEF Kept, AsAsked, Framed
    <2>2. CASE status[j] \notin {"requested", "receiving"}
      BY <2>2 DEF AsAsked, Framed
    <2> QED BY <2>1, <2>2
  <1> QED BY <1>2, <1>3, <1>4 DEF Kept

LEMMA ByOneClient ==
    ASSUME CInv, NEW k \in Clients, TypeOK', Kept(k)',
           \A j \in Clients \ {k} : Framed(j)
    PROVE  CInv'
  <1>1. ASSUME NEW j \in Clients \ {k} PROVE Kept(j)'
    BY FramedKept DEF CInv
  <1> QED BY <1>1 DEF CInv
-----------------------------------------------------------------------------
(* Types.                                                                  *)

LEMMA DefaultsTyped ==
    /\ NewParameter \in Parameters
    /\ Sent(NewParameter) \in [targetRate : Value, blockSize : Value]
    /\ NoDial \in Sessions
  <1>1. 1 \in Value
    BY CommandsAssumption DEF Value
  <1>2. NewParameter \in Parameters
    BY <1>1 DEF NewParameter, Parameters
  <1> QED BY <1>1, <1>2 DEF NewParameter, Sent, NoDial, Sessions

LEMMA InitCInv == Init => CInv
  <1> SUFFICES ASSUME Init PROVE CInv
    OBVIOUS
  <1>1. MaxSets \in Nat
    BY CommandsAssumption
  <1>2. by = <<>> /\ Connections = {}
    BY DEF Init, Connections
  <1>3. TypeOK
    BY <1>1, <1>2, DefaultsTyped DEF Init, TypeOK, States
  <1>4. ASSUME NEW k \in Clients PROVE Kept(k)
    BY DEF Init, Kept, Linked, Accounted, AsAsked, NoDial, None
  <1> QED BY <1>3, <1>4 DEF CInv

LEMMA ConnTyped ==
    ASSUME TypeOK, NEW k \in Clients
    PROVE  /\ Len(by) \in Nat /\ Connections = 1 .. Len(by)
           /\ session[k] \in Sessions /\ dialled[k] \in Sessions
           /\ session[k].conn \in Int /\ session[k].param \in Parameters
           /\ session[k].conn > 0 <=> session[k].conn \in Connections
  <1>1. Len(by) \in Nat /\ Connections = 1 .. Len(by)
    BY DEF TypeOK, Connections
  <1>2. session[k] \in Sessions /\ dialled[k] \in Sessions
    BY DEF TypeOK
  <1> QED BY <1>1, <1>2 DEF Sessions, None, Nil

LEMMA RateTyped ==
    /\ \A word \in RateWords : Rate(word) \in Value
    /\ \A word \in SizeWords : Number(word) \in Value
    /\ \A mbps \in Achieved : Adjusted(mbps) \in Value
  <1>1. 0 \in Value /\ UINT - 1 \in Value
    BY CommandsAssumption DEF Value
  <1>2. ASSUME NEW word \in RateWords PROVE Rate(word) \in Value
    <2>1. word.number \in Nat /\ word.unit \in Nat
      BY CommandsAssumption
    <2>2. word.number % UINT \in Nat
      <3>1. word.number % UINT \in Value
        BY <2>1, Remainder
      <3> QED BY <3>1, CommandsAssumption DEF Value
    <2>3. word.unit * (word.number % UINT) \in Int
      BY <2>1, <2>2, SMT
    <2>4. (word.unit * (word.number % UINT)) % UINT \in Value
      BY <2>3, Remainder
    <2> QED BY <1>1, <2>4 DEF Rate
  <1>3. ASSUME NEW word \in SizeWords PROVE Number(word) \in Value
    BY <1>1, CommandsAssumption DEF Number, Value
  <1>4. ASSUME NEW mbps \in Achieved PROVE Adjusted(mbps) \in Value
    <2>1. ADJUST * mbps \in Int
      BY CommandsAssumption, SMT
    <2> QED BY <2>1, Remainder DEF Adjusted
  <1> QED BY <1>2, <1>3, <1>4
-----------------------------------------------------------------------------
(* The steps of a client.                                                  *)

(* set assigns one field of the client's parameters a value of its kind.   *)
LEMMA SetToKeeps ==
    ASSUME CInv, NEW k \in Clients, NEW field, NEW value, SetTo(k, field, value),
           \A p \in Parameters : [p EXCEPT ![field] = value] \in Parameters
    PROVE  CInv'
  <1>1. parameter' \in [Clients -> Parameters]
    <2>1. parameter \in [Clients -> Parameters]
      BY DEF CInv, TypeOK
    <2>2. [parameter[k] EXCEPT ![field] = value] \in Parameters
      BY <2>1
    <2>3. parameter' = [parameter EXCEPT ![k] = [parameter[k] EXCEPT ![field] = value]]
      BY <2>1 DEF SetTo
    <2> QED BY <2>1, <2>2, <2>3
  <1>2. sets' \in 0 .. MaxSets
    BY CommandsAssumption DEF SetTo, CInv, TypeOK
  <1>3. UNCHANGED <<secret, session, status, dialled, open, left, handler, served, replied, by>>
    BY DEF SetTo, serverVars
  <1>4. TypeOK'
    BY <1>1, <1>2, <1>3 DEF CInv, TypeOK, Connections, Sessions
  <1>5. ASSUME NEW j \in Clients PROVE Framed(j)
    BY <1>3 DEF Framed, CInv, TypeOK, Connections
  <1> QED BY <1>4, <1>5, FramedKept DEF CInv

LEMMA SetKeeps == ASSUME CInv, NEW k \in Clients, CommandSet(k) PROVE CInv'
  <1>1. ASSUME NEW word \in RateWords, SetTo(k, "targetRate", Rate(word)) PROVE CInv'
    <2>1. Rate(word) \in Value
      BY RateTyped
    <2>2. \A p \in Parameters : [p EXCEPT !["targetRate"] = Rate(word)] \in Parameters
      BY <2>1 DEF Parameters
    <2> QED BY <1>1, <2>2, SetToKeeps
  <1>2. ASSUME NEW word \in SizeWords, SetTo(k, "blockSize", Number(word)) PROVE CInv'
    <2>1. Number(word) \in Value
      BY RateTyped
    <2>2. \A p \in Parameters : [p EXCEPT !["blockSize"] = Number(word)] \in Parameters
      BY <2>1 DEF Parameters
    <2> QED BY <1>2, <2>2, SetToKeeps
  <1>3. ASSUME SetTo(k, "rateAdjust", TRUE) PROVE CInv'
    <2>1. \A p \in Parameters : [p EXCEPT !["rateAdjust"] = TRUE] \in Parameters
      BY DEF Parameters
    <2> QED BY <1>3, <2>1, SetToKeeps
  <1>4. ASSUME NEW phrase \in Phrases, SetTo(k, "passphrase", Lowered[phrase]) PROVE CInv'
    <2>1. \A p \in Parameters : [p EXCEPT !["passphrase"] = Lowered[phrase]] \in Parameters
      BY DEF Parameters
    <2> QED BY <1>4, <2>1, SetToKeeps
  <1> QED BY <1>1, <1>2, <1>3, <1>4 DEF CommandSet

LEMMA ConnectKeeps == ASSUME CInv, NEW k \in Clients, CommandConnect(k) PROVE CInv'
  <1> DEFINE n == Len(by) + 1
  <1>1. /\ status[k] = "prompt" /\ status' = [status EXCEPT ![k] = "connecting"]
        /\ dialled' = [dialled EXCEPT ![k] = [conn |-> n, param |-> parameter[k]]]
        /\ open' = open \union {n} /\ by' = Append(by, k)
        /\ handler' = Append(handler, "queued")
        /\ served' = Append(served, Sent(NewParameter)) /\ replied' = Append(replied, FALSE)
        /\ UNCHANGED <<secret, parameter, session, sets, left>>
    BY DEF CommandConnect
  <1>2. TypeOK
    BY DEF CInv
  <1>3. /\ Len(by) \in Nat /\ Connections = 1 .. Len(by) /\ Connections' = 1 .. n
        /\ by' \in Seq(Clients) /\ Len(by') = n
        /\ by'[n] = k /\ \A c \in Connections : by'[c] = by[c]
    <2>1. by \in Seq(Clients)
      BY <1>2 DEF TypeOK
    <2> QED BY <1>1, <2>1, Appended DEF Connections
  <1>4. /\ handler' \in Seq(States) /\ Len(handler') = n
        /\ \A c \in Connections : handler'[c] = handler[c]
    BY <1>1, <1>2, <1>3, Appended DEF TypeOK, States
  <1>5. /\ served' \in Seq([targetRate : Value, blockSize : Value]) /\ Len(served') = n
        /\ \A c \in Connections : served'[c] = served[c]
    BY <1>1, <1>2, <1>3, Appended, DefaultsTyped DEF TypeOK
  <1>6. /\ replied' \in Seq(BOOLEAN) /\ Len(replied') = n
        /\ \A c \in Connections : replied'[c] = replied[c]
    <2> DEFINE no == FALSE
               S  == BOOLEAN
    <2>1. replied \in Seq(S) /\ Len(replied) = Len(by) /\ no \in S
      BY <1>2 DEF TypeOK
    <2>2. replied' = Append(replied, no)
      BY <1>1
    <2> HIDE DEF no, S
    <2>3. /\ replied' \in Seq(S) /\ Len(replied') = Len(replied) + 1
          /\ \A d \in 1 .. Len(replied) : replied'[d] = replied[d]
      BY <2>1, <2>2, Appended
    <2> QED BY <1>3, <2>1, <2>3 DEF S
  <1>7. TypeOK'
    <2>1. Connections \subseteq Connections' /\ n \in Connections'
      BY <1>3
    <2>2. session' \in [Clients -> Sessions'] /\ Sessions \subseteq Sessions'
      BY <1>1, <1>2, <2>1 DEF TypeOK, Sessions
    <2>3. [conn |-> n, param |-> parameter[k]] \in Sessions'
      BY <1>2, <2>1 DEF TypeOK, Sessions
    <2>4. dialled' \in [Clients -> Sessions']
      BY <1>1, <1>2, <2>2, <2>3 DEF TypeOK
    <2>5. status' \in [Clients -> {"prompt", "connecting", "requested", "receiving", "ended"}]
      BY <1>1, <1>2 DEF TypeOK
    <2>6. open' \subseteq Connections' /\ left' \subseteq Connections'
      BY <1>1, <1>2, <2>1 DEF TypeOK
    <2> QED BY <1>1, <1>2, <1>3, <1>4, <1>5, <1>6, <2>2, <2>4, <2>5, <2>6 DEF TypeOK
  <1>8. Kept(k)'
    <2>1. Kept(k) /\ open \subseteq Connections
      BY <1>2 DEF CInv, TypeOK
    <2>2. /\ session[k].conn > 0 <=> session[k].conn \in Connections
          /\ session[k].conn # n
      BY <1>2, <1>3, ConnTyped
    <2>3. status'[k] = "connecting" /\ dialled'[k].conn = n
      BY <1>1, <1>2 DEF TypeOK
    <2>4. Linked(k)'
      BY <1>1, <1>3, <2>1, <2>2, <2>3 DEF Kept, Linked
    <2>5. Accounted(k)'
      BY <1>1, <1>3, <2>1, <2>3 DEF Kept, Accounted
    <2>6. AsAsked(k)'
      BY <2>3 DEF AsAsked
    <2> QED BY <2>4, <2>5, <2>6 DEF Kept
  <1>9. ASSUME NEW j \in Clients \ {k} PROVE Framed(j)
    <2>1. session'[j] = session[j] /\ status'[j] = status[j] /\ dialled'[j] = dialled[j]
      BY <1>1, <1>2, <1>9 DEF TypeOK
    <2>2. n \notin Connections /\ open \subseteq Connections
      BY <1>2, <1>3 DEF TypeOK
    <2>3. ASSUME NEW c \in open', by'[c] = j PROVE c \in Connections /\ by[c] = j
      BY <1>1, <1>3, <1>9, <2>2, <2>3
    <2> QED BY <1>1, <1>3, <1>4, <1>5, <1>6, <2>1, <2>2, <2>3 DEF Framed
  <1> QED BY <1>7, <1>8, <1>9, ByOneClient

LEMMA EndsKeeps ==
    ASSUME CInv, NEW k \in Clients, Ends(k), UNCHANGED serverVars
    PROVE  CInv'
  <1>1. /\ status' = [status EXCEPT ![k] = "ended"] /\ open' = {c \in open : by[c] # k}
        /\ parameter' = [parameter EXCEPT ![k] = NewParameter]
        /\ session' = [session EXCEPT ![k] = NoDial]
        /\ dialled' = [dialled EXCEPT ![k] = NoDial]
        /\ UNCHANGED <<secret, sets, left, by, handler, served, replied>>
    BY DEF Ends, serverVars
  <1>2. TypeOK
    BY DEF CInv
  <1>3. TypeOK'
    BY <1>1, <1>2, DefaultsTyped DEF TypeOK, Connections, Sessions
  <1>4. Kept(k)'
    <2>1. status'[k] = "ended" /\ session'[k].conn = 0
      BY <1>1, <1>2 DEF TypeOK, NoDial, None
    <2> QED BY <1>1, <2>1 DEF Kept, Linked, Accounted, AsAsked
  <1>5. ASSUME NEW j \in Clients \ {k} PROVE Framed(j)
    BY <1>1, <1>2, <1>5 DEF Framed, TypeOK
  <1> QED BY <1>3, <1>4, <1>5, ByOneClient

LEMMA AuthenticatedKeeps ==
    ASSUME CInv, NEW k \in Clients, Authenticated(k)
    PROVE  CInv'
  <1> DEFINE conn == dialled[k].conn
             own  == session[k].conn
  <1>1. /\ status[k] = "connecting" /\ status' = [status EXCEPT ![k] = "prompt"]
        /\ dialled' = [dialled EXCEPT ![k] = NoDial]
        /\ UNCHANGED <<secret, parameter, sets, by, handler, served, replied>>
        /\ \/ /\ session' = [session EXCEPT ![k] = dialled[k]]
              /\ left' = left \union ({own} \intersect open)
              /\ UNCHANGED open
           \/ open' = open \ {conn} /\ UNCHANGED <<session, left>>
    BY DEF Authenticated, HangUpFailed, HangUp, serverVars
  <1>2. TypeOK /\ Kept(k)
    BY DEF CInv
  <1>3. open \subseteq Connections /\ conn \in open /\ by[conn] = k /\ conn # own
    BY <1>1, <1>2 DEF TypeOK, Kept, Linked
  <1>4. TypeOK'
    BY <1>1, <1>2, DefaultsTyped DEF TypeOK, Connections, Sessions
  <1>5. status'[k] = "prompt"
    BY <1>1, <1>2 DEF TypeOK
  <1>6. Kept(k)'
    <2>1. CASE session' = [session EXCEPT ![k] = dialled[k]] /\ UNCHANGED open
                 /\ left' = left \union ({own} \intersect open)
      <3>1. session'[k].conn = conn
        BY <1>2, <2>1 DEF TypeOK
      <3> QED BY <1>1, <1>2, <1>3, <1>5, <2>1, <3>1 DEF Kept, Linked, Accounted, AsAsked
    <2>2. CASE open' = open \ {conn} /\ UNCHANGED <<session, left>>
      BY <1>1, <1>2, <1>3, <1>5, <2>2 DEF Kept, Linked, Accounted, AsAsked
    <2> QED BY <1>1, <2>1, <2>2
  <1>7. ASSUME NEW j \in Clients \ {k} PROVE Framed(j)
    <2>1. session'[j] = session[j] /\ status'[j] = status[j] /\ dialled'[j] = dialled[j]
      BY <1>1, <1>2, <1>7 DEF TypeOK
    <2>2. open' \subseteq open /\ \A c \in open : by[c] = j => c \in open'
      BY <1>1, <1>3, <1>7
    <2> QED BY <1>1, <1>3, <2>1, <2>2 DEF Framed
  <1> QED BY <1>4, <1>6, <1>7, ByOneClient

LEMMA CloseKeeps == ASSUME CInv, NEW k \in Clients, CommandClose(k) PROVE CInv'
  <1>1. CASE Ends(k)
    BY <1>1, EndsKeeps DEF CommandClose
  <1>2. CASE /\ open' = open \ {session[k].conn}
             /\ session' = [session EXCEPT ![k].conn = Nil]
             /\ UNCHANGED <<secret, parameter, status, dialled, sets, left, by>>
    <2>1. TypeOK /\ Kept(k) /\ session[k] \in Sessions
      BY ConnTyped DEF CInv
    <2>2. UNCHANGED <<handler, served, replied>> /\ status[k] = "prompt"
      BY DEF CommandClose, serverVars
    <2>3. /\ session' \in [Clients -> Sessions] /\ session'[k].conn = -1
          /\ \A j \in Clients \ {k} : session'[j] = session[j]
      BY <1>2, <2>1 DEF TypeOK, Sessions, Nil
    <2>4. TypeOK'
      BY <1>2, <2>1, <2>2, <2>3 DEF TypeOK, Connections, Sessions
    <2>5. Kept(k)'
      BY <1>2, <2>1, <2>2, <2>3 DEF Kept, Linked, Accounted, AsAsked
    <2>6. ASSUME NEW j \in Clients \ {k} PROVE Framed(j)
      <3>1. session[k].conn \in open => by[session[k].conn] = k
        BY <2>1, ConnTyped DEF Kept, Linked, TypeOK
      <3> QED BY <1>2, <2>1, <2>2, <2>3, <2>6, <3>1 DEF Framed, TypeOK
    <2> QED BY <2>4, <2>5, <2>6, ByOneClient
  <1> QED BY <1>1, <1>2 DEF CommandClose, HangUp

(* One handler goes on.                                                    *)
LEMMA HandlerMoves ==
    ASSUME TypeOK, NEW c \in Connections, NEW there \in States, UNCHANGED by,
           handler' = [handler EXCEPT ![c] = there]
    PROVE  /\ handler' \in Seq(States) /\ Len(handler') = Len(by')
           /\ handler'[c] = there
           /\ \A d \in Connections : d # c => handler'[d] = handler[d]
  BY ElementReplaced DEF TypeOK, Connections

LEMMA GetKeeps == ASSUME CInv, NEW k \in Clients, CommandGet(k) PROVE CInv'
  <1> DEFINE conn == session[k].conn
  <1>1. /\ status[k] = "prompt" /\ status' = [status EXCEPT ![k] = "requested"]
        /\ conn \in open /\ replied' = [replied EXCEPT ![conn] = FALSE]
        /\ UNCHANGED <<secret, parameter, session, dialled, open, sets, left, by,
                       handler, served>>
    BY DEF CommandGet, Become
  <1>2. TypeOK /\ Kept(k) /\ conn \in Connections
    BY <1>1 DEF CInv, TypeOK
  <1>3. /\ replied' \in Seq(BOOLEAN) /\ Len(replied') = Len(by) /\ replied'[conn] = FALSE
        /\ \A d \in Connections : d # conn => replied'[d] = replied[d]
    <2> DEFINE no == FALSE
               S  == BOOLEAN
    <2>1. replied \in Seq(S) /\ Len(replied) = Len(by) /\ no \in S
      BY <1>2 DEF TypeOK
    <2>2. replied' = [replied EXCEPT ![conn] = no]
      BY <1>1
    <2> HIDE DEF no, S
    <2>3. /\ replied' \in Seq(S) /\ Len(replied') = Len(by) /\ replied'[conn] = no
          /\ \A d \in Connections : d # conn => replied'[d] = replied[d]
      BY <1>2, <2>1, <2>2, ElementReplaced DEF Connections
    <2> QED BY <2>3 DEF S, no
  <1>4. TypeOK'
    BY <1>1, <1>2, <1>3 DEF TypeOK, Connections, Sessions
  <1>5. Kept(k)'
    <2>1. status'[k] = "requested" /\ session'[k] = session[k]
      BY <1>1, <1>2 DEF TypeOK
    <2>2. conn > 0
      BY <1>2, ConnTyped
    <2> QED BY <1>1, <1>2, <1>3, <2>1, <2>2 DEF Kept, Linked, Accounted, AsAsked
  <1>6. ASSUME NEW j \in Clients \ {k} PROVE Framed(j)
    <2>1. status'[j] = status[j]
      BY <1>1, <1>2, <1>6 DEF TypeOK
    <2>2. by[conn] = k
      BY <1>2, ConnTyped DEF Kept, Linked
    <2>3. open' \subseteq Connections
      BY <1>1, <1>2 DEF TypeOK
    <2> QED BY <1>1, <1>3, <1>6, <2>1, <2>2, <2>3 DEF Framed
  <1> QED BY <1>4, <1>5, <1>6, ByOneClient

(* What the client of a get leaves alone when it goes on with a new status *)
(* and its handler in a new place.                                         *)
LEMMA GetFramed ==
    ASSUME CInv, NEW k \in Clients, NEW to, NEW there \in States,
           status[k] \in {"requested", "receiving"},
           status' = [status EXCEPT ![k] = to],
           UNCHANGED <<secret, parameter, dialled, open, sets, left, by, served, replied>>,
           handler' = [handler EXCEPT ![session[k].conn] = there],
           \A j \in Clients \ {k} : session'[j] = session[j]
    PROVE  /\ session[k].conn \in Connections /\ handler'[session[k].conn] = there
           /\ handler' \in Seq(States) /\ Len(handler') = Len(by')
           /\ \A j \in Clients \ {k} : Framed(j)
  <1>1. TypeOK /\ Kept(k)
    BY DEF CInv
  <1>2. /\ session[k].conn \in Connections /\ by[session[k].conn] = k
        /\ open \subseteq Connections
    BY <1>1 DEF Kept, Linked, TypeOK
  <1>3. /\ handler' \in Seq(States) /\ Len(handler') = Len(by')
        /\ handler'[session[k].conn] = there
        /\ \A d \in Connections : d # session[k].conn => handler'[d] = handler[d]
    BY <1>1, <1>2, HandlerMoves
  <1>4. ASSUME NEW j \in Clients \ {k} PROVE Framed(j)
    <2>1. status'[j] = status[j]
      BY <1>1, <1>4 DEF TypeOK
    <2> QED BY <1>2, <1>3, <1>4, <2>1 DEF Framed
  <1> QED BY <1>2, <1>3, <1>4

LEMMA OpenTransferKeeps ==
    ASSUME CInv, NEW k \in Clients, OpenTransfer(k)
    PROVE  CInv'
  <1> DEFINE conn == session[k].conn
  <1>1. TypeOK /\ Kept(k) /\ status[k] = "requested" /\ conn \in Connections
    BY DEF CInv, OpenTransfer, Kept, Linked, TypeOK
  <1>2. UNCHANGED <<secret, parameter, session, dialled, open, sets, left, by, served, replied>>
    BY DEF OpenTransfer, Become
  <1>3. handler \in Seq(States) /\ handler[conn] \in States /\ Len(handler) = Len(by)
    BY <1>1 DEF TypeOK, Connections
  <1>4. CASE /\ replied[conn] /\ status' = [status EXCEPT ![k] = "receiving"]
             /\ UNCHANGED handler
    <2>1. handler' = [handler EXCEPT ![conn] = handler[conn]]
      BY <1>3, <1>4
    <2>2. \A j \in Clients \ {k} : Framed(j)
      BY <1>1, <1>2, <1>3, <1>4, <2>1, GetFramed
    <2>3. TypeOK' /\ status'[k] = "receiving"
      BY <1>1, <1>2, <1>4 DEF TypeOK, Connections, Sessions
    <2>4. Kept(k)'
      BY <1>1, <1>2, <1>4, <2>3 DEF Kept, Linked, Accounted, AsAsked
    <2> QED BY <2>2, <2>3, <2>4, ByOneClient
  <1>5. ASSUME status' = [status EXCEPT ![k] = "prompt"], NEW there \in States,
               handler' = [handler EXCEPT ![conn] = there]
        PROVE  CInv'
    <2>1. /\ handler' \in Seq(States) /\ Len(handler') = Len(by')
          /\ \A j \in Clients \ {k} : Framed(j)
      BY <1>1, <1>2, <1>5, GetFramed
    <2>2. TypeOK' /\ status'[k] = "prompt"
      BY <1>1, <1>2, <1>5, <2>1 DEF TypeOK, Connections, Sessions
    <2>3. Kept(k)'
      BY <1>1, <1>2, <2>2 DEF Kept, Linked, Accounted, AsAsked
    <2> QED BY <2>1, <2>2, <2>3, ByOneClient
  <1>6. CASE /\ status' = [status EXCEPT ![k] = "prompt"]
             /\ \E there \in {"astray", "name"} : handler' =
                    [handler EXCEPT ![conn] = IF @ = "closed" THEN @ ELSE there]
    <2>1. PICK there \in {"astray", "name"} : handler' =
              [handler EXCEPT ![conn] = IF handler[conn] = "closed" THEN handler[conn] ELSE there]
      BY <1>6
    <2>2. (IF handler[conn] = "closed" THEN handler[conn] ELSE there) \in States
      BY DEF States
    <2> QED BY <1>5, <1>6, <2>1, <2>2
  <1> QED BY <1>4, <1>6 DEF OpenTransfer, Become

LEMMA ReceivedKeeps == ASSUME CInv, NEW k \in Clients, Received(k) PROVE CInv'
  <1> DEFINE conn == session[k].conn
  <1>1. TypeOK /\ Kept(k) /\ status[k] = "receiving" /\ conn \in Connections
    BY DEF CInv, Received, Kept, Linked, TypeOK
  <1>2. UNCHANGED <<served, replied>>
    BY DEF Received
  <1>3. CASE Ends(k) /\ UNCHANGED handler
    BY <1>2, <1>3, EndsKeeps DEF serverVars
  <1>4. ASSUME Become(k, "prompt"), NEW there \in {"name", "astray"},
               handler' = [handler EXCEPT ![conn] = there],
               \/ UNCHANGED session
               \/ \E mbps \in Achieved :
                     session' = [session EXCEPT ![k].param.targetRate = Adjusted(mbps)]
        PROVE  CInv'
    <2>1. /\ status' = [status EXCEPT ![k] = "prompt"]
          /\ UNCHANGED <<secret, parameter, dialled, open, sets, left, by>>
      BY <1>4 DEF Become
    <2>2. /\ session' \in [Clients -> Sessions] /\ session'[k].conn = conn
          /\ \A j \in Clients \ {k} : session'[j] = session[j]
      <3>1. CASE UNCHANGED session
        BY <1>1, <3>1 DEF TypeOK
      <3>2. ASSUME NEW mbps \in Achieved,
                   session' = [session EXCEPT ![k].param.targetRate = Adjusted(mbps)]
            PROVE  <2>2!1
        <4>1. Adjusted(mbps) \in Value
          BY RateTyped
        <4>2. session[k] \in Sessions /\ session \in [Clients -> Sessions]
          BY <1>1 DEF TypeOK
        <4>3. [session[k].param EXCEPT !.targetRate = Adjusted(mbps)] \in Parameters
          BY <4>1, <4>2 DEF Sessions, Parameters
        <4>4. [session[k] EXCEPT !.param.targetRate = Adjusted(mbps)] \in Sessions
          BY <4>2, <4>3 DEF Sessions
        <4> QED BY <3>2, <4>2, <4>4 DEF Sessions
      <3> QED BY <1>4, <3>1, <3>2
    <2>3. /\ handler' \in Seq(States) /\ Len(handler') = Len(by')
          /\ \A j \in Clients \ {k} : Framed(j)
      <3>1. there \in States
        BY DEF States
      <3> QED BY <1>1, <1>2, <1>4, <2>1, <2>2, <3>1, GetFramed
    <2>4. TypeOK' /\ status'[k] = "prompt"
      BY <1>1, <1>2, <2>1, <2>2, <2>3 DEF TypeOK, Connections, Sessions
    <2>5. Kept(k)'
      BY <1>1, <2>1, <2>2, <2>4 DEF Kept, Linked, Accounted, AsAsked
    <2> QED BY <2>3, <2>4, <2>5, ByOneClient
  <1> QED BY <1>3, <1>4 DEF Received
-----------------------------------------------------------------------------
(* The steps of a handler: those of connection c concern by[c] alone.      *)

LEMMA HandlerFramed ==
    ASSUME CInv, NEW c \in Connections, NEW here, NEW there \in States,
           Handles(c, here, there),
           \A d \in Connections \ {c} : served'[d] = served[d] /\ replied'[d] = replied[d]
    PROVE  /\ by[c] \in Clients /\ handler[c] = here /\ handler'[c] = there
           /\ \A d \in Connections \ {c} : handler'[d] = handler[d]
           /\ \A j \in Clients \ {by[c]} : Framed(j)
           /\ (served' \in Seq([targetRate : Value, blockSize : Value]) /\ Len(served') = Len(by)
                 /\ replied' \in Seq(BOOLEAN) /\ Len(replied') = Len(by)) => TypeOK'
           /\ UNCHANGED <<session, status, dialled, open, left, by>>
  <1>1. TypeOK /\ by[c] \in Clients
    BY DEF CInv, TypeOK, Connections
  <1>2. /\ handler[c] = here /\ handler' = [handler EXCEPT ![c] = there]
        /\ UNCHANGED <<secret, parameter, session, status, dialled, open, sets, left, by>>
    BY DEF Handles, clientVars
  <1>3. /\ handler' \in Seq(States) /\ Len(handler') = Len(by') /\ handler'[c] = there
        /\ \A d \in Connections : d # c => handler'[d] = handler[d]
    BY <1>1, <1>2, HandlerMoves
  <1>4. ASSUME NEW j \in Clients \ {by[c]} PROVE Framed(j)
    <2>1. open' \subseteq Connections
      BY <1>1, <1>2 DEF TypeOK
    <2> QED BY <1>2, <1>3, <1>4, <2>1 DEF Framed
  <1>5. (served' \in Seq([targetRate : Value, blockSize : Value]) /\ Len(served') = Len(by)
            /\ replied' \in Seq(BOOLEAN) /\ Len(replied') = Len(by)) => TypeOK'
    BY <1>1, <1>2, <1>3 DEF TypeOK, Connections, Sessions
  <1> QED BY <1>1, <1>2, <1>3, <1>4, <1>5

(* What a step of a handler that replies nothing must keep.                *)
LEMMA SilentKeeps ==
    ASSUME CInv, NEW c \in Connections, NEW here, NEW there \in States,
           Handles(c, here, there), UNCHANGED <<served, replied>>,
           LET k == by[c] IN c = session[k].conn =>
              \/ status[k] \notin {"requested", "receiving"}
              \/ status[k] = "receiving" /\ there # "closed"
              \/ status[k] = "requested" /\ here \notin {"port", "closed"}
    PROVE  CInv'
  <1> DEFINE k == by[c]
  <1>1. /\ k \in Clients /\ handler[c] = here /\ handler'[c] = there
        /\ \A d \in Connections \ {c} : handler'[d] = handler[d]
        /\ \A j \in Clients \ {k} : Framed(j)
        /\ UNCHANGED <<session, status, dialled, open, left, by>>
    BY HandlerFramed
  <1>2. TypeOK'
    BY HandlerFramed DEF CInv, TypeOK
  <1>3. Kept(k)'
    <2>1. Kept(k) /\ open \subseteq Connections
      BY <1>1 DEF CInv, TypeOK
    <2>2. Linked(k)' /\ Accounted(k)'
      BY <1>1, <2>1 DEF Kept, Linked, Accounted
    <2>3. AsAsked(k)'
      <3>1. CASE status[k] \in {"requested", "receiving"} /\ c # session[k].conn
        <4>1. session[k].conn \in Connections \ {c}
          BY <2>1, <3>1 DEF Kept, Linked
        <4> QED BY <1>1, <2>1, <4>1 DEF Kept, AsAsked
      <3>2. CASE status[k] \in {"requested", "receiving"} /\ c = session[k].conn
        BY <1>1, <2>1, <3>2 DEF Kept, AsAsked
      <3>3. CASE status[k] \notin {"requested", "receiving"}
        BY <1>1, <3>3 DEF AsAsked
      <3> QED BY <3>1, <3>2, <3>3
    <2> QED BY <2>2, <2>3 DEF Kept
  <1> QED BY <1>1, <1>2, <1>3, ByOneClient

LEMMA RepliedTyped ==
    ASSUME TypeOK, NEW c \in Connections, NEW reply \in BOOLEAN,
           replied' = [replied EXCEPT ![c] = reply]
    PROVE  /\ replied' \in Seq(BOOLEAN) /\ Len(replied') = Len(by) /\ replied'[c] = reply
           /\ \A d \in Connections \ {c} : replied'[d] = replied[d]
  <1> DEFINE S == BOOLEAN
  <1>1. replied \in Seq(S) /\ Len(replied) = Len(by)
    BY DEF TypeOK
  <1>2. reply \in S
    OBVIOUS
  <1>3. c \in 1 .. Len(replied) /\ Connections = 1 .. Len(replied)
    BY <1>1 DEF Connections
  <1> HIDE DEF S
  <1>4. /\ replied' \in Seq(S) /\ Len(replied') = Len(by) /\ replied'[c] = reply
        /\ \A d \in Connections \ {c} : replied'[d] = replied[d]
    BY <1>1, <1>2, <1>3, ElementReplaced
  <1> QED BY <1>4 DEF S

LEMMA ServedTyped ==
    ASSUME TypeOK, NEW c \in Connections,
           NEW p \in [targetRate : Value, blockSize : Value],
           served' = [d \in Connections |-> IF d \in Own(c) THEN p ELSE served[d]]
    PROVE  /\ served' \in Seq([targetRate : Value, blockSize : Value])
           /\ Len(served') = Len(by) /\ served'[c] = p
           /\ \A d \in Connections \ {c} : served'[d] = served[d]
  <1>1. Connections = 1 .. Len(by) /\ Len(by) \in Nat
    BY DEF TypeOK, Connections
  <1>2. \A d \in 1 .. Len(by) : served[d] \in [targetRate : Value, blockSize : Value]
    <2> DEFINE S == [targetRate : Value, blockSize : Value]
    <2>1. served \in Seq(S) /\ Len(served) = Len(by)
      BY DEF TypeOK
    <2> HIDE DEF S
    <2>2. \A d \in 1 .. Len(by) : served[d] \in S
      BY <2>1
    <2> QED BY <2>2 DEF S
  <1>3. served' \in [1 .. Len(by) -> [targetRate : Value, blockSize : Value]]
    BY <1>1, <1>2
  <1> QED BY <1>1, <1>3 DEF Own

(* The reply to a file request: of the new place of the handler it matters *)
(* that one which has replied ends only for a rate of zero.                *)
LEMMA ReplyKeeps ==
    ASSUME CInv, NEW c \in Connections, NEW there \in {"closed", "port"},
           NEW reply \in BOOLEAN,
           status[by[c]] = "requested", session[by[c]].conn = c,
           Handles(c, "name", there),
           reply = TRUE => there = "port" \/ session[by[c]].param.targetRate = 0,
           served' = [d \in Connections |-> IF d \in Own(c) THEN Sent(session[by[c]].param)
                                            ELSE served[d]],
           replied' = [replied EXCEPT ![c] = reply]
    PROVE  CInv'
  <1> DEFINE k     == by[c]
             param == session[k].param
  <1>1. TypeOK /\ k \in Clients /\ there \in States
    BY DEF CInv, TypeOK, Connections, States
  <1>2. param \in Parameters /\ Connections = 1 .. Len(by) /\ Len(by) \in Nat
    BY <1>1, ConnTyped
  <1>3. /\ served' \in Seq([targetRate : Value, blockSize : Value]) /\ Len(served') = Len(by)
        /\ served'[c] = Sent(param)
        /\ \A d \in Connections \ {c} : served'[d] = served[d]
    <2>1. Sent(param) \in [targetRate : Value, blockSize : Value]
      BY <1>2 DEF Sent, Parameters
    <2> QED BY <1>1, <2>1, ServedTyped
  <1>4. /\ replied' \in Seq(BOOLEAN) /\ Len(replied') = Len(by) /\ replied'[c] = reply
        /\ \A d \in Connections \ {c} : replied'[d] = replied[d]
    BY <1>1, RepliedTyped
  <1>5. \A d \in Connections \ {c} : served'[d] = served[d] /\ replied'[d] = replied[d]
    BY <1>3, <1>4, Zenon
  <1>6. /\ handler'[c] = there
        /\ \A j \in Clients \ {k} : Framed(j)
        /\ UNCHANGED <<session, status, dialled, open, left, by>>
    BY <1>1, <1>5, HandlerFramed
  <1>7. TypeOK'
    BY <1>1, <1>3, <1>4, <1>5, HandlerFramed, Zenon
  <1>8. Kept(k)'
    <2>1. Kept(k) /\ status'[k] = "requested" /\ session'[k].conn = c
      BY <1>1, <1>6 DEF CInv
    <2>2. Linked(k)' /\ Accounted(k)'
      BY <1>6, <2>1 DEF Kept, Linked, Accounted
    <2>3. served'[c] = Sent(param) /\ handler'[c] = there /\ session'[k].param = param
      BY <1>3, <1>6
    <2>4. replied'[c] => there = "port" \/ (there = "closed" /\ param.targetRate = 0)
      <3>1. CASE reply = TRUE
        <4>1. there = "port" \/ param.targetRate = 0
          BY <3>1
        <4>2. there = "port" \/ there = "closed"
          OBVIOUS
        <4> QED BY <4>1, <4>2
      <3>2. CASE reply = FALSE
        <4>1. replied'[c] = FALSE
          BY <1>4, <3>2
        <4> QED BY <4>1
      <3> QED BY <3>1, <3>2
    <2>5. AsAsked(k)'
      <3> HIDE DEF param
      <3> QED BY <1>6, <2>1, <2>3, <2>4 DEF AsAsked
    <2> QED BY <2>2, <2>5 DEF Kept
  <1> QED BY <1>1, <1>6, <1>7, <1>8, ByOneClient

LEMMA ServerKeeps == ASSUME CInv, NEW c \in Connections, Server(c) PROVE CInv'
  <1> DEFINE k == by[c]
  <1>1. TypeOK /\ k \in Clients /\ Kept(k)
    BY DEF CInv, TypeOK, Connections
  <1>2. CASE Accept(c)
    <2>1. Handles(c, "queued", "authenticate") /\ UNCHANGED <<served, replied>>
      BY <1>2 DEF Accept
    <2>2. status[k] \in {"requested", "receiving"} => status[k] = "requested" \/ status[k] = "receiving"
      OBVIOUS
    <2> QED BY <2>1, <2>2, SilentKeeps DEF States
  <1>3. CASE Authenticate(c)
    <2> DEFINE there == IF dialled[k].param.passphrase = secret THEN "name" ELSE "closed"
    <2>1. /\ status[k] = "connecting" /\ UNCHANGED <<served, replied>>
          /\ Handles(c, "authenticate", there)
      BY <1>3, Zenon DEF Authenticate
    <2>2. there \in States
      BY DEF States
    <2> HIDE DEF there
    <2> QED BY <2>1, <2>2, SilentKeeps
  <1>4. CASE ServeFile(c)
    <2>1. status[k] = "requested" /\ session[k].conn = c
      BY <1>4 DEF ServeFile
    <2>2. CASE Handles(c, "name", "refused") /\ UNCHANGED <<served, replied>>
      BY <2>1, <2>2, SilentKeeps DEF States
    <2> DEFINE param == session[k].param
               there == IF param.blockSize = 0 \/ param.targetRate = 0 THEN "closed" ELSE "port"
               reply == Replies(param)
    <2>3. CASE /\ Handles(c, "name", there)
               /\ served' = [d \in Connections |-> IF d \in Own(c) THEN Sent(param)
                                                   ELSE served[d]]
               /\ replied' = [replied EXCEPT ![c] = reply]
      <3>1. reply \in BOOLEAN /\ there \in {"closed", "port"}
        BY DEF Replies
      <3>2. reply = TRUE => there = "port" \/ param.targetRate = 0
        BY DEF Replies
      <3> HIDE DEF reply, there
      <3> QED BY <2>1, <2>3, <3>1, <3>2, ReplyKeeps
    <2> QED BY <1>4, <2>2, <2>3 DEF ServeFile
  <1>5. CASE OpenPort(c)
    <2>1. /\ status[k] = "receiving" /\ UNCHANGED <<served, replied>>
          /\ \E there \in {"transfer", "name"} : Handles(c, "port", there)
      BY <1>5 DEF OpenPort
    <2> QED BY <2>1, SilentKeeps DEF States
  <1>6. CASE ReadFails(c)
    <2>1. /\ c \notin open /\ UNCHANGED <<served, replied>>
          /\ Handles(c, handler[c], "closed")
      BY <1>6 DEF ReadFails
    <2>2. c = session[k].conn => status[k] \notin {"requested", "receiving"}
      BY <1>1, <2>1 DEF Kept, Linked
    <2> QED BY <2>1, <2>2, SilentKeeps DEF States
  <1> QED BY <1>2, <1>3, <1>4, <1>5, <1>6 DEF Server

LEMMA CommandsInductive == Spec => []CInv
  <1>1. CInv /\ [Next]_vars => CInv'
    <2> SUFFICES ASSUME CInv, [Next]_vars PROVE CInv'
      OBVIOUS
    <2>1. CASE UNCHANGED vars
      BY <2>1 DEF vars, clientVars, serverVars, CInv, TypeOK, Kept, Linked, Accounted,
                  AsAsked, Connections, Sessions
    <2>2. ASSUME NEW k \in Clients, CommandQuit(k) \/ EmptyPassphrase(k) PROVE CInv'
      <3>1. CASE CommandQuit(k)
        BY <3>1, EndsKeeps DEF CommandQuit
      <3>2. CASE EmptyPassphrase(k)
        <4>1. Ends(k) /\ UNCHANGED serverVars
          BY <3>2, Zenon DEF EmptyPassphrase
        <4> QED BY <4>1, EndsKeeps
      <3> QED BY <2>2, <3>1, <3>2
    <2>3. ASSUME NEW k \in Clients,
                 \/ CommandSet(k) \/ CommandConnect(k) \/ CommandClose(k) \/ CommandGet(k)
                 \/ Authenticated(k) \/ OpenTransfer(k) \/ Received(k)
          PROVE  CInv'
      BY <2>3, SetKeeps, ConnectKeeps, CloseKeeps, GetKeeps, AuthenticatedKeeps,
         OpenTransferKeeps, ReceivedKeeps
    <2>4. ASSUME NEW c \in Connections, Server(c) PROVE CInv'
      BY <2>4, ServerKeeps
    <2> QED BY <2>1, <2>2, <2>3, <2>4 DEF Next, Answers
  <1> QED BY InitCInv, <1>1, PTL DEF Spec
-----------------------------------------------------------------------------
(* Parameters, sessions and handlers keep their types: no rate or size     *)
(* leaves the 32 bits, whatever is typed.                                  *)
THEOREM TypesKept == Spec => []TypeOK
  <1>1. CInv => TypeOK
    BY DEF CInv
  <1> QED BY CommandsInductive, <1>1, PTL

(* A handler works with the parameters of its own client's session         *)
(* (NewSession's copy, server/protocol.go:42-50), for any clients.         *)
THEOREM HandlersKeptApart == Spec => []HandlersApart
  <1>1. CInv => HandlersApart
    BY DEF CInv, Kept, AsAsked, HandlersApart
  <1> QED BY CommandsInductive, <1>1, PTL

(* Every open connection belongs to a session or a connect under way, or   *)
(* was left open by a further connect (command.go:66), through failed      *)
(* connects and ends of clients.                                           *)
THEOREM NoneLost == Spec => []ConnectionsAccounted
  <1>1. CInv => ConnectionsAccounted
    <2> SUFFICES ASSUME CInv, NEW k \in Clients
                 PROVE  /\ \A c \in open : by[c] = k =>
                              \/ c = session[k].conn \/ c \in left
                              \/ status[k] = "connecting" /\ c = dialled[k].conn
                        /\ status[k] = "prompt" /\ session[k].conn > 0
                              => session[k].conn \in open
      BY Zenon DEF ConnectionsAccounted
    <2>1. Kept(k)
      BY DEF CInv
    <2> QED BY <2>1 DEF Kept, Linked, Accounted
  <1> QED BY CommandsInductive, <1>1, PTL

(* A client that waits for blocks of a handler that has ended has asked    *)
(* for a rate of zero (command.go:298, server/protocol.go:609).            *)
THEOREM OnlyZeroStrands == Spec => []StrandedByZeroRate
  <1>1. CInv => StrandedByZeroRate
    BY DEF CInv, Kept, AsAsked, StrandedByZeroRate
  <1> QED BY CommandsInductive, <1>1, PTL
=============================================================================

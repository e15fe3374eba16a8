------------------------------ MODULE Commands ------------------------------
(***************************************************************************)
(* The prompt of the client (client/tsunami/client.go) with its commands   *)
(* connect, close, set, quit and get (client/command.go, command_get.go)   *)
(* and their parameters (client/config.go), for several clients; and the   *)
(* server's accept loop with its handlers (server/tsunamid/server.go), by  *)
(* what they do with parameters and connections.  The exchanges are in     *)
(* SessionProtocol byte by byte; here each is a step of client or handler  *)
(* and no connection fails.                                                *)
(*                                                                         *)
(* Of the parameters there are those that can go wrong; the others are set,*)
(* copied and sent in the same way.  A typed value is                      *)
(* [numeric, number, unit], unit 1, MEGA or GIGA for what follows.  After  *)
(* a get that left the handler elsewhere the user closes or reconnects.    *)
(***************************************************************************)
EXTENDS Integers, Sequences

CONSTANTS
    Clients,
    RateWords, SizeWords,   \* what is typed as a rate and as a block size
    Phrases, Lowered,       \* typed passphrases; strings.ToLower of each
    DEFAULT_SECRET, Secrets,    \* of the latter the server has one
    Achieved,               \* the Mbit/s a transfer may have had
    MEGA, GIGA, UINT,       \* 10^6, 10^9 and 2^32, scaled down
    ADJUST,                 \* 1150000 * 10^6: the factor of the adjusted rate
    MaxSets,                \* bound: set commands of all clients
    MaxConnections          \* bound: connections dialled

ASSUME CommandsAssumption ==
    /\ \A w \in RateWords \union SizeWords :
          w.numeric \in BOOLEAN /\ w.number \in Nat /\ w.unit \in {1, MEGA, GIGA}
    /\ DOMAIN Lowered = Phrases
    /\ Achieved \subseteq Nat /\ ADJUST \in Nat
    /\ MEGA \in Nat \ {0, 1} /\ GIGA \in Nat \ {0, 1, MEGA} /\ UINT \in Nat \ {0, 1}
    /\ MaxSets \in Nat /\ MaxConnections \in Nat

VARIABLES
    secret,      \* the server's
    parameter,   \* per client, the defaults
    session,     \* per client: [conn, param], conn 0 for none and -1 for nil
    status,      \* per client, what it is doing
    dialled,     \* per client, the session being made
    open,        \* the connections that are open on the client's side
    handler,     \* per connection, the state of its handler
    served,      \* per connection, the parameters of its handler
    replied,     \* per connection, the reply to the file request was sent
    sets,        \* how many set commands were typed
    by,          \* history: per connection, the client
    left         \* history: connections a further connect has left open

clientVars == <<parameter, session, status, dialled, open, sets, left>>
serverVars == <<handler, served, replied>>
vars == <<secret, clientVars, serverVars, by>>

Connections == 1 .. Len(by)
None == 0
Nil == -1

(* The defaults.                                                           *)
NewParameter ==
    [targetRate |-> 1, blockSize |-> 1, rateAdjust |-> FALSE,
     passphrase |-> DEFAULT_SECRET]

Sent(param) == [targetRate |-> param.targetRate, blockSize |-> param.blockSize]
NoDial == [conn |-> None, param |-> NewParameter]

Init ==
    /\ secret \in Secrets
    /\ parameter = [k \in Clients |-> NewParameter]
    /\ session = [k \in Clients |-> NoDial] /\ dialled = session
    /\ status = [k \in Clients |-> "prompt"]
    /\ open = {} /\ handler = <<>> /\ served = <<>> /\ replied = <<>> /\ by = <<>>
    /\ sets = 0 /\ left = {}
-----------------------------------------------------------------------------
(* set                                                                     *)

(* ParseUint with 32 bits: 0 for no number, the largest for one too large. *)
Number(word) ==
    IF ~word.numeric THEN 0 ELSE IF word.number < UINT THEN word.number ELSE UINT - 1

Rate(word) ==
    IF ~word.numeric THEN 0 ELSE (word.unit * (word.number % UINT)) % UINT

SetTo(k, field, value) ==
    /\ status[k] = "prompt" /\ sets < MaxSets /\ sets' = sets + 1
    /\ parameter' = [parameter EXCEPT ![k][field] = value]
    /\ UNCHANGED <<secret, session, status, dialled, open, left, serverVars, by>>

CommandSet(k) ==
    \/ \E word \in RateWords : SetTo(k, "targetRate", Rate(word))
    \/ \E word \in SizeWords : SetTo(k, "blockSize", Number(word))
    \/ SetTo(k, "rateAdjust", TRUE)
    \/ \E phrase \in Phrases : SetTo(k, "passphrase", Lowered[phrase])
-----------------------------------------------------------------------------
(* connect and close                                                       *)

(* A host nobody answers at is remembered and nothing else happens;        *)
(* otherwise there is a connection the server will accept.                 *)
CommandConnect(k) ==
    /\ status[k] = "prompt" /\ Len(by) < MaxConnections
    /\ status' = [status EXCEPT ![k] = "connecting"]
    /\ dialled' = [dialled EXCEPT ![k] = [conn |-> Len(by) + 1, param |-> parameter[k]]]
    /\ open' = open \union {Len(by) + 1} /\ by' = Append(by, k)
    /\ handler' = Append(handler, "queued")
    /\ served' = Append(served, Sent(NewParameter)) /\ replied' = Append(replied, FALSE)
    /\ UNCHANGED <<secret, parameter, session, sets, left>>

(* The process ends, and with it its memory and its connections.           *)
Ends(k) ==
    /\ status' = [status EXCEPT ![k] = "ended"]
    /\ open' = {c \in open : by[c] # k}
    /\ parameter' = [parameter EXCEPT ![k] = NewParameter]
    /\ session' = [session EXCEPT ![k] = NoDial]
    /\ dialled' = [dialled EXCEPT ![k] = NoDial]
    /\ UNCHANGED <<secret, sets, left, by>>

HangUp(conn) == open' = open \ {conn}
KeepOpen(conn) == UNCHANGED open             \* variant: without Close
HangUpFailed(conn) == HangUp(conn)

(* authenticate divides by the length of the passphrase; otherwise its     *)
(* result tells, or the server has gone.                                   *)
Authenticated(k) ==
    LET conn == dialled[k].conn
    IN  /\ status[k] = "connecting" /\ handler[conn] \in {"name", "closed"}
        /\ \/ /\ handler[conn] = "name"
              /\ session' = [session EXCEPT ![k] = dialled[k]]
              /\ left' = left \union ({session[k].conn} \intersect open)
              /\ UNCHANGED open
           \/ /\ handler[conn] = "closed"
              /\ HangUpFailed(conn)
              /\ UNCHANGED <<session, left>>
        /\ status' = [status EXCEPT ![k] = "prompt"]
        /\ dialled' = [dialled EXCEPT ![k] = NoDial]
        /\ UNCHANGED <<secret, parameter, sets, serverVars, by>>

EmptyPassphrase(k) ==
    /\ status[k] = "connecting" /\ dialled[k].param.passphrase = ""
    /\ handler[dialled[k].conn] = "authenticate"
    /\ Ends(k) /\ UNCHANGED serverVars

CommandClose(k) ==
    /\ status[k] = "prompt" /\ session[k].conn # None
    /\ \/ /\ HangUp(session[k].conn)
          /\ session' = [session EXCEPT ![k].conn = Nil]
          /\ UNCHANGED <<secret, parameter, status, dialled, sets, left, by>>
       \/ session[k].conn = Nil /\ Ends(k)     \* Close of a nil connection
    /\ UNCHANGED serverVars

(* quit, or the end of the input.                                          *)
CommandQuit(k) ==
    /\ status[k] = "prompt" /\ Ends(k)
    /\ UNCHANGED serverVars
-----------------------------------------------------------------------------
(* get                                                                     *)

Become(k, there) ==
    /\ status' = [status EXCEPT ![k] = there]
    /\ UNCHANGED <<secret, parameter, dialled, open, sets, left, by>>

CommandGet(k) ==
    /\ status[k] = "prompt" /\ session[k].conn \in open
    /\ handler[session[k].conn] \in {"name", "closed"}
    /\ replied' = [replied EXCEPT ![session[k].conn] = FALSE]
    /\ UNCHANGED <<session, handler, served>>
    /\ Become(k, "requested")

(* The result byte and the reply, or the end of the stream.  The local     *)
(* file may not open; otherwise the port is sent.                          *)
OpenTransfer(k) ==
    LET conn == session[k].conn
    IN  /\ status[k] = "requested"
        /\ \/ /\ replied[conn]
              /\ \/ Become(k, "receiving") /\ UNCHANGED handler
                 \/ Become(k, "prompt") /\ handler' = [handler EXCEPT ![conn] =
                                                  IF @ = "closed" THEN @ ELSE "astray"]
           \/ /\ ~replied[conn] /\ handler[conn] \in {"closed", "refused"}
              /\ Become(k, "prompt")
              /\ handler' = [handler EXCEPT ![conn] = IF @ = "closed" THEN @ ELSE "name"]
        /\ UNCHANGED <<session, served, replied>>

Adjusted(mbps) == (ADJUST * mbps) % UINT

(* Blocks come from a handler in Transfer.  The loop returns with or       *)
(* without a stop request written, and the rate adjusted after a flush; or *)
(* the results crash it (GetFile).                                         *)
Received(k) ==
    LET conn == session[k].conn
    IN  /\ status[k] = "receiving" /\ handler[conn] = "transfer"
        /\ \/ /\ Become(k, "prompt")
              /\ \E there \in {"name", "astray"} : handler' = [handler EXCEPT ![conn] = there]
              /\ \/ UNCHANGED session
                 \/ /\ session[k].param.rateAdjust
                    /\ \E mbps \in Achieved :
                          session' = [session EXCEPT ![k].param.targetRate = Adjusted(mbps)]
           \/ Ends(k) /\ UNCHANGED handler
        /\ UNCHANGED <<served, replied>>
-----------------------------------------------------------------------------
(* The server.                                                             *)

Handles(c, here, there) ==
    /\ handler[c] = here
    /\ handler' = [handler EXCEPT ![c] = there]
    /\ UNCHANGED <<secret, clientVars, by>>

(* Accept, NewSession, which copies the server's parameters, and Negotiate.*)
Accept(c) == Handles(c, "queued", "authenticate") /\ UNCHANGED <<served, replied>>

AuthenticateLoosely(c) ==                    \* variant: no answer when refused
    /\ status[by[c]] = "connecting" /\ dialled[by[c]].conn = c
    /\ dialled[by[c]].param.passphrase = secret
    /\ Handles(c, "authenticate", "name")
    /\ UNCHANGED <<served, replied>>

Authenticate(c) ==
    /\ status[by[c]] = "connecting" /\ dialled[by[c]].conn = c
    /\ dialled[by[c]].param.passphrase # ""
    /\ Handles(c, "authenticate",
               IF dialled[by[c]].param.passphrase = secret THEN "name" ELSE "closed")
    /\ UNCHANGED <<served, replied>>

ReplyBeforeBlocks(param) == TRUE             \* variant: counted after the reply
Replies(param) == param.blockSize # 0

All(c) == Connections                        \* variant: one copy for all sessions
Own(c) == {c}

(* OpenTransfer of a file that is there.  The parameters are read into the *)
(* session's; the block count is divided by the block size, and, after the *)
(* reply, by the target rate: by zero the handler recovers and ends.  With *)
(* a file that is not, it is back at the name, its answer still unread.    *)
ServeFile(c) ==
    LET param == session[by[c]].param
    IN  /\ status[by[c]] = "requested" /\ session[by[c]].conn = c
        /\ \/ /\ Handles(c, "name", IF param.blockSize = 0 \/ param.targetRate = 0
                                    THEN "closed" ELSE "port")
              /\ served' = [d \in Connections |-> IF d \in Own(c) THEN Sent(param) ELSE served[d]]
              /\ replied' = [replied EXCEPT ![c] = Replies(param)]
           \/ Handles(c, "name", "refused") /\ UNCHANGED <<served, replied>>

(* The UDP socket may not be created.                                      *)
OpenPort(c) ==
    /\ status[by[c]] = "receiving" /\ session[by[c]].conn = c
    /\ \E there \in {"transfer", "name"} : Handles(c, "port", there)
    /\ UNCHANGED <<served, replied>>

(* Its client gone, a handler's Read fails.                                *)
ReadFails(c) ==
    /\ c \notin open /\ handler[c] \notin {"queued", "closed"}
    /\ Handles(c, handler[c], "closed")
    /\ UNCHANGED <<served, replied>>

Server(c) ==
    /\ c \in Connections
    /\ Accept(c) \/ Authenticate(c) \/ ServeFile(c) \/ OpenPort(c) \/ ReadFails(c)

Answers(k) == Authenticated(k) \/ EmptyPassphrase(k) \/ OpenTransfer(k)

Next ==
    \/ \E k \in Clients :
          \/ CommandSet(k) \/ CommandConnect(k) \/ CommandClose(k) \/ CommandQuit(k)
          \/ CommandGet(k) \/ Answers(k) \/ Received(k)
    \/ \E c \in Connections : Server(c)

(* Clients and handlers run while they can; users need not type.           *)
Spec ==
    /\ Init /\ [][Next]_vars
    /\ \A k \in Clients : WF_vars(Answers(k))
    /\ \A c \in 1 .. MaxConnections : WF_vars(Server(c))
-----------------------------------------------------------------------------
(* Properties                                                              *)

States == {"queued", "authenticate", "name", "refused", "port", "transfer", "astray", "closed"}
Value == 0 .. UINT - 1
Parameters ==
    [targetRate : Value, blockSize : Value, rateAdjust : BOOLEAN,
     passphrase : {DEFAULT_SECRET} \union {Lowered[phrase] : phrase \in Phrases}]
Sessions == [conn : Connections \union {None, Nil}, param : Parameters]

TypeOK ==
    /\ secret \in Secrets /\ sets \in 0 .. MaxSets
    /\ parameter \in [Clients -> Parameters]
    /\ session \in [Clients -> Sessions] /\ dialled \in [Clients -> Sessions]
    /\ status \in [Clients -> {"prompt", "connecting", "requested", "receiving", "ended"}]
    /\ by \in Seq(Clients) /\ handler \in Seq(States) /\ Len(handler) = Len(by)
    /\ served \in Seq([targetRate : Value, blockSize : Value]) /\ Len(served) = Len(by)
    /\ replied \in Seq(BOOLEAN) /\ Len(replied) = Len(by)
    /\ open \subseteq Connections /\ left \subseteq Connections

(* What other clients set, connect and get, and what this one has set      *)
(* since it connected, does not change the parameters of a transfer: the   *)
(* handler works with those of its client's session.                       *)
HandlersApart ==
    \A k \in Clients :
        status[k] = "receiving" => served[session[k].conn] = Sent(session[k].param)

(* Every connection a client keeps open belongs to its session, or to the  *)
(* connect under way, or was left open by a further connect; and the       *)
(* session's is open until close, through failed connects too.             *)
ConnectionsAccounted ==
    \A k \in Clients :
        /\ \A c \in open : by[c] = k =>
              \/ c = session[k].conn \/ c \in left
              \/ status[k] = "connecting" /\ c = dialled[k].conn
        /\ status[k] = "prompt" /\ session[k].conn > 0 => session[k].conn \in open

(* A client waits for blocks of a handler that has ended only if the rate  *)
(* it asked for is zero: typed so, not a number, a multiple of 2^32, or    *)
(* adjusted to the rate of a slow transfer (command_get.go:444).           *)
StrandedByZeroRate ==
    \A k \in Clients :
        status[k] = "receiving" /\ handler[session[k].conn] = "closed"
            => session[k].param.targetRate = 0

(* Connect and the request of a get come back to the prompt or go on to    *)
(* the blocks, whatever was set and whoever else is served.                *)
CommandsReturn ==
    \A k \in Clients : status[k] \in {"connecting", "requested"}
        ~> status[k] \in {"prompt", "receiving", "ended"}
=============================================================================

-------------------------- MODULE SessionProtocol --------------------------
(***************************************************************************)
(* The control connection: the client's commands connect, get, get *, dir  *)
(* and close (client/command.go, command_get.go, protocol.go) and the      *)
(* server's handler (server/tsunamid/server.go) with Negotiate,            *)
(* Authenticate, OpenTransfer, dir, executeHook, sendMultipleFileNames and *)
(* OpenPort (server/protocol.go).                                          *)
(*                                                                         *)
(* Both directions are byte streams, in order, cut anywhere.  A field of   *)
(* several bytes is two tokens, its beginning and its end, so that a Read  *)
(* may return half of it; a result byte is one token.  The client checks   *)
(* how much it has read, the server does not.                              *)
(*                                                                         *)
(* The receive loop and Transfer appear by what they do to the connection  *)
(* only (see GetFile and ServerTransfer), the commands that write nothing  *)
(* to the connection are in Commands.                                      *)
(***************************************************************************)
EXTENDS Integers, SequencesExt

CONSTANTS
    Files, Missing,   \* names the server has, and has not
    Allhook,          \* the server lists its files by a program
    MaxUnread         \* bound: the client writes no more while this is unread

(* The kinds of fields other than names, and the special names.            *)
Words ==
    {"revision", "challenge", "proof", "wrong_proof", "ok", "refused", "list", "all",
     "newline", "zero", "zeros", "listing", "ack", "got_size", "block_size",
     "wrong_block_size", "target_rate", "faster_den", "file_size", "epoch", "port",
     "request", "stop"}

(* The tokens of names are not those of other fields.                      *)
ASSUME SessionAssumption ==
    /\ MaxUnread \in Nat /\ Allhook \in BOOLEAN /\ IsFiniteSet(Files)
    /\ (Files \union Missing) \intersect Words = {}

VARIABLES
    client,       \* where the client is
    server,       \* where the server's handler is
    toServer,     \* the bytes written and not yet read ...
    toClient,     \* ... in each direction
    closed,       \* who has closed the connection
    passphrase,   \* the client's secret is the server's
    clientField,  \* the field of the reply the client reads next
    serverField,  \* the parameter the server reads next
    misread,      \* history: the parameters the server took for something else
    astray,       \* history: "listed", a list was acknowledged, or an answer
                  \* cut; "cut", a part of a field was taken for the field;
                  \* "left", the receive loop was left, with no error or one
    file,         \* session.transfer.file is open
    port,         \* history: what OpenPort read as the port, so far
    record,       \* the bytes of a request Transfer holds
    unsure        \* history: a command has ended before its exchange has

clientSide == <<client, passphrase, clientField, unsure>>
serverSide == <<server, serverField, misread, astray, file, port, record>>
vars == <<client, server, toServer, toClient, closed, passphrase, clientField,
          serverField, misread, astray, file, port, record, unsure>>

Bytes(field) == <<[of |-> field, part |-> 1], [of |-> field, part |-> 2]>>
Byte(value) == <<[of |-> value, part |-> 1]>>
Line(name) == Bytes(name) \o Byte("newline")

(* Of the seven parameters, the first, one between and the last; of the    *)
(* four fields of the reply, all but the block count.                      *)
Parameters == <<"block_size", "target_rate", "faster_den">>
Reply == <<"file_size", "block_size", "epoch">>
WrongReply == [Reply EXCEPT ![2] = "wrong_block_size"]

AllBytes(fields) ==
    [i \in 1 .. 2 * Len(fields) |-> Bytes(fields[(i + 1) \div 2])[((i - 1) % 2) + 1]]

(* What a Read with room for size tokens may return.                       *)
MayRead(stream, size) ==
    LET most == Min({size, Len(stream)})
    IN  {SubSeq(stream, 1, n) : n \in 1 .. most}

Rest(stream, read) == SubSeq(stream, Len(read) + 1, Len(stream))

Init ==
    /\ client = "offline" /\ server = "closed"
    /\ toServer = <<>> /\ toClient = <<>> /\ closed = {"client", "server"}
    /\ passphrase = FALSE /\ clientField = 1 /\ serverField = 1
    /\ misread = {} /\ astray = {} /\ file = FALSE /\ port = <<>> /\ record = <<>>
    /\ unsure = FALSE
-----------------------------------------------------------------------------
(* The server.                                                             *)

ServerReads(read, answer) ==
    /\ toServer' = Rest(toServer, read)
    /\ toClient' = toClient \o answer

(* The handler returns and closes the connection.                          *)
HandlerEnds == server' = "closed" /\ closed' = closed \union {"server"}

Negotiate ==
    /\ server = "negotiate"
    /\ \E read \in MayRead(toServer, 2) :
          \/ /\ read = Bytes("revision")
             /\ ServerReads(read, Bytes("challenge"))
             /\ server' = "authenticate" /\ UNCHANGED closed
          \/ /\ read # Bytes("revision")
             /\ ServerReads(read, <<>>) /\ HandlerEnds
    /\ UNCHANGED <<clientSide, serverField, misread, astray, file, port, record>>

AuthenticatePrefix ==      \* variant: only the bytes received are compared
    /\ server = "authenticate"
    /\ \E read \in MayRead(toServer, 2) :
          \/ /\ read[1].of = "proof" \/ Len(read) = 1
             /\ ServerReads(read, Byte("ok"))
             /\ server' = "name" /\ UNCHANGED closed
          \/ /\ read[1].of # "proof" /\ Len(read) = 2
             /\ ServerReads(read, Byte("refused")) /\ HandlerEnds
    /\ UNCHANGED <<clientSide, serverField, misread, astray, file, port, record>>

(* A short read leaves zeros in the digest, which then differs.            *)
Authenticate ==
    /\ server = "authenticate"
    /\ \E read \in MayRead(toServer, 2) :
          \/ /\ read = Bytes("proof")
             /\ ServerReads(read, Byte("ok"))
             /\ server' = "name" /\ UNCHANGED closed
          \/ /\ read # Bytes("proof")
             /\ ServerReads(read, Byte("refused")) /\ HandlerEnds
    /\ UNCHANGED <<clientSide, serverField, misread, astray, file, port, record>>

(* A name is two tokens: a get in the wrong place loses a part of it.      *)
(* ReadLine ends at a newline or a zero byte, which binary fields contain. *)
EndsLine(token) ==
    token.of \notin Files \union Missing \union {"list", "all", "got_size"}
Lines == {SubSeq(toServer, 1, n) : n \in {i \in 1 .. Len(toServer) : EndsLine(toServer[i])}}

AfterRefusalGoesOn == server' = "port"     \* variant: no continue
AfterRefusal == UNCHANGED server

(* The length of the list and the number of names are appended to a buffer *)
(* of ten zero bytes, and its first ten bytes sent: zeros, both times.     *)
Counts == Bytes("zeros") \o Bytes("zeros")

(* OpenTransfer closes the previous transfer and opens the file asked for. *)
OpenTransfer ==
    /\ server = "name"
    /\ \E line \in Lines :
          \/ /\ line = Line("list")
             /\ ServerReads(line, Byte("listing") \o Byte("zero"))
             /\ server' = "ack" /\ file' = FALSE
          \/ /\ line = Line("all")
             /\ ServerReads(line, Counts)
             /\ server' \in {"sizes"} \union (IF Allhook THEN {"empty_hook"} ELSE {})
             /\ file' = FALSE
          \/ /\ \E name \in Files : line = Line(name)
             /\ ServerReads(line, Byte("ok"))
             /\ server' = "parameters" /\ file' = TRUE
          \/ /\ \A name \in Files \union {"list", "all"} : line # Line(name)
             /\ ServerReads(line, Byte("refused"))
             /\ file' = FALSE /\ AfterRefusal
    /\ serverField' = 1 /\ misread' = {} /\ port' = <<>>
    /\ UNCHANGED <<clientSide, closed, astray, record>>

(* The rest of executeHook and of sendMultipleFileNames: whatever the      *)
(* client writes is its answer to the counts, then to the names.  A hook   *)
(* that lists nothing returns an empty name, which cannot be opened.       *)
Names ==
    [i \in 1 .. 3 * Cardinality(Files) |->
        (Bytes(SetToSeq(Files)[(i + 2) \div 3]) \o Byte("zero"))[((i - 1) % 3) + 1]]

NoteAnswer(read) ==
    astray' = IF Len(read) = 2 THEN astray ELSE astray \union {"listed"}

AnswerToCounts ==
    /\ server \in {"sizes", "empty_hook"}
    /\ \E read \in MayRead(toServer, 2) :
          /\ \/ /\ server = "sizes"
                /\ ServerReads(read, Names) /\ server' = "names"
             \/ /\ server = "empty_hook"
                /\ ServerReads(read, Byte("refused")) /\ server' = "name"
          /\ NoteAnswer(read)
    /\ UNCHANGED <<clientSide, closed, serverField, misread, file, port, record>>

AnswerToNames ==
    /\ server = "names"
    /\ \E read \in MayRead(toServer, 2) : ServerReads(read, <<>>) /\ NoteAnswer(read)
    /\ server' = "first_name"
    /\ UNCHANGED <<clientSide, closed, serverField, misread, file, port, record>>

(* After a list of names the next line is a name, whatever it says.        *)
FirstName ==
    /\ server = "first_name"
    /\ \E line \in Lines :
          \/ /\ \E name \in Files : line = Line(name)
             /\ ServerReads(line, Byte("ok"))
             /\ server' = "parameters" /\ file' = TRUE
          \/ /\ \A name \in Files : line # Line(name)
             /\ ServerReads(line, Byte("refused"))
             /\ server' = "name" /\ UNCHANGED file
    /\ UNCHANGED <<clientSide, closed, serverField, misread, astray, port, record>>

(* dir() reports FileListSent, after which the handler goes on to OpenPort *)
(* as after an accepted file.                                              *)
ListAcknowledged ==
    /\ server = "ack"
    /\ \E read \in MayRead(toServer, 1) : ServerReads(read, <<>>)
    /\ server' = "port" /\ astray' = astray \union {"listed"}
    /\ UNCHANGED <<clientSide, closed, serverField, misread, file, port, record>>

NoteLength(read) ==
    astray' = IF Len(read) = 2 THEN astray ELSE astray \union {"cut"}

LastParameterEarly == serverField = Len(Parameters) - 1    \* variant: one too few
LastParameter == serverField = Len(Parameters)

(* The lengths of the parameters read are not looked at.  After the last   *)
(* one the file's data is sent; with a block size that is a part of the    *)
(* real one, the division may fail.                                        *)
ReadParameter ==
    /\ server = "parameters"
    /\ \E read \in MayRead(toServer, 2) :
          LET wrong == misread \union
                  (IF read = Bytes(Parameters[serverField]) THEN {}
                   ELSE {Parameters[serverField]})
          IN  /\ misread' = wrong /\ NoteLength(read)
              /\ \/ /\ ~LastParameter
                    /\ ServerReads(read, <<>>)
                    /\ serverField' = serverField + 1
                    /\ UNCHANGED <<server, closed>>
                 \/ /\ LastParameter
                    /\ ServerReads(read, AllBytes(IF "block_size" \in wrong
                                                  THEN WrongReply ELSE Reply))
                    /\ server' = "port"
                    /\ UNCHANGED <<serverField, closed>>
                 \/ /\ LastParameter /\ "block_size" \in wrong
                    /\ ServerReads(read, <<>>) /\ HandlerEnds
                    /\ UNCHANGED serverField
    /\ UNCHANGED <<clientSide, file, port, record>>

(* Whatever is read is the port; the UDP socket may not be created.        *)
OpenPort ==
    /\ server = "port"
    /\ \E read \in MayRead(toServer, 2) :
          /\ ServerReads(read, <<>>)
          /\ port' = read /\ NoteLength(read)
    /\ server' \in {"transfer", "name"}
    /\ record' = <<>>
    /\ UNCHANGED <<clientSide, closed, serverField, misread, file>>

(* Transfer: a complete request is taken, a stop ends the transfer; what   *)
(* is no request may decode as any.  After a part of a request a block is  *)
(* sent, or the session panics when no file is open.                       *)
Transfer ==
    /\ server = "transfer"
    /\ \E read \in MayRead(toServer, 2 - Len(record)) :
          /\ ServerReads(read, <<>>)
          /\ LET bytes == record \o read
             IN  \/ /\ Len(bytes) = 2 /\ bytes \notin {Bytes("stop"), Bytes("request")}
                    /\ server' \in {"name", "transfer"} /\ record' = <<>>
                    /\ UNCHANGED closed
                 \/ /\ bytes = Bytes("request")
                    /\ record' = <<>> /\ UNCHANGED <<server, closed>>
                 \/ /\ bytes = Bytes("stop")
                    /\ server' = "name" /\ record' = <<>>
                    /\ UNCHANGED closed
                 \/ /\ Len(bytes) = 1 /\ file
                    /\ record' = bytes
                    /\ UNCHANGED <<server, closed>>
                 \/ /\ Len(bytes) = 1 /\ ~file
                    /\ HandlerEnds /\ UNCHANGED record
    /\ UNCHANGED <<clientSide, serverField, misread, astray, file, port>>

(* A failed Read ends the handler, at once or from the top of its loop.    *)
ServerReadFails ==
    /\ "client" \in closed /\ toServer = <<>>
    /\ \/ /\ server \in {"negotiate", "authenticate", "name", "first_name", "transfer"}
          /\ HandlerEnds
       \/ /\ server \in {"ack", "sizes", "empty_hook", "names", "first_name",
                         "parameters", "port"}
          /\ server' = "name"
          /\ UNCHANGED closed
    /\ UNCHANGED <<clientSide, toServer, toClient, serverField, misread, astray, file,
                   port, record>>

Server ==
    \/ Negotiate \/ Authenticate \/ OpenTransfer \/ ListAcknowledged
    \/ AnswerToCounts \/ AnswerToNames \/ FirstName
    \/ ReadParameter \/ OpenPort \/ Transfer \/ ServerReadFails
-----------------------------------------------------------------------------
(* The client.                                                             *)

(* A read, and what the client writes next.                                *)
ClientReads(read, answer) ==
    /\ toClient' = Rest(toClient, read)
    /\ toServer' = toServer \o answer

GoesOffline == client' = "offline" /\ closed' = closed \union {"client"}

(* CommandConnect, up to its first Read; the server writes its revision    *)
(* when it accepts.                                                        *)
Connect ==
    /\ client = "offline" /\ server = "closed"
    /\ client' = "revision" /\ server' = "negotiate"
    /\ toServer' = Bytes("revision") /\ toClient' = Bytes("revision")
    /\ closed' = {} /\ passphrase' \in BOOLEAN /\ unsure' = FALSE
    /\ file' = FALSE /\ misread' = {} /\ astray' = {} /\ port' = <<>> /\ record' = <<>>
    /\ clientField' = 1 /\ serverField' = 1

(* negotiate and authenticate: each Read must bring what is expected.      *)
Handshake(here, expected, answer, there) ==
    /\ client = here
    /\ \E read \in MayRead(toClient, Len(expected)) :
          \/ /\ read = expected
             /\ ClientReads(read, answer)
             /\ client' = there /\ UNCHANGED closed
          \/ /\ read # expected
             /\ ClientReads(read, <<>>) /\ GoesOffline
    /\ UNCHANGED <<serverSide, passphrase, clientField, unsure>>

Proof == Bytes(IF passphrase THEN "proof" ELSE "wrong_proof")

Authenticating ==
    \/ Handshake("revision", Bytes("revision"), <<>>, "challenge")
    \/ Handshake("challenge", Bytes("challenge"), Proof, "status")
    \/ Handshake("status", Byte("ok"), <<>>, "prompt")

(* Commands write to a connection the server may have closed.              *)
Request(name, there) ==
    /\ client = "prompt"
    /\ Len(toServer) + Len(toClient) <= MaxUnread
    /\ client' = there /\ clientField' = 1
    /\ toServer' = toServer \o Line(name)
    /\ UNCHANGED <<toClient, closed, serverSide, passphrase, unsure>>

Get == \E name \in Files \union Missing : Request(name, "result")
GetAll == Request("all", "counts")
Dir == Request("list", "listing")

(* multiFileRequest: two reads, of the length of the list and of the       *)
(* number of names, and an answer.  No zero byte is a digit, and neither   *)
(* is what else may come: the number is always taken for 0.                *)
TakeCounts ==
    /\ client = "counts"
    /\ \E read \in MayRead(toClient, 2) :
          \/ /\ clientField = 1
             /\ ClientReads(read, <<>>)
             /\ clientField' = 2 /\ UNCHANGED client
          \/ /\ clientField = 2
             /\ ClientReads(read, Bytes("got_size"))
             /\ client' = "no_files" /\ UNCHANGED clientField
    /\ UNCHANGED <<closed, serverSide, passphrase, unsure>>

(* It waits for the byte that tells of the failure, and gives up.          *)
NoFiles ==
    /\ client = "no_files"
    /\ \E read \in MayRead(toClient, 1) :
          /\ ClientReads(read, <<>>)
          /\ unsure' = (unsure \/ read # Byte("refused"))
    /\ client' = "prompt"
    /\ UNCHANGED <<closed, serverSide, passphrase, clientField>>

(* openTransfer: the result byte, then the parameters.  A byte that is no  *)
(* result is taken for one.                                                *)
FileResult ==
    /\ client = "result"
    /\ \E read \in MayRead(toClient, 1) :
          \/ /\ read # Byte("refused")
             /\ ClientReads(read, AllBytes(Parameters))
             /\ client' = "reply"
          \/ /\ read # Byte("ok")
             /\ ClientReads(read, <<>>)
             /\ client' = "prompt"
    /\ clientField' = 1
    /\ UNCHANGED <<closed, serverSide, passphrase, unsure>>

(* Any complete field will do, but the block size must be the client's.    *)
Acceptable(read) ==
    /\ Len(read) = 2
    /\ Reply[clientField] = "block_size" => read = Bytes("block_size")

(* A short read or another block size fails the command, and so does a     *)
(* local file that cannot be opened; otherwise openPort writes the port.   *)
FileReply ==
    /\ client = "reply"
    /\ \E read \in MayRead(toClient, 2) :
          \/ /\ Acceptable(read) /\ clientField < Len(Reply)
             /\ ClientReads(read, <<>>)
             /\ clientField' = clientField + 1
             /\ UNCHANGED <<client, unsure>>
          \/ /\ Acceptable(read) /\ clientField = Len(Reply)
             /\ ClientReads(read, Bytes("port"))
             /\ client' = "receive"
             /\ UNCHANGED <<clientField, unsure>>
          \/ /\ ~Acceptable(read) \/ clientField = Len(Reply)
             /\ ClientReads(read, <<>>)
             /\ client' = "prompt" /\ unsure' = TRUE
             /\ UNCHANGED clientField
    /\ UNCHANGED <<closed, serverSide, passphrase>>

(* The receive loop writes requests.  It is left by a break, of which the  *)
(* user is told nothing, or by an error; else it writes the stop request   *)
(* and waits for its disk thread, which ends once only.                    *)
Receive ==
    /\ client \in {"receive", "again"}
    /\ \/ /\ Len(toServer) + Len(toClient) <= MaxUnread
          /\ toServer' = toServer \o Bytes("request")
          /\ UNCHANGED <<client, unsure, astray>>
       \/ /\ toServer' = toServer \o Bytes("stop")
          /\ client' = IF client = "receive" THEN "flushing" ELSE "stuck"
          /\ UNCHANGED <<unsure, astray>>
       \/ /\ client' = "prompt" /\ unsure' \in {unsure, TRUE}
          /\ astray' = astray \union {"left"} /\ UNCHANGED toServer
    /\ UNCHANGED <<toClient, closed, passphrase, clientField, server, serverField,
                   misread, file, port, record>>

(* The file is written, and the loop starts over.                          *)
StartOver ==
    /\ client = "flushing" /\ client' = "again"
    /\ UNCHANGED <<toServer, toClient, closed, serverSide, passphrase, clientField, unsure>>

(* A block beyond the bitmap, or a transfer of less than a second in       *)
(* displayResult, ends the program.                                        *)
Crash ==
    /\ client \in {"receive", "flushing", "again"}
    /\ GoesOffline
    /\ UNCHANGED <<toServer, toClient, serverSide, passphrase, clientField, unsure>>

(* CommandDir reads the list and acknowledges it, unless what it reads is  *)
(* no list and does not begin with a number.                               *)
Listing ==
    /\ client = "listing"
    /\ \/ /\ toClient # <<>> /\ Head(toClient).of = "refused"
          /\ ClientReads(Byte("refused"), <<>>) /\ UNCHANGED unsure
       \/ /\ Len(toClient) >= 2 /\ Head(toClient).of # "refused"
          /\ ClientReads(SubSeq(toClient, 1, 2), Byte("ack")) /\ UNCHANGED unsure
       \/ /\ Len(toClient) >= 2 /\ Head(toClient).of \notin {"refused", "listing"}
          /\ ClientReads(SubSeq(toClient, 1, 2), <<>>) /\ unsure' = TRUE
    /\ client' = "prompt"
    /\ UNCHANGED <<closed, serverSide, passphrase, clientField>>

Close ==
    /\ client = "prompt"
    /\ GoesOffline
    /\ UNCHANGED <<toServer, toClient, serverSide, passphrase, clientField, unsure>>

ClientReadFails ==
    /\ "server" \in closed /\ toClient = <<>>
    /\ \/ /\ client \in {"revision", "challenge", "status"}
          /\ GoesOffline /\ UNCHANGED unsure
       \/ /\ client \in {"result", "reply", "counts", "no_files", "listing"}
          /\ client' = "prompt" /\ unsure' = TRUE /\ UNCHANGED closed
    /\ UNCHANGED <<toServer, toClient, serverSide, passphrase, clientField>>

ClientAnswers ==
    \/ Authenticating \/ FileResult \/ FileReply \/ TakeCounts \/ NoFiles
    \/ Listing \/ ClientReadFails

Next ==
    \/ Server \/ ClientAnswers \/ Connect \/ Get \/ GetAll \/ Dir
    \/ Receive \/ StartOver \/ Crash \/ Close

(* Both processes run while their reads can return; the user need not type *)
(* and blocks need not arrive.                                             *)
Spec == Init /\ [][Next]_vars /\ WF_vars(Server) /\ WF_vars(ClientAnswers)
-----------------------------------------------------------------------------
(* Properties                                                              *)

Serving == {"name", "ack", "sizes", "empty_hook", "names", "first_name", "parameters",
            "port", "transfer"}
Receiving == {"receive", "flushing", "again", "stuck"}
Connected ==
    {"prompt", "result", "reply", "counts", "no_files", "listing"} \union Receiving

Token == [of : Files \union Missing \union Words, part : {1, 2}]

TypeOK ==
    /\ client \in Connected \union {"offline", "revision", "challenge", "status"}
    /\ server \in Serving \union {"negotiate", "authenticate", "closed"}
    /\ toServer \in Seq(Token) /\ toClient \in Seq(Token)
    /\ closed \subseteq {"client", "server"}
    /\ passphrase \in BOOLEAN /\ file \in BOOLEAN /\ unsure \in BOOLEAN
    /\ clientField \in 1 .. Len(Reply) /\ serverField \in 1 .. Len(Parameters)
    /\ astray \subseteq {"listed", "cut", "left"} /\ misread \subseteq Range(Parameters)
    /\ record \in Seq(Token) /\ Len(record) <= 1
    /\ port \in Seq(Token) /\ Len(port) <= 2

(* However the streams are cut, and across refused and repeated attempts,  *)
(* neither side comes to the commands without the shared secret, and the   *)
(* client never before the server has accepted it.                         *)
SecretIsShared ==
    /\ server \in Serving => passphrase
    /\ client \in Connected => passphrase /\ server \in Serving \union {"closed"}


(* As long as the client is in the receive loop, and after the stop too, a *)
(* server in the transfer has understood the client's parameters and its   *)
(* port (protocol.go:254-259 of the server), after refusals and get *, if  *)
(* TCP has not cut a field and no earlier transfer or command was left.    *)
TransferAsAgreed ==
    server = "transfer" /\ client \in Receiving /\ astray = {} /\ ~unsure =>
        misread = {} /\ port = Bytes("port")

(* protocol.go:188-189 of the client: the server is waiting for the name   *)
(* of a file when one is requested, if on this connection no list was      *)
(* acknowledged, no command given up, and no receive loop left: after a    *)
(* break the server is still in the transfer, and takes the name for a     *)
(* request.                                                                *)
ServerAwaitsName ==
    client = "result" /\ ~unsure /\ {"listed", "left"} \intersect astray = {}
        => server \in {"name", "ack", "parameters", "closed"}

(* The same on a connection on which lists have been sent.                 *)
ServerAwaitsNameAfterList ==
    client = "result" /\ ~unsure /\ "left" \notin astray
        => server \in {"name", "ack", "parameters", "closed"}
=============================================================================

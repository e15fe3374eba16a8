------------------------------ MODULE Transfers ------------------------------
(***************************************************************************)
(* Successive get commands of one client (CommandGet and getSingleFile,    *)
(* client/command_get.go) and the disk threads they leave behind.          *)
(*                                                                         *)
(* The network thread of a get works on the transfer it has made; the disk *)
(* thread asks for session.tr anew in every call.  A get left by a break   *)
(* or an error neither stops its disk thread nor closes its file, so the   *)
(* next get of the session puts another transfer under the thread's hands. *)
(*                                                                         *)
(* What the receive loop inserts and when it ends is decided in GetFile;   *)
(* here it may insert any datagram, flush or end at any time.  A ring is   *)
(* the sequence of its datagrams.  peek() slices the ring at a wrong       *)
(* address (DiskThread): what it returns is the stop block or another.     *)
(***************************************************************************)
EXTENDS Integers, Sequences, FiniteSets

CONSTANTS
    MaxTransfers,  \* bound: gets typed
    MaxSessions,   \* bound: connects typed
    MaxQueued      \* bound: blocks inserted into a ring that holds fewer

ASSUME TransfersAssumption ==
    MaxTransfers \in Nat /\ MaxSessions \in Nat /\ MaxQueued \in Nat

VARIABLES
    command,    \* where the command is
    session,    \* the client's session, 0 before the first connect
    tr,         \* per session, its transfer: session.tr
    owner,      \* per transfer, the session it was made in
    ring,       \* per transfer, xfer.ringBuffer
    localFile,  \* per transfer, xfer.localFile
    disk,       \* per transfer, where the disk thread is that its get started
    on,         \* ... and the transfer whose ring it has looked into
    overtaken,  \* history: threads still at work when the next get began
    strayed     \* history: pairs of a thread and a transfer other than its
                \* own whose ring or file it has used

commandVars == <<command, session, tr, owner>>
diskVars == <<disk, on, strayed>>
vars == <<command, session, tr, owner, ring, localFile, disk, on, overtaken, strayed>>

Transfer == 1 .. MaxTransfers
Made == Len(owner)                 \* the transfers made so far

nil == <<"nil">>                   \* no ring
Block == "block"
Stop == "stop"

Init ==
    /\ command = "prompt" /\ session = 0
    /\ tr = [s \in 1 .. MaxSessions |-> 0] /\ owner = <<>>
    /\ ring = [t \in Transfer |-> nil]
    /\ localFile = [t \in Transfer |-> "nil"]
    /\ disk = [t \in Transfer |-> "none"] /\ on = [t \in Transfer |-> 0]
    /\ overtaken = {} /\ strayed = {}
-----------------------------------------------------------------------------
(* The command thread.  An accepted connect makes a new session.           *)
Connect ==
    /\ command = "prompt" /\ session < MaxSessions
    /\ session' = session + 1
    /\ UNCHANGED <<command, tr, owner, ring, localFile, diskVars, overtaken>>

(* Asleep in peek(), for as long as nobody confirms anything in its ring.  *)
Asleep(t) == disk[t] = "peek" /\ on[t] = t /\ ring[t] = <<>>
Ended(t) == disk[t] \in {"none", "send", "dead"}

Get ==
    /\ command = "prompt" /\ session > 0 /\ Made < MaxTransfers
    /\ command' = "opening"
    /\ owner' = Append(owner, session)
    /\ tr' = [tr EXCEPT ![session] = Made + 1]
    /\ overtaken' = overtaken \union
           {t \in 1 .. Made : owner[t] = session /\ ~Asleep(t) /\ ~Ended(t)}
    /\ UNCHANGED <<session, ring, localFile, diskVars>>

(* openTransfer and openPort; the latter fails with the file open.         *)
Open ==
    /\ command = "opening"
    /\ \/ /\ localFile' = [localFile EXCEPT ![Made] = "open"]
          /\ command' \in {"opened", "prompt"}
       \/ /\ command' = "prompt" /\ UNCHANGED localFile
    /\ UNCHANGED <<session, tr, owner, ring, diskVars, overtaken>>

(* The ring is made and the disk thread started.                           *)
Start ==
    /\ command = "opened" /\ command' = "receiving"
    /\ ring' = [ring EXCEPT ![Made] = <<>>]
    /\ disk' = [disk EXCEPT ![Made] = "top"]
    /\ UNCHANGED <<session, tr, owner, localFile, on, overtaken, strayed>>

InsertIntoFirst ==                       \* variant: the ring of the first get
    /\ command = "receiving" /\ Len(ring[1]) < MaxQueued
    /\ ring[1] # nil
    /\ ring' = [ring EXCEPT ![1] = Append(@, Block)]
    /\ UNCHANGED <<commandVars, localFile, diskVars, overtaken>>

Insert ==
    /\ command = "receiving" /\ Len(ring[Made]) < MaxQueued
    /\ ring' = [ring EXCEPT ![Made] = Append(@, Block)]
    /\ UNCHANGED <<commandVars, localFile, diskVars, overtaken>>

(* A break or an error, wherever in the loop.                              *)
Leave ==
    /\ command = "receiving" /\ command' = "prompt"
    /\ UNCHANGED <<session, tr, owner, ring, localFile, diskVars, overtaken>>

Flush ==
    /\ command = "receiving" /\ command' = "join"
    /\ ring' = [ring EXCEPT ![Made] = Append(@, Stop)]
    /\ UNCHANGED <<session, tr, owner, localFile, diskVars, overtaken>>

JoinNobody ==                            \* variant: the flag is not waited for
    /\ command = "join" /\ command' = "finish"
    /\ UNCHANGED <<session, tr, owner, ring, localFile, diskVars, overtaken>>

(* flag := <-ch, the channel of this get's thread.                         *)
Join ==
    /\ command = "join" /\ disk[Made] = "send"
    /\ disk' = [disk EXCEPT ![Made] = "dead"]
    /\ command' = "finish"
    /\ UNCHANGED <<session, tr, owner, ring, localFile, on, overtaken, strayed>>

(* The results, which may crash the client, and the file; then the loop.   *)
Finish ==
    /\ command = "finish"
    /\ \/ /\ command' = "receiving"
          /\ localFile' = [localFile EXCEPT ![Made] = "nil"]
       \/ command' = "crashed" /\ UNCHANGED localFile
    /\ UNCHANGED <<session, tr, owner, ring, diskVars, overtaken>>
-----------------------------------------------------------------------------
(* The disk threads.                                                       *)

CurrentOfClient(t) ==                    \* variant: of the client's session
    IF tr[session] # 0 THEN tr[session] ELSE t
Current(t) == tr[owner[t]]               \* session.tr

Note(t, used) ==
    strayed' = IF used = t THEN strayed ELSE strayed \union {<<t, used>>}

(* The receiver of peek() and pop(): session.tr.ringBuffer.  A nil one     *)
(* crashes the client.                                                     *)
CallRing(t, here, there) ==
    /\ disk[t] = here
    /\ \/ /\ ring[Current(t)] # nil
          /\ disk' = [disk EXCEPT ![t] = there]
          /\ on' = [on EXCEPT ![t] = Current(t)]
          /\ UNCHANGED command
       \/ /\ ring[Current(t)] = nil
          /\ command' = "crashed"
          /\ UNCHANGED <<disk, on>>
    /\ Note(t, Current(t))
    /\ UNCHANGED <<session, tr, owner, ring, localFile, overtaken>>

CallPeek(t) == CallRing(t, "top", "peek")
CallPop(t) == CallRing(t, "accepted", "pop")

(* peek() waits for data; the zero block ends the thread.                  *)
Peek(t) ==
    /\ disk[t] = "peek" /\ ring[on[t]] # <<>>
    /\ \E there \in {"accept", "send"} : disk' = [disk EXCEPT ![t] = there]
    /\ UNCHANGED <<commandVars, ring, localFile, on, overtaken, strayed>>

(* accept_block writes to the file of session.tr, if that is open.         *)
Accept(t) ==
    /\ disk[t] = "accept"
    /\ \/ /\ localFile[Current(t)] = "open"
          /\ disk' = [disk EXCEPT ![t] = "accepted"]
       \/ disk' = [disk EXCEPT ![t] = "send"]
    /\ Note(t, Current(t))
    /\ UNCHANGED <<commandVars, ring, localFile, on, overtaken>>

PopKeeping(t) ==                         \* variant: the block stays
    /\ disk[t] = "pop" /\ ring[on[t]] # <<>>
    /\ disk' = [disk EXCEPT ![t] = "top"]
    /\ UNCHANGED <<commandVars, ring, localFile, on, overtaken, strayed>>

Pop(t) ==
    /\ disk[t] = "pop" /\ ring[on[t]] # <<>>
    /\ ring' = [ring EXCEPT ![on[t]] = Tail(@)]
    /\ disk' = [disk EXCEPT ![t] = "top"]
    /\ UNCHANGED <<commandVars, localFile, on, overtaken, strayed>>

Disk(t) ==
    /\ command # "crashed" /\ t <= Made
    /\ CallPeek(t) \/ Peek(t) \/ Accept(t) \/ CallPop(t) \/ Pop(t)

Next ==
    \/ Connect \/ Get \/ Open \/ Start \/ Insert \/ Leave \/ Flush \/ Join \/ Finish
    \/ \E t \in Transfer : Disk(t)

(* The goroutines are scheduled; the user need not type.                   *)
Spec == Init /\ [][Next]_vars /\ \A t \in Transfer : WF_vars(Disk(t))
-----------------------------------------------------------------------------
(* Properties                                                              *)

TypeOK ==
    /\ command \in {"prompt", "opening", "opened", "receiving", "join", "finish", "crashed"}
    /\ session \in 0 .. MaxSessions
    /\ tr \in [1 .. MaxSessions -> 0 .. Made]
    /\ owner \in Seq(1 .. MaxSessions) /\ Made <= MaxTransfers
    /\ ring \in [Transfer -> Seq({Block, Stop}) \union {nil}]
    /\ \A t \in Transfer : ring[t] = nil <=> disk[t] = "none"
    /\ localFile \in [Transfer -> {"nil", "open"}]
    /\ disk \in [Transfer -> {"none", "top", "peek", "accept", "accepted", "pop", "send", "dead"}]
    /\ on \in [Transfer -> 0 .. Made]
    /\ overtaken \subseteq 1 .. Made
    /\ strayed \subseteq (1 .. Made) \X (1 .. Made)

(* A disk thread left behind asleep does no harm to later gets, however    *)
(* many: only a thread that was still at work when the next get of its     *)
(* session began uses another transfer's ring or file, or calls a ring     *)
(* that is not made yet.                                                   *)
OnlyOvertakenStray == \A p \in strayed : p[1] \in overtaken

(* command_get.go:82: after a get that failed, reconnecting helps.  No     *)
(* thread of an earlier session gets at the transfers of the new one.      *)
ReconnectIsolates == \A p \in strayed : owner[p[1]] = owner[p[2]]

(* A file is never closed under the thread that was started for it,        *)
(* whatever the threads of earlier gets have done to its ring meanwhile.   *)
FileClosedBehindThread ==
    \A t \in 1 .. Made :
        disk[t] \in {"top", "peek", "accept", "accepted", "pop"} => localFile[t] = "open"

(* A get that is left with blocks in its ring has not lost them: the       *)
(* thread handles them all, or fails, unless another get begins, or a      *)
(* thread from before the last one shares the ring.                        *)
LeftBlocksHandled ==
    \A t \in Transfer :
        command = "prompt" /\ Made = t /\ disk[t] # "none" /\ overtaken = {}
            ~> Asleep(t) \/ Ended(t) \/ command # "prompt"
=============================================================================

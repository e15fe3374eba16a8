-------------------------- MODULE TransfersProofs --------------------------
(***************************************************************************)
(* Proofs about Transfers for every number of gets, sessions and queued    *)
(* blocks: the types, that a disk thread left asleep stays out of later    *)
(* gets, that the gets of another session are out of its reach, and that   *)
(* no file is closed under its own disk thread.                            *)
(***************************************************************************)
EXTENDS Transfers, TLAPS

Session == 1 .. MaxSessions

(* session.tr is the latest transfer that was made in the session.         *)
Sessions ==
    /\ \A s \in Session : tr[s] # 0 => owner[tr[s]] = s
    /\ \A t \in 1 .. Made : tr[owner[t]] # 0
    /\ Made > 0 => Current(Made) = Made

(* What the command has done for its transfer, and nothing for later ones. *)
Stage ==
    /\ command \notin {"prompt", "crashed"} => Made > 0
    /\ command \in {"receiving", "join", "finish"} => disk[Made] # "none"
    /\ command = "opened" => localFile[Made] = "open"
    /\ command = "finish" => disk[Made] = "dead"
    /\ \A t \in Transfer : t > Made => disk[t] = "none"

(* A thread within a call of the ring has found one.                       *)
Looks ==
    \A t \in Transfer : disk[t] \in {"peek", "pop"} => on[t] \in 1 .. Made /\ ring[on[t]] # nil

(* A thread that nobody has overtaken at work is on its own transfer,      *)
(* asleep in its own ring, or has ended.                                   *)
AtHome ==
    \A t \in 1 .. Made : t \notin overtaken => Current(t) = t \/ Asleep(t) \/ Ended(t)

Inv ==
    /\ TypeOK /\ Sessions /\ Stage /\ Looks /\ AtHome
    /\ OnlyOvertakenStray /\ ReconnectIsolates /\ FileClosedBehindThread
-----------------------------------------------------------------------------
(* Types.                                                                  *)
LEMMA Indices ==
    ASSUME TypeOK
    PROVE  /\ Made \in 0 .. MaxTransfers
           /\ \A t \in 1 .. Made : t \in Transfer /\ owner[t] \in Session
  BY TransfersAssumption DEF TypeOK, Made, Transfer, Session

LEMMA CurrentIsMade ==
    ASSUME TypeOK, Sessions, NEW t \in 1 .. Made
    PROVE  Current(t) \in 1 .. Made /\ owner[Current(t)] = owner[t]
  <1>1. owner[t] \in Session /\ Made \in Nat
    BY Indices, TransfersAssumption
  <1>2. tr[owner[t]] \in 0 .. Made
    BY <1>1 DEF TypeOK, Session
  <1> QED BY <1>1, <1>2 DEF Sessions, Current

(* A ring is a sequence of datagrams; no ring is none of them.             *)
LEMMA NilIsNoRing == ASSUME NEW q \in Seq({Block, Stop}) PROVE q # nil
  <1>1. SUFFICES ASSUME q = nil PROVE FALSE
    OBVIOUS
  <1>2. q[1] \in {Block, Stop} /\ q[1] = "nil"
    BY <1>1 DEF nil
  <1> QED BY <1>2 DEF Block, Stop

LEMMA InitInv == ASSUME Init PROVE Inv
  <1>1. Made = 0 /\ owner \in Seq(Session)
    BY DEF Init, Made
  <1>2. TypeOK
    BY <1>1, TransfersAssumption DEF Init, TypeOK, Session
  <1>3. Sessions /\ Stage /\ Looks /\ AtHome
    BY <1>1 DEF Init, Sessions, Stage, Looks, AtHome, Session
  <1>4. OnlyOvertakenStray /\ ReconnectIsolates /\ FileClosedBehindThread
    BY <1>1 DEF Init, OnlyOvertakenStray, ReconnectIsolates, FileClosedBehindThread
  <1> QED BY <1>2, <1>3, <1>4 DEF Inv
-----------------------------------------------------------------------------
(* The command thread keeps the invariant.                                 *)
LEMMA ConnectInv == ASSUME Inv, Connect PROVE Inv'
  <1>1. /\ UNCHANGED <<command, tr, owner, ring, localFile, disk, on, strayed, overtaken>>
        /\ Made' = Made
    BY DEF Connect, diskVars, Made
  <1>2. TypeOK'
    BY <1>1, TransfersAssumption DEF Inv, Connect, TypeOK
  <1>3. Sessions' /\ Stage' /\ Looks' /\ AtHome'
    BY <1>1 DEF Inv, Sessions, Stage, Looks, AtHome, Current, Asleep, Ended
  <1>4. OnlyOvertakenStray' /\ ReconnectIsolates' /\ FileClosedBehindThread'
    BY <1>1 DEF Inv, OnlyOvertakenStray, ReconnectIsolates, FileClosedBehindThread
  <1> QED BY <1>2, <1>3, <1>4 DEF Inv

(* A get makes the latest transfer of its session, and notes the threads   *)
(* of the session that are at work on others.                              *)
LEMMA GetInv == ASSUME Inv, Get PROVE Inv'
  <1> USE DEF Inv
  <1> DEFINE made == Made + 1
  <1>1. /\ owner \in Seq(Session) /\ session \in Session /\ Made \in Nat
        /\ Made' = made /\ made \in Transfer /\ made > 0
        /\ 1 .. made = (1 .. Made) \union {made}
    BY TransfersAssumption DEF Get, TypeOK, Made, Session, Transfer
  <1>2. /\ owner' \in Seq(Session) /\ owner'[made] = session
        /\ \A t \in 1 .. Made : owner'[t] = owner[t] /\ owner[t] \in Session
    BY <1>1 DEF Get, Made
  <1>3. /\ tr' \in [Session -> 0 .. made] /\ tr'[session] = made
        /\ \A s \in Session \ {session} : tr'[s] = tr[s]
    BY <1>1 DEF Get, TypeOK, Session
  <1>4. /\ UNCHANGED <<session, ring, localFile, disk, on, strayed>> /\ command' = "opening"
        /\ overtaken' = overtaken \union
               {t \in 1 .. Made : owner[t] = session /\ ~Asleep(t) /\ ~Ended(t)}
    BY DEF Get, diskVars
  <1>5. TypeOK'
    <2>1. strayed' \subseteq (1 .. made) \X (1 .. made) /\ overtaken' \subseteq 1 .. made
      BY <1>1, <1>4 DEF TypeOK
    <2>2. on' \in [Transfer -> 0 .. made]
      BY <1>1, <1>4 DEF TypeOK
    <2> QED BY <1>1, <1>2, <1>3, <1>4, <2>1, <2>2 DEF TypeOK, Session, Transfer
  <1>6. Sessions'
    <2>1. ASSUME NEW s \in Session, tr'[s] # 0 PROVE owner'[tr'[s]] = s
      <3>1. CASE s = session
        BY <1>2, <1>3, <3>1
      <3>2. CASE s # session
        <4>1. tr'[s] = tr[s] /\ tr[s] # 0 /\ tr[s] \in 0 .. Made
          BY <1>3, <2>1, <3>2 DEF TypeOK, Session
        <4>2. tr[s] \in 1 .. Made /\ owner[tr[s]] = s
          BY <1>1, <2>1, <4>1 DEF Sessions
        <4> QED BY <1>2, <4>1, <4>2
      <3> QED BY <3>1, <3>2
    <2>2. ASSUME NEW t \in 1 .. made PROVE tr'[owner'[t]] # 0
      <3>1. CASE t = made
        BY <1>1, <1>2, <1>3, <3>1
      <3>2. CASE t \in 1 .. Made /\ owner[t] # session
        <4>1. owner'[t] = owner[t] /\ owner[t] \in Session \ {session}
          BY <1>2, <3>2
        <4> QED BY <1>3, <3>2, <4>1 DEF Sessions
      <3>3. CASE t \in 1 .. Made /\ owner[t] = session
        BY <1>1, <1>2, <1>3, <3>3
      <3> QED BY <1>1, <2>2, <3>1, <3>2, <3>3
    <2> QED BY <1>1, <1>2, <1>3, <2>1, <2>2 DEF Sessions, Current
  <1>7. Stage' /\ Looks'
    <2>1. \A t \in Transfer : t > made => disk'[t] = "none"
      BY <1>1, <1>4 DEF Stage, Transfer
    <2> QED BY <1>1, <1>4, <2>1 DEF Stage, Looks
  <1>8. AtHome'
    <2>1. SUFFICES ASSUME NEW t \in 1 .. made, t \notin overtaken'
                   PROVE  Current(t)' = t \/ Asleep(t)' \/ Ended(t)'
      BY <1>1 DEF AtHome
    <2>2. Asleep(t)' = Asleep(t) /\ Ended(t)' = Ended(t)
      BY <1>4 DEF Asleep, Ended
    <2>3. CASE t = made
      BY <1>2, <1>3, <2>3 DEF Current
    <2>4. CASE t \in 1 .. Made /\ owner[t] = session
      BY <1>4, <2>1, <2>2, <2>4
    <2>5. CASE t \in 1 .. Made /\ owner[t] # session
      BY <1>2, <1>3, <1>4, <2>1, <2>2, <2>5 DEF AtHome, Current
    <2> QED BY <1>1, <2>3, <2>4, <2>5
  <1>9. OnlyOvertakenStray' /\ ReconnectIsolates' /\ FileClosedBehindThread'
    <2>1. OnlyOvertakenStray'
      BY <1>4 DEF OnlyOvertakenStray
    <2>2. ReconnectIsolates'
      BY <1>2, <1>4 DEF ReconnectIsolates, TypeOK
    <2>3. FileClosedBehindThread'
      BY <1>1, <1>4 DEF FileClosedBehindThread, Stage
    <2> QED BY <2>1, <2>2, <2>3
  <1> QED BY <1>5, <1>6, <1>7, <1>8, <1>9

LEMMA OpenInv == ASSUME Inv, Open PROVE Inv'
  <1> USE DEF Inv
  <1>1. Made \in Transfer /\ Made' = Made
    BY Indices DEF Open, Stage, Made, Transfer
  <1>2. /\ UNCHANGED <<session, tr, owner, ring, disk, on, strayed, overtaken>>
        /\ \A t \in Transfer : localFile[t] = "open" => localFile'[t] = "open"
    BY <1>1 DEF Open, diskVars, TypeOK
  <1>3. TypeOK' /\ Stage'
    BY <1>1 DEF Open, diskVars, TypeOK, Stage
  <1> QED BY <1>1, <1>2, <1>3, Indices
          DEF Sessions, Looks, AtHome, OnlyOvertakenStray, ReconnectIsolates,
              FileClosedBehindThread, Current, Asleep, Ended

LEMMA StartInv == ASSUME Inv, Start PROVE Inv'
  <1> USE DEF Inv
  <1>1. Made \in Transfer /\ Made \in 1 .. Made /\ Made' = Made /\ Current(Made) = Made
    BY Indices DEF Start, Stage, Sessions, Made, Transfer
  <1>2. /\ UNCHANGED <<session, tr, owner, localFile, on, overtaken, strayed>>
        /\ ring' = [ring EXCEPT ![Made] = <<>>] /\ disk' = [disk EXCEPT ![Made] = "top"]
        /\ command' = "receiving" /\ localFile[Made] = "open"
    BY DEF Start, Stage
  <1>3. <<>> \in Seq({Block, Stop}) /\ <<>> # nil
    <2>1. <<>> \in Seq({Block, Stop})
      OBVIOUS
    <2> QED BY <2>1, NilIsNoRing
  <1>4. TypeOK'
    <2>1. ASSUME NEW t \in Transfer
          PROVE  /\ ring'[t] \in Seq({Block, Stop}) \union {nil}
                 /\ ring'[t] = nil <=> disk'[t] = "none"
      BY <1>2, <1>3 DEF TypeOK
    <2>2. disk' \in [Transfer -> {"none", "top", "peek", "accept", "accepted", "pop", "send", "dead"}]
      BY <1>2 DEF TypeOK
    <2>3. ring' \in [Transfer -> Seq({Block, Stop}) \union {nil}]
      BY <1>2, <2>1 DEF TypeOK
    <2> QED BY <1>1, <1>2, <2>1, <2>2, <2>3 DEF TypeOK
  <1>5. Sessions' /\ Stage'
    BY <1>1, <1>2 DEF Sessions, Stage, TypeOK, Current
  <1>6. Looks'
    BY <1>1, <1>2, <1>3, Indices DEF Looks, TypeOK
  <1>7. AtHome'
    BY <1>1, <1>2, Indices DEF AtHome, Current, Asleep, Ended, TypeOK
  <1>8. OnlyOvertakenStray' /\ ReconnectIsolates' /\ FileClosedBehindThread'
    BY <1>1, <1>2, Indices DEF OnlyOvertakenStray, ReconnectIsolates, FileClosedBehindThread,
                               TypeOK
  <1> QED BY <1>4, <1>5, <1>6, <1>7, <1>8

(* A datagram more in the ring of the latest transfer disturbs nobody's    *)
(* sleep but that of the transfer's own thread.                            *)
LEMMA AppendInv ==
    ASSUME Inv, command = "receiving", command' \in {"receiving", "join"},
           NEW datagram \in {Block, Stop},
           ring' = [ring EXCEPT ![Made] = Append(@, datagram)],
           UNCHANGED <<session, tr, owner, localFile, diskVars, overtaken>>
    PROVE  Inv'
  <1> USE DEF Inv
  <1>1. /\ Made \in Transfer /\ Made \in 1 .. Made /\ Made' = Made
        /\ Current(Made) = Made /\ disk[Made] # "none"
    BY Indices DEF Stage, Sessions, Made, Transfer
  <1>2. UNCHANGED <<session, tr, owner, localFile, disk, on, strayed, overtaken>>
    BY DEF diskVars
  <1>3. ring[Made] \in Seq({Block, Stop})
    BY <1>1 DEF TypeOK
  <1>4. Append(ring[Made], datagram) \in Seq({Block, Stop})
    BY <1>3
  <1>5. ring'[Made] # nil /\ \A t \in Transfer \ {Made} : ring'[t] = ring[t]
    BY <1>1, <1>4, NilIsNoRing DEF TypeOK
  <1>6. TypeOK'
    <2>1. ring' \in [Transfer -> Seq({Block, Stop}) \union {nil}]
      BY <1>1, <1>4 DEF TypeOK
    <2>2. \A t \in Transfer : ring'[t] = nil <=> disk[t] = "none"
      BY <1>1, <1>5 DEF TypeOK
    <2> QED BY <1>1, <1>2, <2>1, <2>2 DEF TypeOK
  <1>7. Sessions' /\ Stage'
    BY <1>1, <1>2 DEF Sessions, Stage, Current
  <1>8. Looks'
    BY <1>1, <1>2, <1>5, Indices DEF Looks
  <1>9. AtHome'
    BY <1>1, <1>2, <1>5, Indices DEF AtHome, Current, Asleep, Ended
  <1>10. OnlyOvertakenStray' /\ ReconnectIsolates' /\ FileClosedBehindThread'
    BY <1>1, <1>2 DEF OnlyOvertakenStray, ReconnectIsolates, FileClosedBehindThread
  <1> QED BY <1>6, <1>7, <1>8, <1>9, <1>10

LEMMA LeaveInv == ASSUME Inv, Leave PROVE Inv'
  <1> USE DEF Inv
  <1>1. Made' = Made /\ UNCHANGED <<session, tr, owner, ring, localFile, disk, on, strayed, overtaken>>
    BY DEF Leave, diskVars, Made
  <1>2. TypeOK' /\ Sessions' /\ Stage' /\ Looks' /\ AtHome'
    BY <1>1 DEF Leave, TypeOK, Sessions, Stage, Looks, AtHome, Current, Asleep, Ended
  <1> QED BY <1>1, <1>2
          DEF OnlyOvertakenStray, ReconnectIsolates, FileClosedBehindThread

(* The thread has ended before the file is closed.                         *)
LEMMA FinishInv == ASSUME Inv, Finish PROVE Inv'
  <1> USE DEF Inv
  <1>1. /\ Made \in Transfer /\ Made' = Made /\ disk[Made] = "dead"
        /\ UNCHANGED <<session, tr, owner, ring, disk, on, strayed, overtaken>>
    BY Indices DEF Finish, Stage, Made, Transfer, diskVars
  <1>2. \A t \in Transfer \ {Made} : localFile'[t] = localFile[t]
    BY <1>1 DEF Finish, TypeOK
  <1>3. TypeOK' /\ Stage'
    BY <1>1 DEF Finish, TypeOK, Stage
  <1>4. FileClosedBehindThread'
    BY <1>1, <1>2, Indices DEF FileClosedBehindThread
  <1>5. Sessions' /\ Looks' /\ AtHome'
    BY <1>1 DEF Sessions, Looks, AtHome, Current, Asleep, Ended
  <1> QED BY <1>1, <1>3, <1>4, <1>5 DEF OnlyOvertakenStray, ReconnectIsolates
-----------------------------------------------------------------------------
Place == {"top", "peek", "accept", "accepted", "pop", "send", "dead"}

Strays(t) ==
    \/ strayed' = strayed
    \/ strayed' = strayed \union {<<t, Current(t)>>} /\ Current(t) # t

(* A thread that goes on to another place.  It stays within its calls, or  *)
(* ends; a sleeper does not move by itself.                                *)
Moves(t, there) ==
    /\ disk[t] \notin {"none", "dead"} /\ ~Asleep(t)
    /\ disk' = [disk EXCEPT ![t] = there]
    /\ disk[t] = "send" => there = "dead"
    /\ on' \in [Transfer -> 0 .. Made]
    /\ \A u \in Transfer \ {t} : on'[u] = on[u]
    /\ there \in {"peek", "pop"} => on'[t] \in 1 .. Made /\ ring[on'[t]] # nil
    /\ Strays(t) /\ (strayed' # strayed => ~Ended(t))
    /\ \/ command' = command
       \/ command = "join" /\ command' = "finish" /\ disk'[Made] = "dead"
    /\ UNCHANGED <<session, tr, owner, ring, localFile, overtaken>>

LEMMA DiskMoves ==
    ASSUME Inv, NEW t \in 1 .. Made, NEW there \in Place, Moves(t, there)
    PROVE  Inv'
  <1> USE DEF Inv, Moves, Strays
  <1>1. /\ t \in Transfer /\ Made' = Made /\ \A u \in Transfer \ {t} : disk'[u] = disk[u]
        /\ disk'[t] = there
    BY Indices DEF Made, TypeOK
  <1>2. Current(t) \in 1 .. Made /\ owner[Current(t)] = owner[t]
    BY CurrentIsMade
  <1>3. TypeOK'
    <2>1. strayed' \subseteq (1 .. Made) \X (1 .. Made)
      BY <1>2 DEF TypeOK
    <2>2. command' \in {"prompt", "opening", "opened", "receiving", "join", "finish", "crashed"}
      BY DEF TypeOK
    <2>3. disk' \in [Transfer -> {"none", "top", "peek", "accept", "accepted", "pop", "send", "dead"}]
      BY <1>1 DEF TypeOK, Place
    <2>4. \A u \in Transfer : ring[u] = nil <=> disk'[u] = "none"
      BY <1>1 DEF TypeOK, Place
    <2> QED BY <1>1, <2>1, <2>2, <2>3, <2>4 DEF TypeOK
  <1>4. Sessions'
    BY <1>1 DEF Sessions, Current
  <1>5. Stage'
    BY <1>1 DEF Stage, Place
  <1>6. Looks'
    BY <1>1 DEF Looks
  <1>7. AtHome'
    BY <1>1, Indices DEF AtHome, Current, Asleep, Ended, Place
  <1>8. OnlyOvertakenStray' /\ ReconnectIsolates'
    <2>1. \A p \in strayed' \ strayed : p = <<t, Current(t)>> /\ t \in overtaken
      BY DEF AtHome
    <2> QED BY <1>1, <1>2, <2>1 DEF OnlyOvertakenStray, ReconnectIsolates
  <1>9. FileClosedBehindThread'
    <2>1. there # "dead" => disk[t] \in {"top", "peek", "accept", "accepted", "pop"}
      BY <1>1 DEF TypeOK, Place
    <2> QED BY <1>1, <2>1, Indices DEF FileClosedBehindThread, Place
  <1> QED BY <1>3, <1>4, <1>5, <1>6, <1>7, <1>8, <1>9

LEMMA JoinInv == ASSUME Inv, Join PROVE Inv'
  <1>1. Made \in 1 .. Made /\ Made \in Transfer /\ on \in [Transfer -> 0 .. Made]
            /\ disk \in [Transfer -> {"none", "top", "peek", "accept", "accepted", "pop", "send", "dead"}]
    BY Indices DEF Inv, Join, Stage, Transfer, TypeOK
  <1>2. disk'[Made] = "dead" /\ "dead" \in Place
    BY <1>1 DEF Join, Place
  <1>3. ~Asleep(Made)
    BY DEF Join, Asleep
  <1> QED BY <1>1, <1>2, <1>3, DiskMoves DEF Join, Moves, Strays

(* A call of the ring of the session's transfer, or of none.               *)
LEMMA CallRingInv ==
    ASSUME Inv, NEW t \in 1 .. Made, NEW here \in {"top", "accepted"},
           NEW there \in {"peek", "pop"}, CallRing(t, here, there)
    PROVE  Inv'
  <1> USE DEF Inv
  <1>1. /\ Current(t) \in 1 .. Made /\ owner[Current(t)] = owner[t] /\ t \in Transfer
        /\ ~Asleep(t) /\ ~Ended(t) /\ on \in [Transfer -> 0 .. Made]
    BY CurrentIsMade, Indices DEF CallRing, Asleep, Ended, TypeOK
  <1>2. Strays(t)
    BY DEF CallRing, Note, Strays
  <1>3. CASE ring[Current(t)] # nil
    <2>1. /\ on' \in [Transfer -> 0 .. Made] /\ on'[t] = Current(t)
          /\ \A u \in Transfer \ {t} : on'[u] = on[u]
      BY <1>1, <1>3 DEF CallRing
    <2>2. /\ there \in Place /\ disk[t] \notin {"none", "dead", "send"}
          /\ disk' = [disk EXCEPT ![t] = there]
          /\ command' = command
          /\ UNCHANGED <<session, tr, owner, ring, localFile, overtaken>>
      BY <1>3 DEF CallRing, Place
    <2>3. Moves(t, there)
      BY <1>1, <1>2, <1>3, <2>1, <2>2 DEF Moves
    <2> QED BY <2>2, <2>3, DiskMoves
  <1>4. CASE ring[Current(t)] = nil
    <2>1. /\ Made' = Made /\ command' = "crashed"
          /\ UNCHANGED <<session, tr, owner, ring, localFile, disk, on, overtaken>>
      BY <1>4 DEF CallRing, Made
    <2>2. \A p \in strayed' \ strayed : p = <<t, Current(t)>> /\ t \in overtaken
      BY <1>1, <1>2 DEF AtHome, Strays
    <2>3. TypeOK'
      <3>1. strayed' \subseteq (1 .. Made) \X (1 .. Made)
        BY <1>1, <1>2 DEF TypeOK, Strays
      <3> QED BY <2>1, <3>1 DEF TypeOK
    <2>4. OnlyOvertakenStray' /\ ReconnectIsolates'
      BY <1>1, <2>1, <2>2 DEF OnlyOvertakenStray, ReconnectIsolates
    <2> QED BY <2>1, <2>3, <2>4
            DEF Sessions, Stage, Looks, AtHome, FileClosedBehindThread, Current, Asleep, Ended
  <1> QED BY <1>3, <1>4

LEMMA PeekInv == ASSUME Inv, NEW t \in 1 .. Made, Peek(t) PROVE Inv'
  <1>1. ~Asleep(t) /\ on \in [Transfer -> 0 .. Made]
    BY DEF Inv, TypeOK, Peek, Asleep
  <1>2. PICK there \in Place \ {"peek", "pop"} : disk' = [disk EXCEPT ![t] = there]
    BY DEF Peek, Place
  <1>3. /\ disk[t] = "peek"
        /\ UNCHANGED <<command, session, tr, owner, ring, localFile, on, overtaken, strayed>>
    BY DEF Peek, commandVars
  <1>4. Strays(t)
    BY <1>3 DEF Strays
  <1>5. Moves(t, there)
    BY <1>1, <1>2, <1>3, <1>4 DEF Moves
  <1> QED BY <1>5, DiskMoves

LEMMA AcceptInv == ASSUME Inv, NEW t \in 1 .. Made, Accept(t) PROVE Inv'
  <1>1. ~Asleep(t) /\ ~Ended(t) /\ on \in [Transfer -> 0 .. Made]
    BY DEF Inv, TypeOK, Accept, Asleep, Ended
  <1>2. PICK there \in Place \ {"peek", "pop"} : disk' = [disk EXCEPT ![t] = there]
    BY DEF Accept, Place
  <1>3. Strays(t)
    BY DEF Accept, Note, Strays
  <1>4. /\ disk[t] = "accept"
        /\ UNCHANGED <<command, session, tr, owner, ring, localFile, on, overtaken>>
    BY DEF Accept, commandVars
  <1>5. Moves(t, there)
    BY <1>1, <1>2, <1>3, <1>4 DEF Moves
  <1> QED BY <1>5, DiskMoves

(* A pop takes a datagram from a ring that holds one: from no sleeper's.   *)
LEMMA PopInv == ASSUME Inv, NEW t \in 1 .. Made, Pop(t) PROVE Inv'
  <1> USE DEF Inv
  <1> DEFINE r == on[t]
  <1>1. /\ t \in Transfer /\ r \in 1 .. Made /\ r \in Transfer /\ Made' = Made
        /\ ring[r] # nil /\ ring[r] # <<>>
    BY Indices DEF Pop, Looks, Made, commandVars
  <1>2. ring[r] \in Seq({Block, Stop}) /\ disk[r] # "none"
    BY <1>1 DEF TypeOK
  <1>3. Tail(ring[r]) \in Seq({Block, Stop})
    BY <1>1, <1>2
  <1>4. /\ UNCHANGED <<command, session, tr, owner, localFile, on, overtaken, strayed>>
        /\ \A u \in Transfer \ {t} : disk'[u] = disk[u]
        /\ disk[t] = "pop" /\ disk'[t] = "top"
    BY <1>1 DEF Pop, commandVars, TypeOK
  <1>5. ring'[r] # nil /\ \A u \in Transfer \ {r} : ring'[u] = ring[u]
    BY <1>1, <1>3, NilIsNoRing DEF Pop, TypeOK
  <1>6. TypeOK'
    <2>1. ring' \in [Transfer -> Seq({Block, Stop}) \union {nil}]
      BY <1>1, <1>3 DEF TypeOK, Pop
    <2>2. \A u \in Transfer : ring'[u] = nil <=> disk'[u] = "none"
      BY <1>1, <1>2, <1>4, <1>5 DEF TypeOK
    <2>3. disk' \in [Transfer -> {"none", "top", "peek", "accept", "accepted", "pop", "send", "dead"}]
      BY <1>1 DEF TypeOK, Pop
    <2> QED BY <1>1, <1>4, <2>1, <2>2, <2>3 DEF TypeOK
  <1>7. Sessions' /\ Stage'
    <2>1. Sessions'
      BY <1>1, <1>4 DEF Sessions, Current
    <2>2. \A u \in Transfer : u > Made => disk'[u] = "none"
      BY <1>1, <1>4, Indices DEF Stage
    <2>3. disk[Made] # "none" => disk'[Made] # "none"
      BY <1>1, <1>4, Indices DEF Transfer
    <2>4. disk[Made] = "dead" => disk'[Made] = "dead"
      BY <1>1, <1>4, Indices DEF Transfer
    <2> QED BY <1>1, <1>4, <2>1, <2>2, <2>3, <2>4 DEF Stage
  <1>8. Looks'
    BY <1>1, <1>4, <1>5, Indices DEF Looks
  <1>9. AtHome'
    BY <1>1, <1>4, <1>5, Indices DEF AtHome, Current, Asleep, Ended
  <1>10. OnlyOvertakenStray' /\ ReconnectIsolates' /\ FileClosedBehindThread'
    BY <1>1, <1>4, Indices DEF OnlyOvertakenStray, ReconnectIsolates, FileClosedBehindThread
  <1> QED BY <1>6, <1>7, <1>8, <1>9, <1>10
-----------------------------------------------------------------------------
LEMMA NextInv == ASSUME Inv, [Next]_vars PROVE Inv'
  <1>1. CASE Insert
    BY <1>1, AppendInv DEF Insert, commandVars
  <1>2. CASE Flush
    BY <1>2, AppendInv DEF Flush
  <1>3. CASE \E t \in Transfer : Disk(t)
    <2>1. PICK t \in Transfer : Disk(t)
      BY <1>3
    <2>2. t \in 1 .. Made
      BY <2>1, Indices DEF Inv, Disk, Transfer
    <2>3. CASE CallPeek(t) \/ CallPop(t)
      BY <2>2, <2>3, CallRingInv DEF CallPeek, CallPop
    <2> QED BY <2>1, <2>2, <2>3, PeekInv, AcceptInv, PopInv DEF Disk
  <1>4. CASE UNCHANGED vars
    <2>1. Made' = Made /\ UNCHANGED <<command, session, tr, owner, ring, localFile, disk, on,
                                      overtaken, strayed>>
      BY <1>4 DEF vars, Made
    <2>2. TypeOK' /\ Sessions' /\ Stage' /\ Looks' /\ AtHome'
      BY <2>1 DEF Inv, TypeOK, Sessions, Stage, Looks, AtHome, Current, Asleep, Ended
    <2> QED BY <2>1, <2>2
            DEF Inv, OnlyOvertakenStray, ReconnectIsolates, FileClosedBehindThread
  <1> QED BY <1>1, <1>2, <1>3, <1>4, ConnectInv, GetInv, OpenInv, StartInv, LeaveInv,
             JoinInv, FinishInv DEF Next

LEMMA InvHolds == Spec => []Inv
  <1>1. Init => Inv
    BY InitInv
  <1>2. Inv /\ [Next]_vars => Inv'
    BY NextInv
  <1> QED BY <1>1, <1>2, PTL DEF Spec

(* Whatever the gets and their threads do, the variables keep their types. *)
THEOREM TypesKept == Spec => []TypeOK
  <1>1. Inv => TypeOK
    BY DEF Inv
  <1> QED BY <1>1, InvHolds, PTL

(* A thread that slept when its get was left stays where it is, however    *)
(* many gets follow: no other get's blocks pass through it.                *)
THEOREM SleepersStay == Spec => []OnlyOvertakenStray
  <1>1. Inv => OnlyOvertakenStray
    BY DEF Inv
  <1> QED BY <1>1, InvHolds, PTL

(* Reconnecting puts an end to the threads' reach (command_get.go:82).     *)
THEOREM SessionsApart == Spec => []ReconnectIsolates
  <1>1. Inv => ReconnectIsolates
    BY DEF Inv
  <1> QED BY <1>1, InvHolds, PTL

(* The file a thread was started for stays open until the thread has       *)
(* ended.                                                                  *)
THEOREM FilesStayOpen == Spec => []FileClosedBehindThread
  <1>1. Inv => FileClosedBehindThread
    BY DEF Inv
  <1> QED BY <1>1, InvHolds, PTL
=============================================================================

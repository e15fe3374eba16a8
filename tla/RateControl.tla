---------------------------- MODULE RateControl ----------------------------
(***************************************************************************)
(* The control of the rate.  The client's updateStats (client/protocol.go) *)
(* condenses what an interval was like into an error rate and reports it;  *)
(* the server's AcceptRetransmit (server/protocol.go) moves the delay      *)
(* between two datagrams by the report, and the loop of Transfer sleeps so *)
(* as to keep that delay.                                                  *)
(*                                                                         *)
(* Time is counted in microseconds, and so is the server's delay, a        *)
(* float64 of which the loop takes the whole microseconds.  Quotients are  *)
(* rounded down; a division of a float by zero gives an infinity or no     *)
(* number, which the code's comparisons turn into the longest delay, or    *)
(* into the shortest when it is negative.  The heartbeat block is dead     *)
(* (see ServerTransfer), and the statistics that are only shown are left   *)
(* out.                                                                    *)
(*                                                                         *)
(* updateStats follows repeatRetransmit, which counts the requests of the  *)
(* interval anew.  In the receive loop as it stands the statistics come    *)
(* after fifty datagrams of a transfer that ends with the first (GetFile); *)
(* what is checked here is the control the two functions implement.        *)
(***************************************************************************)
EXTENDS Integers, Sequences

CONSTANTS
    Params,        \* what clients send with their requests
    SECOND,        \* in microseconds
    MAX_IPD,       \* the longest delay a report leads to, in microseconds
    FULL,          \* an error rate of 100 %
    UINT,          \* 2^32, scaled down
    END_WAIT,      \* how many longest waits follow the last block
    Requested,     \* how many blocks an interval has asked for again ...
    Blocks,        \* ... and has received
    MaxWait,       \* bound: a Read or a Sleep takes up to so much longer
    MaxBehind,     \* bound: nobody dawdles when this late
    MaxAhead,      \* bound: no write fails when this early
    MaxReports,    \* bound: reports written and not yet read
    MaxErrorRate   \* bound: a filter that diverges is followed so far

ASSUME RateAssumption ==
    /\ Params \subseteq [target_rate : Nat \ {0}, block_size : Nat \ {0},
                         error_rate : Nat, history : Nat,
                         slower_num : Nat, slower_den : Nat,
                         faster_num : Nat, faster_den : Nat]
    /\ SECOND \in Nat /\ MAX_IPD \in Nat /\ FULL \in Nat /\ END_WAIT \in Nat
    /\ UINT \in Nat \ {0} /\ FULL < UINT
    /\ Requested \subseteq Nat /\ Blocks \subseteq Nat
    /\ MaxWait \in Nat /\ MaxBehind \in Nat /\ MaxAhead \in Nat
    /\ MaxReports \in Nat /\ MaxErrorRate \in Nat

VARIABLES
    param,          \* the parameters of the transfer
    errorRate,      \* the client's filtered error rate
    reports,        \* the error rates written and not yet read
    connected,
    ipd_current,    \* the server's delay
    ipd_time,       \* the loop's: how long to sleep
    ipd_time_max,   \* the longest of them so far
    elapsed,        \* the time since prevpacketT
    terminate,      \* block_type: this iteration has sent the last block
    pc,             \* "top", "read", "sleep" or "panicked"
    skipped,        \* history: the latest iteration has not slept
    behind          \* history: the time since the start, less the delays of
                    \* all iterations

loopVars == <<ipd_time, ipd_time_max, elapsed, terminate, pc, skipped, behind>>
vars == <<param, errorRate, reports, connected, ipd_current, ipd_time,
          ipd_time_max, elapsed, terminate, pc, skipped, behind>>

(* The delay that gives the target rate, and the first one, both uint32.   *)
TargetDelay == ((8 * SECOND * param.block_size) \div param.target_rate) % UINT
FirstDelay == (3 * TargetDelay) % UINT

Init ==
    /\ param \in Params
    /\ errorRate = 0 /\ reports = <<>> /\ connected = TRUE
    /\ ipd_current = FirstDelay
    /\ ipd_time = 0 /\ ipd_time_max = 0 /\ elapsed = 0
    /\ terminate = FALSE /\ pc = "top" /\ skipped = FALSE /\ behind = 0
-----------------------------------------------------------------------------
(* The client.                                                             *)

(* The filter: history percent of the old rate, the rest from the share of *)
(* requests among them and the blocks, and from the filling of the ring,   *)
(* here empty, or full.  A history beyond 100, which the set command takes *)
(* as well, has it diverge, on either side of zero.                        *)
FractionOfBlocks(requested, blocks) ==         \* variant: of the blocks alone
    (FULL * requested) \div (1 + blocks)
RetransmitsFraction(requested, blocks) ==      \* in units of FULL
    (FULL * requested) \div (1 + requested + blocks)

Filtered(requested, blocks, ringFull) ==
    LET fraction == RetransmitsFraction(requested, blocks) + (IF ringFull THEN FULL ELSE 0)
    IN  (2 * param.history * errorRate + (100 - param.history) * fraction) \div 200

(* What becomes of a float64 that no uint32 can hold is the processor's    *)
(* choice: its low bits, or the nearest uint32.                            *)
Converted(rate) ==
    IF rate \in 0 .. UINT - 1 THEN {rate}
    ELSE {rate % UINT, IF rate < 0 THEN 0 ELSE UINT - 1}

(* updateStats.  When the write fails the rate has been filtered all the   *)
(* same.                                                                   *)
UpdateStats ==
    /\ Len(reports) < MaxReports
    /\ \E requested \in Requested, blocks \in Blocks, ringFull \in BOOLEAN :
          errorRate' = Filtered(requested, blocks, ringFull)
    /\ errorRate' \in -MaxErrorRate .. MaxErrorRate
    /\ IF connected THEN \E rate \in Converted(errorRate') : reports' = Append(reports, rate)
       ELSE UNCHANGED reports
    /\ UNCHANGED <<param, connected, ipd_current, loopVars>>

Disconnect ==
    /\ connected /\ connected' = FALSE
    /\ UNCHANGED <<param, errorRate, reports, ipd_current, loopVars>>
-----------------------------------------------------------------------------
(* The server's delay.                                                     *)

(* The differences of the rates are taken in 32 bits.                      *)
Slower(rate) ==
    LET more == param.slower_num - param.slower_den
        over == (1 + rate - param.error_rate) % UINT
        left == (FULL - param.error_rate) % UINT
    IN  CASE param.slower_den = 0 -> MAX_IPD
          [] param.slower_den # 0 /\ left = 0 ->
                IF ipd_current * more * over < 0 THEN 0 ELSE MAX_IPD
          [] OTHER ->
                ipd_current + (ipd_current * more * over) \div (param.slower_den * left)

Faster ==
    IF param.faster_den = 0 THEN MAX_IPD
    ELSE (ipd_current * param.faster_num) \div param.faster_den

ClampedAbove(delay) == IF delay < MAX_IPD THEN delay ELSE MAX_IPD     \* variant
(* At most MAX_IPD, but never less than the target rate asks for.          *)
Clamped(delay) ==
    LET cmp == IF delay < MAX_IPD THEN delay ELSE MAX_IPD
    IN  IF cmp < TargetDelay THEN TargetDelay ELSE cmp

SwappedRate(rate) ==                             \* variant: the wrong way round
    Clamped(IF rate > param.error_rate THEN Faster ELSE Slower(rate))
AcceptErrorRate(rate) ==
    Clamped(IF rate > param.error_rate THEN Slower(rate) ELSE Faster)
-----------------------------------------------------------------------------
(* The server's loop.                                                      *)

Counts(diff) == diff > 0 \/ ipd_time > 0

(* The time to wait after the next datagram.                               *)
LoopTop ==
    /\ pc = "top" /\ pc' = "read"
    /\ LET diff == ipd_current - elapsed
       IN  ipd_time' = IF Counts(diff) THEN ipd_time + diff ELSE ipd_time
    /\ ipd_time_max' = IF ipd_time' > ipd_time_max THEN ipd_time' ELSE ipd_time_max
    /\ elapsed' = 0
    /\ behind' = behind - ipd_current
    /\ UNCHANGED <<param, errorRate, reports, connected, ipd_current, terminate, skipped>>

Passes(time) ==
    /\ elapsed' = elapsed + time
    /\ behind' = behind + time

Dawdle == IF behind <= MaxBehind THEN 0 .. MaxWait ELSE {0}

(* The Read blocks until the client has written something.  An error rate  *)
(* changes the delay,                                                      *)
TakeReport ==
    /\ pc = "read" /\ reports # <<>>
    /\ ipd_current' = AcceptErrorRate(Head(reports))
    /\ reports' = Tail(reports)
    /\ \E time \in Dawdle : Passes(time)
    /\ pc' = "sleep"
    /\ UNCHANGED <<param, errorRate, connected, ipd_time, ipd_time_max, terminate, skipped>>

(* any other request, or a part of one, sends at most a block.             *)
TakeOther ==
    /\ pc = "read" /\ connected
    /\ \E time \in Dawdle : Passes(time)
    /\ terminate' \in {FALSE, behind <= MaxBehind}
    /\ pc' = "sleep"
    /\ UNCHANGED <<param, errorRate, reports, connected, ipd_current, ipd_time,
                   ipd_time_max, skipped>>

(* A block in sequence that UDP does not take: on without a pause.         *)
WriteFails ==
    /\ pc = "read" /\ connected /\ ipd_time <= MaxAhead
    /\ \E time \in Dawdle : Passes(time)
    /\ pc' = "top" /\ skipped' = TRUE
    /\ UNCHANGED <<param, errorRate, reports, connected, ipd_current, ipd_time,
                   ipd_time_max, terminate>>

ReadFails ==
    /\ pc = "read" /\ ~connected /\ reports = <<>>
    /\ pc' = "panicked"
    /\ UNCHANGED <<param, errorRate, reports, connected, ipd_current, ipd_time,
                   ipd_time_max, elapsed, terminate, skipped, behind>>

SleepShort == IF ipd_time > 1 THEN ipd_time - 1 ELSE 0     \* variant: rounded down
SleepTime == (IF terminate THEN END_WAIT * ipd_time_max ELSE 0)
                 + (IF ipd_time > 0 THEN ipd_time ELSE 0)

(* A Sleep takes at least as long as it is told to.                        *)
Pause ==
    /\ pc = "sleep" /\ pc' = "top" /\ skipped' = FALSE /\ terminate' = FALSE
    /\ \E time \in Dawdle : Passes(SleepTime + time)
    /\ UNCHANGED <<param, errorRate, reports, connected, ipd_current, ipd_time,
                   ipd_time_max>>

Server == LoopTop \/ TakeReport \/ TakeOther \/ WriteFails \/ ReadFails \/ Pause

Next == UpdateStats \/ Disconnect \/ Server

Spec == Init /\ [][Next]_vars
-----------------------------------------------------------------------------
(* Properties                                                              *)

TypeOK ==
    /\ param \in Params /\ errorRate \in Int
    /\ reports \in Seq(Nat) /\ connected \in BOOLEAN
    /\ ipd_current \in Nat /\ ipd_time \in Int /\ ipd_time_max \in Nat
    /\ elapsed \in Nat /\ behind \in Int /\ skipped \in BOOLEAN
    /\ terminate \in BOOLEAN
    /\ pc \in {"top", "read", "sleep", "panicked"}

(* Whatever fractions a client sends, those without a denominator too, the *)
(* delay stays between the one the target rate asks for and MAX_IPD, or    *)
(* the first delay where that is longer (protocol.go:104-112, 609-610).    *)
(* A first delay that does not fit into 32 bits may be too short.          *)
FirstDelayFits == 3 * TargetDelay < UINT

DelayInRange ==
    /\ FirstDelayFits => ipd_current >= TargetDelay
    /\ ipd_current <= MAX_IPD \/ ipd_current <= 3 * TargetDelay

(* With a history of at most 100 the filter does not overshoot, for all    *)
(* the integer arithmetic around it: a report is an error rate up to       *)
(* 100 %, as the server's division by what is left to it assumes (98).     *)
(* With a larger one, which the set command accepts (command.go:308-310),  *)
(* a report may be any uint32.                                             *)
ReportsInRange ==
    param.history <= 100 =>
        /\ errorRate \in 0 .. FULL
        /\ \A i \in 1 .. Len(reports) : reports[i] <= FULL

(* protocol.md:30: the server pauses for the correct amount of time after  *)
(* each block.  When an iteration has slept, no less time has gone by than *)
(* the delays of all iterations make, however the reads dragged on, sleeps *)
(* took too long, writes failed and reports changed the delay in between.  *)
NeverAheadOfSchedule == pc = "top" /\ ~skipped => behind >= 0

(* protocol.md:32: a report of too many losses does not make the server    *)
(* faster, and one of few does not make it slower, if the fractions are    *)
(* what their names say and the first delay is neither beyond MAX_IPD nor  *)
(* too short.                                                              *)
FeedbackDirection ==
    [][ Len(reports') < Len(reports) =>
          /\ Head(reports) > param.error_rate /\ param.slower_num >= param.slower_den
                 /\ 3 * TargetDelay <= MAX_IPD => ipd_current' >= ipd_current
          /\ Head(reports) <= param.error_rate /\ param.faster_num <= param.faster_den
                 /\ param.faster_den # 0 /\ FirstDelayFits => ipd_current' <= ipd_current ]_vars
=============================================================================

------------------------- MODULE RateControlProofs -------------------------
(* The types of RateControl, the range of the reports and of the delay,    *)
(* that reports move the delay the right way, and that the server is never *)
(* ahead of its schedule, for all parameters and bounds.                   *)
EXTENDS RateControl, TLAPS

(* Quotients of naturals.                                                  *)
LEMMA DivInt == ASSUME NEW a \in Int, NEW b \in Nat \ {0} PROVE a \div b \in Int
  BY Z3

LEMMA DivNat == ASSUME NEW a \in Nat, NEW b \in Nat \ {0} PROVE a \div b \in Nat
  BY Z3

LEMMA ModNat ==
    ASSUME NEW a \in Nat, NEW b \in Nat \ {0}
    PROVE  a % b \in Nat /\ a % b <= a /\ (a < b => a % b = a)
  BY Z3

LEMMA DivBound ==
    ASSUME NEW a \in Nat, NEW c \in Nat \ {0}, NEW k \in Nat, a <= k * c
    PROVE  a \div c <= k
  BY SMT

LEMMA TimesNat == ASSUME NEW a \in Nat, NEW b \in Nat PROVE a * b \in Nat
  BY SMT

LEMMA TimesMonotone ==
    ASSUME NEW a \in Nat, NEW b \in Nat, NEW c \in Nat, a <= b
    PROVE  c * a <= c * b
  BY SMT

(* The fields of the parameters.                                           *)
LEMMA ParamTypes ==
    ASSUME param \in Params
    PROVE  /\ param.target_rate \in Nat \ {0} /\ param.block_size \in Nat \ {0}
           /\ param.error_rate \in Nat /\ param.history \in Nat
           /\ param.slower_num \in Nat /\ param.slower_den \in Nat
           /\ param.faster_num \in Nat /\ param.faster_den \in Nat
  BY RateAssumption

LEMMA TargetDelayType == ASSUME param \in Params PROVE TargetDelay \in Nat
  <1>1. SECOND \in Nat /\ param.block_size \in Nat /\ param.target_rate \in Nat \ {0}
    BY ParamTypes, RateAssumption
  <1>2. (8 * SECOND) * param.block_size \in Nat
    BY <1>1, TimesNat
  <1> DEFINE delay == ((8 * SECOND) * param.block_size) \div param.target_rate
  <1>3. delay \in Nat
    BY <1>1, <1>2, DivNat
  <1> HIDE DEF delay
  <1>4. delay % UINT \in Nat
    BY <1>3, ModNat, RateAssumption
  <1> QED BY <1>1, <1>4 DEF TargetDelay, delay

LEMMA FirstDelayType ==
    ASSUME param \in Params
    PROVE  /\ FirstDelay \in Nat /\ FirstDelay <= 3 * TargetDelay
           /\ FirstDelayFits => FirstDelay = 3 * TargetDelay
  <1>1. 3 * TargetDelay \in Nat
    BY TargetDelayType
  <1> QED BY <1>1, ModNat, RateAssumption DEF FirstDelay, FirstDelayFits

-----------------------------------------------------------------------------
(* The client's filter, with a history of at most 100, returns an error    *)
(* rate of at most 100 %.                                                  *)
LEMMA FractionRange ==
    ASSUME NEW requested \in Nat, NEW blocks \in Nat
    PROVE  RetransmitsFraction(requested, blocks) \in 0 .. FULL
  <1> DEFINE all == 1 + requested + blocks
  <1>1. FULL \in Nat /\ all \in Nat \ {0} /\ requested <= all
    BY RateAssumption
  <1>2. FULL * requested \in Nat /\ FULL * requested <= FULL * all
    BY <1>1, TimesNat, TimesMonotone
  <1> HIDE DEF all
  <1>3. (FULL * requested) \div all \in Nat
    BY <1>1, <1>2, DivNat
  <1>4. (FULL * requested) \div all <= FULL
    BY <1>1, <1>2, DivBound
  <1> USE DEF all
  <1> QED BY <1>1, <1>3, <1>4 DEF RetransmitsFraction

LEMMA FilterRange ==
    ASSUME param \in Params, param.history <= 100, errorRate \in 0 .. FULL,
           NEW requested \in Nat, NEW blocks \in Nat, NEW ringFull \in BOOLEAN
    PROVE  Filtered(requested, blocks, ringFull) \in 0 .. FULL
  <1> DEFINE fraction == RetransmitsFraction(requested, blocks)
                             + (IF ringFull THEN FULL ELSE 0)
             old == param.history
             new == 100 - param.history
             sum == 2 * param.history * errorRate + new * fraction
  <1>1. FULL \in Nat /\ errorRate \in Nat /\ errorRate <= FULL
    BY RateAssumption
  <1>2. fraction \in Nat /\ fraction <= 2 * FULL
    <2>1. RetransmitsFraction(requested, blocks) \in 0 .. FULL
      BY FractionRange
    <2> QED BY <1>1, <2>1
  <1>3. old \in Nat /\ new \in Nat /\ old + new = 100
    BY ParamTypes
  <1> HIDE DEF fraction, new
  <1>4. (2 * old) * errorRate \in Nat /\ (2 * old) * errorRate <= (2 * old) * FULL
    <2>1. 2 * old \in Nat
      BY <1>3
    <2> QED BY <2>1, <1>1, TimesNat, TimesMonotone
  <1>5. new * fraction \in Nat /\ new * fraction <= new * (2 * FULL)
    BY <1>1, <1>2, <1>3, TimesNat, TimesMonotone
  <1>6. (2 * old) * FULL + new * (2 * FULL) = FULL * 200
    <2>1. \A a, b, f \in Nat : a + b = 100 => (2 * a) * f + b * (2 * f) = f * 200
      <3>1. \A a, f \in Nat : (2 * a) * f + (100 - a) * (2 * f) = f * 200
        BY SMT
      <3>2. \A a, b \in Nat : a + b = 100 => b = 100 - a
        BY SMT
      <3> QED BY <3>1, <3>2
    <2> HIDE DEF old
    <2> QED BY <1>1, <1>3, <2>1
  <1>7. sum \in Nat /\ sum <= FULL * 200
    BY <1>1, <1>3, <1>4, <1>5, <1>6
  <1>8. sum \div 200 \in Nat /\ sum \div 200 <= FULL
    <2>1. 200 \in Nat \ {0}
      OBVIOUS
    <2> QED BY <2>1, <1>1, <1>7, DivNat, DivBound
  <1>9. Filtered(requested, blocks, ringFull) = sum \div 200
    BY DEF Filtered, fraction, new
  <1> QED BY <1>1, <1>8, <1>9

(* A uint32 is what is written, and a rate of up to 100 % is written as it *)
(* is.                                                                     *)
LEMMA ConvertedRange ==
    ASSUME NEW rate \in Int, NEW report \in Converted(rate)
    PROVE  /\ report \in 0 .. UINT - 1
           /\ rate \in 0 .. FULL => report <= FULL
  <1>1. UINT \in Nat \ {0} /\ FULL \in Nat /\ FULL < UINT
    BY RateAssumption
  <1>2. rate % UINT \in 0 .. UINT - 1
    <2>1. \A a \in Int, b \in Nat \ {0} : a % b \in 0 .. b - 1
      BY Z3
    <2> QED BY <1>1, <2>1
  <1>3. report \in {rate % UINT, 0, UINT - 1} \/ (report = rate /\ rate \in 0 .. UINT - 1)
    BY DEF Converted
  <1>4. report \in 0 .. UINT - 1
    BY <1>1, <1>2, <1>3
  <1>5. ASSUME rate \in 0 .. FULL PROVE report = rate
    <2>1. rate \in 0 .. UINT - 1
      BY <1>1, <1>5
    <2> QED BY <2>1 DEF Converted
  <1> QED BY <1>4, <1>5

(* updateStats keeps the rates what they are.                              *)
LEMMA StatsKeep ==
    ASSUME TypeOK, ReportsInRange, UpdateStats
    PROVE  /\ errorRate' \in Int /\ ReportsInRange'
           /\ reports' = reports \/ \E rate \in Nat : reports' = Append(reports, rate)
  <1>1. /\ param \in Params /\ errorRate \in Int /\ reports \in Seq(Nat)
        /\ FULL \in Nat /\ UINT \in Nat
    BY RateAssumption DEF TypeOK
  <1>2. errorRate' \in Int /\ param' = param
    BY RateAssumption DEF UpdateStats
  <1>3. PICK requested \in Nat, blocks \in Nat, ringFull \in BOOLEAN :
            errorRate' = Filtered(requested, blocks, ringFull)
    BY RateAssumption DEF UpdateStats
  <1>4. \/ reports' = reports
        \/ \E rate \in Converted(errorRate') : reports' = Append(reports, rate)
    BY DEF UpdateStats
  <1>5. ASSUME param.history <= 100
        PROVE  errorRate' \in 0 .. FULL
    <2>1. errorRate \in 0 .. FULL
      BY <1>5 DEF ReportsInRange
    <2> QED BY <1>1, <1>3, <1>5, <2>1, FilterRange
  <1>6. CASE reports' = reports
    BY <1>2, <1>5, <1>6 DEF ReportsInRange
  <1>7. CASE \E rate \in Converted(errorRate') : reports' = Append(reports, rate)
    <2>1. PICK rate \in Converted(errorRate') : reports' = Append(reports, rate)
      BY <1>7
    <2>2. rate \in Nat /\ (errorRate' \in 0 .. FULL => rate <= FULL)
      BY <1>1, <1>2, ConvertedRange
    <2>3. /\ Len(reports') = Len(reports) + 1
          /\ \A i \in 1 .. Len(reports') :
                reports'[i] = rate \/ (i \in 1 .. Len(reports) /\ reports'[i] = reports[i])
      BY <1>1, <2>1, <2>2
    <2>4. ReportsInRange'
      BY <1>2, <1>5, <2>2, <2>3 DEF ReportsInRange
    <2> QED BY <1>2, <2>1, <2>2, <2>4
  <1> QED BY <1>4, <1>6, <1>7
-----------------------------------------------------------------------------
(* What the server makes of a report.                                      *)

(* The two differences of rates.                                           *)
LEMMA Differences ==
    ASSUME param \in Params, NEW rate \in Nat
    PROVE  /\ (1 + rate - param.error_rate) % UINT \in Nat
           /\ (FULL - param.error_rate) % UINT \in Nat
  <1>1. \A a \in Int, b \in Nat \ {0} : a % b \in Nat
    BY Z3
  <1> QED BY <1>1, ParamTypes, RateAssumption

LEMMA SlowerType ==
    ASSUME param \in Params, ipd_current \in Nat, NEW rate \in Nat
    PROVE  Slower(rate) \in Int
  <1>1. PICK den, more, over, left :
          /\ den = param.slower_den /\ more = param.slower_num - param.slower_den
          /\ over = (1 + rate - param.error_rate) % UINT
          /\ left = (FULL - param.error_rate) % UINT
    OBVIOUS
  <1>2. den \in Nat /\ more \in Int /\ over \in Nat /\ left \in Nat /\ MAX_IPD \in Nat
    BY <1>1, ParamTypes, Differences, RateAssumption
  <1>3. Slower(rate) =
          CASE den = 0 -> MAX_IPD
            [] den # 0 /\ left = 0 -> IF ipd_current * more * over < 0 THEN 0 ELSE MAX_IPD
            [] OTHER -> ipd_current + (ipd_current * more * over) \div (den * left)
    BY <1>1 DEF Slower
  <1>4. CASE den = 0 \/ left = 0
    BY <1>2, <1>3, <1>4
  <1>5. CASE den # 0 /\ left # 0
    <2>1. den * left \in Nat \ {0} /\ ipd_current * more * over \in Int
      BY <1>2, <1>5
    <2>2. (ipd_current * more * over) \div (den * left) \in Int
      BY <2>1, DivInt
    <2> QED BY <1>3, <1>5, <2>2
  <1> QED BY <1>4, <1>5

LEMMA FasterType ==
    ASSUME param \in Params, ipd_current \in Nat
    PROVE  Faster \in Int
  <1>1. CASE param.faster_den = 0
    BY <1>1, RateAssumption DEF Faster
  <1>2. CASE param.faster_den # 0
    <2>1. param.faster_den \in Nat \ {0} /\ ipd_current * param.faster_num \in Nat
      BY <1>2, ParamTypes, TimesNat
    <2> QED BY <1>2, <2>1, DivInt DEF Faster
  <1> QED BY <1>1, <1>2

LEMMA AcceptRange ==
    ASSUME param \in Params, ipd_current \in Nat, NEW rate \in Nat
    PROVE  /\ AcceptErrorRate(rate) \in Nat
           /\ AcceptErrorRate(rate) >= TargetDelay
           /\ AcceptErrorRate(rate) <= MAX_IPD \/ AcceptErrorRate(rate) = TargetDelay
  <1> DEFINE delay == IF rate > param.error_rate THEN Slower(rate) ELSE Faster
  <1>1. delay \in Int
    BY SlowerType, FasterType
  <1>2. TargetDelay \in Nat /\ MAX_IPD \in Nat
    BY TargetDelayType, RateAssumption
  <1>3. AcceptErrorRate(rate) = Clamped(delay)
    BY DEF AcceptErrorRate
  <1> HIDE DEF delay
  <1> QED BY <1>1, <1>2, <1>3 DEF Clamped
-----------------------------------------------------------------------------
(* The inductive invariant.  An iteration that did not sleep leaves what   *)
(* it owes in ipd_time; time that has gone by since the last datagram is   *)
(* taken off at the next.                                                  *)
Schedule == ipd_time + behind - elapsed >= 0

Inv == TypeOK /\ ReportsInRange /\ DelayInRange /\ Schedule /\ NeverAheadOfSchedule

LEMMA InitInv == ASSUME Init PROVE Inv
  <1>1. param \in Params /\ TargetDelay \in Nat
    BY TargetDelayType DEF Init
  <1>2. reports = <<>> /\ reports \in Seq(Nat)
    BY DEF Init
  <1>3. /\ ipd_current \in Nat /\ ipd_current <= 3 * TargetDelay
        /\ FirstDelayFits => ipd_current = 3 * TargetDelay
    BY <1>1, FirstDelayType DEF Init
  <1>4. connected \in BOOLEAN /\ skipped \in BOOLEAN
            /\ terminate \in BOOLEAN
    BY Zenon DEF Init
  <1>5. TypeOK
    BY <1>1, <1>2, <1>3, <1>4 DEF Init, TypeOK
  <1> QED BY <1>1, <1>2, <1>3, <1>5, RateAssumption
          DEF Init, Inv, ReportsInRange, DelayInRange, Schedule, NeverAheadOfSchedule

(* The delay of the target rate is the same in the next state.             *)
LEMMA TargetDelayStays ==
    ASSUME param' = param
    PROVE  TargetDelay' = TargetDelay /\ FirstDelayFits' = FirstDelayFits
  BY DEF TargetDelay, FirstDelayFits

LEMMA DawdleType == ASSUME NEW time \in Dawdle PROVE time \in Nat
  BY RateAssumption DEF Dawdle

LEMMA SleepTimeType ==
    ASSUME TypeOK
    PROVE  SleepTime \in Nat /\ SleepTime >= ipd_time
  <1>1. END_WAIT * ipd_time_max \in Nat
    BY RateAssumption, TimesNat DEF TypeOK
  <1> DEFINE last == END_WAIT * ipd_time_max
  <1> HIDE DEF last
  <1>2. last \in Nat
    BY <1>1 DEF last
  <1>3. SleepTime = (IF terminate THEN last ELSE 0) + (IF ipd_time > 0 THEN ipd_time ELSE 0)
    BY DEF SleepTime, last
  <1> QED BY <1>2, <1>3 DEF TypeOK

(* What a step that leaves the delay and its parameters alone keeps.       *)
LEMMA DelayStays ==
    ASSUME DelayInRange, param' = param, ipd_current' = ipd_current
    PROVE  DelayInRange'
  BY TargetDelayStays DEF DelayInRange

LEMMA ReportsStay ==
    ASSUME ReportsInRange, param' = param, errorRate' = errorRate, reports' = reports
    PROVE  ReportsInRange'
  BY DEF ReportsInRange

(* Time that goes by is owed to nobody.                                    *)
LEMMA PassesKeeps ==
    ASSUME TypeOK, Schedule, ipd_time' = ipd_time, NEW time \in Nat, Passes(time)
    PROVE  elapsed' \in Nat /\ behind' \in Int /\ Schedule'
  BY DEF TypeOK, Schedule, Passes

LEMMA NextInv == ASSUME Inv, [Next]_vars PROVE Inv'
  <1> USE DEF Inv
  <1>1. CASE UpdateStats
    <2>1. /\ errorRate' \in Int /\ ReportsInRange'
          /\ reports' = reports \/ \E rate \in Nat : reports' = Append(reports, rate)
      BY <1>1, StatsKeep
    <2>2. reports' \in Seq(Nat)
      <3>1. \A rate \in Nat : Append(reports, rate) \in Seq(Nat)
        BY DEF TypeOK
      <3> QED BY <2>1, <3>1 DEF TypeOK
    <2>3. TypeOK'
      BY <1>1, <2>1, <2>2 DEF UpdateStats, TypeOK, loopVars
    <2>4. DelayInRange'
      BY <1>1, DelayStays DEF UpdateStats
    <2> QED BY <1>1, <2>1, <2>3, <2>4
            DEF UpdateStats, loopVars, Schedule, NeverAheadOfSchedule
  <1>2. CASE Disconnect \/ UNCHANGED vars
    <2>1. /\ ReportsInRange' /\ DelayInRange'
      BY <1>2, DelayStays, ReportsStay DEF Disconnect, vars
    <2> QED BY <1>2, <2>1 DEF Disconnect, loopVars, vars,
                              TypeOK, Schedule, NeverAheadOfSchedule
  <1>3. CASE LoopTop
    <2>1. ReportsInRange' /\ DelayInRange'
      BY <1>3, DelayStays, ReportsStay DEF LoopTop
    <2>2. TypeOK'
      BY <1>3 DEF LoopTop, Counts, TypeOK
    <2>3. Schedule'
      BY <1>3 DEF LoopTop, Counts, TypeOK, Schedule
    <2> QED BY <1>3, <2>1, <2>2, <2>3 DEF LoopTop, NeverAheadOfSchedule
  <1>4. CASE TakeReport
    <2>1. Head(reports) \in Nat
      BY <1>4 DEF TakeReport, TypeOK
    <2>2. /\ ipd_current' \in Nat /\ ipd_current' >= TargetDelay
          /\ ipd_current' <= MAX_IPD \/ ipd_current' = TargetDelay
      BY <1>4, <2>1, AcceptRange DEF TakeReport, TypeOK
    <2>3. TargetDelay' = TargetDelay /\ TargetDelay \in Nat
      BY <1>4, TargetDelayStays, TargetDelayType DEF TakeReport, TypeOK
    <2>4. DelayInRange'
      BY <2>2, <2>3 DEF DelayInRange
    <2>5. /\ reports' \in Seq(Nat) /\ Len(reports) \in Nat /\ Len(reports') = Len(reports) - 1
          /\ \A i \in 1 .. Len(reports') : reports'[i] = reports[i + 1]
      BY <1>4 DEF TakeReport, TypeOK
    <2>6. ReportsInRange'
      <3>1. \A i \in 1 .. Len(reports') : i + 1 \in 1 .. Len(reports)
        BY <2>5
      <3> QED BY <1>4, <2>5, <3>1 DEF TakeReport, ReportsInRange
    <2>7. elapsed' \in Nat /\ behind' \in Int /\ Schedule'
      BY <1>4, DawdleType, PassesKeeps DEF TakeReport
    <2>8. TypeOK'
      BY <1>4, <2>2, <2>5, <2>7 DEF TakeReport, TypeOK
    <2> QED BY <1>4, <2>4, <2>6, <2>7, <2>8 DEF TakeReport, NeverAheadOfSchedule
  <1>5. CASE TakeOther
    <2>1. ReportsInRange' /\ DelayInRange'
      BY <1>5, DelayStays, ReportsStay DEF TakeOther
    <2>2. elapsed' \in Nat /\ behind' \in Int /\ Schedule'
      BY <1>5, DawdleType, PassesKeeps DEF TakeOther
    <2>3. terminate' \in BOOLEAN
      <3>1. (behind <= MaxBehind) \in BOOLEAN
        OBVIOUS
      <3>2. terminate' \in {FALSE, behind <= MaxBehind}
        BY <1>5 DEF TakeOther
      <3> QED BY <3>1, <3>2, Zenon
    <2>4. TypeOK'
      BY <1>5, <2>2, <2>3 DEF TakeOther, TypeOK
    <2> QED BY <1>5, <2>1, <2>2, <2>4 DEF TakeOther, NeverAheadOfSchedule
  <1>6. CASE WriteFails
    <2>1. ReportsInRange' /\ DelayInRange'
      BY <1>6, DelayStays, ReportsStay DEF WriteFails
    <2>2. elapsed' \in Nat /\ behind' \in Int /\ Schedule'
      BY <1>6, DawdleType, PassesKeeps DEF WriteFails
    <2>3. TypeOK'
      BY <1>6, <2>2 DEF WriteFails, TypeOK
    <2> QED BY <1>6, <2>1, <2>2, <2>3 DEF WriteFails, NeverAheadOfSchedule
  <1>7. CASE ReadFails
    <2>1. ReportsInRange' /\ DelayInRange'
      BY <1>7, DelayStays, ReportsStay DEF ReadFails
    <2> QED BY <1>7, <2>1 DEF ReadFails, TypeOK, Schedule, NeverAheadOfSchedule
  <1>8. CASE Pause
    <2>1. ReportsInRange' /\ DelayInRange'
      BY <1>8, DelayStays, ReportsStay DEF Pause
    <2>2. PICK time \in Nat : Passes(SleepTime + time)
      BY <1>8, DawdleType DEF Pause
    <2>3. SleepTime \in Nat /\ SleepTime >= ipd_time
      BY SleepTimeType
    <2>4. elapsed' \in Nat /\ behind' \in Int /\ Schedule'
      BY <1>8, <2>2, <2>3, PassesKeeps DEF Pause
    <2>5. TypeOK'
      BY <1>8, <2>4 DEF Pause, TypeOK
    <2>6. behind' >= 0
      BY <2>2, <2>3 DEF TypeOK, Schedule, Passes
    <2> QED BY <2>1, <2>4, <2>5, <2>6 DEF NeverAheadOfSchedule
  <1> QED BY <1>1, <1>2, <1>3, <1>4, <1>5, <1>6, <1>7, <1>8 DEF Next, Server

LEMMA InvHolds == Spec => []Inv
  <1>1. Init => Inv
    BY InitInv
  <1>2. Inv /\ [Next]_vars => Inv'
    BY NextInv
  <1> QED BY <1>1, <1>2, PTL DEF Spec
-----------------------------------------------------------------------------
(* The server's counters and the client's have their types: no sequence of *)
(* reports, of a filter that diverges too, takes the delay below zero.     *)
THEOREM TypesKept == Spec => []TypeOK
  <1>1. Inv => TypeOK
    BY DEF Inv
  <1> QED BY <1>1, InvHolds, PTL

(* Reports are error rates of at most 100 %, for every filter with a       *)
(* history of at most 100 (updateStats, client/protocol.go:581-592); the   *)
(* set command accepts others (command.go:308-310), for which nothing is   *)
(* claimed.                                                                *)
THEOREM ReportsKept == Spec => []ReportsInRange
  <1>1. Inv => ReportsInRange
    BY DEF Inv
  <1> QED BY <1>1, InvHolds, PTL

(* The delay stays within its limits, whatever fractions the client sends  *)
(* and whatever it reports.                                                *)
THEOREM DelayKept == Spec => []DelayInRange
  <1>1. Inv => DelayInRange
    BY DEF Inv
  <1> QED BY <1>1, InvHolds, PTL

(* The server does not get ahead of the schedule its delays make.          *)
THEOREM ScheduleKept == Spec => []NeverAheadOfSchedule
  <1>1. Inv => NeverAheadOfSchedule
    BY DEF Inv
  <1> QED BY <1>1, InvHolds, PTL

-----------------------------------------------------------------------------
(* The direction of a step of the delay.                                   *)

(* Too many losses: the slower fraction is at least one, so the delay asks *)
(* for more, up to MAX_IPD, which it has not passed.                       *)
LEMMA SlowsDown ==
    ASSUME Inv, NEW rate \in Nat, rate > param.error_rate,
           param.slower_num >= param.slower_den, 3 * TargetDelay <= MAX_IPD
    PROVE  AcceptErrorRate(rate) >= ipd_current
  <1>1. param \in Params /\ ipd_current \in Nat
    BY DEF Inv, TypeOK
  <1>2. ipd_current <= MAX_IPD /\ MAX_IPD \in Nat /\ TargetDelay \in Nat
    BY <1>1, TargetDelayType, RateAssumption DEF Inv, DelayInRange
  <1>3. Slower(rate) \in Int /\ Slower(rate) >= ipd_current
    <2>1. PICK den, more, over, left :
            /\ den = param.slower_den /\ more = param.slower_num - param.slower_den
            /\ over = (1 + rate - param.error_rate) % UINT
            /\ left = (FULL - param.error_rate) % UINT
      OBVIOUS
    <2>2. den \in Nat /\ more \in Nat /\ over \in Nat /\ left \in Nat
      BY <1>1, <2>1, ParamTypes, Differences
    <2>3. PICK push \in Nat : push = ipd_current * more * over
      BY <1>1, <2>2
    <2>4. Slower(rate) =
            CASE den = 0 -> MAX_IPD
              [] den # 0 /\ left = 0 -> IF push < 0 THEN 0 ELSE MAX_IPD
              [] OTHER -> ipd_current + push \div (den * left)
      BY <2>1, <2>3 DEF Slower
    <2>5. CASE den = 0 \/ left = 0
      BY <1>2, <2>3, <2>4, <2>5
    <2>6. CASE den # 0 /\ left # 0
      <3>1. den * left \in Nat \ {0}
        BY <2>2, <2>6
      <3>2. push \div (den * left) \in Nat
        BY <3>1, DivNat
      <3>3. Slower(rate) = ipd_current + push \div (den * left)
        BY <2>4, <2>6
      <3> QED BY <1>1, <3>2, <3>3
    <2> QED BY <2>5, <2>6
  <1>4. AcceptErrorRate(rate) = Clamped(Slower(rate))
    BY DEF AcceptErrorRate
  <1> QED BY <1>1, <1>2, <1>3, <1>4 DEF Clamped

(* Few losses: the faster fraction is at most one, and the delay has not   *)
(* been below the one of the target rate.                                  *)
LEMMA SpeedsUp ==
    ASSUME Inv, NEW rate \in Nat, rate <= param.error_rate,
           param.faster_num <= param.faster_den, param.faster_den # 0, FirstDelayFits
    PROVE  AcceptErrorRate(rate) <= ipd_current
  <1>1. param \in Params /\ ipd_current \in Nat
    BY DEF Inv, TypeOK
  <1>2. TargetDelay <= ipd_current /\ MAX_IPD \in Nat /\ TargetDelay \in Nat
    BY <1>1, TargetDelayType, RateAssumption DEF Inv, DelayInRange
  <1>3. Faster \in Int /\ Faster <= ipd_current
    <2>1. param.faster_num \in Nat /\ param.faster_den \in Nat \ {0}
      BY <1>1, ParamTypes
    <2>2. /\ ipd_current * param.faster_num \in Nat
          /\ ipd_current * param.faster_num <= ipd_current * param.faster_den
      BY <1>1, <2>1, TimesNat, TimesMonotone
    <2>3. Faster = (ipd_current * param.faster_num) \div param.faster_den
      BY DEF Faster
    <2> QED BY <1>1, <2>1, <2>2, <2>3, DivInt, DivBound
  <1>4. rate \in Int /\ param.error_rate \in Nat
    BY <1>1, ParamTypes, RateAssumption
  <1>5. AcceptErrorRate(rate) = Clamped(Faster)
    BY <1>4 DEF AcceptErrorRate
  <1> QED BY <1>1, <1>2, <1>3, <1>5 DEF Clamped

(* A report is taken only by TakeReport.                                   *)
LEMMA ReportTaken ==
    ASSUME Inv, [Next]_vars, Len(reports') < Len(reports)
    PROVE  /\ Head(reports) \in Nat
           /\ ipd_current' = AcceptErrorRate(Head(reports))
  <1>1. reports \in Seq(Nat)
    BY DEF Inv, TypeOK
  <1>2. TakeReport
    <2>1. ASSUME UpdateStats PROVE FALSE
      <3>1. reports' = reports \/ \E rate \in Nat : reports' = Append(reports, rate)
        BY <2>1, StatsKeep DEF Inv
      <3>2. Len(reports') >= Len(reports)
        BY <1>1, <3>1
      <3> QED BY <1>1, <3>1, <3>2
    <2>2. ASSUME \/ Disconnect \/ LoopTop \/ TakeOther \/ WriteFails
                 \/ ReadFails \/ Pause \/ UNCHANGED vars
          PROVE  FALSE
      <3>1. reports' = reports
        BY <2>2 DEF Disconnect, LoopTop, TakeOther, WriteFails, ReadFails,
                    Pause, vars
      <3> QED BY <1>1, <3>1
    <2> QED BY <2>1, <2>2 DEF Next, Server
  <1>3. reports # <<>> /\ ipd_current' = AcceptErrorRate(Head(reports))
    BY <1>2 DEF TakeReport
  <1>4. Head(reports) \in Nat
    BY <1>1, <1>3
  <1> QED BY <1>3, <1>4

(* A report of too many losses never makes the server faster, and one of   *)
(* few never slower (AcceptRetransmit, server/protocol.go:92-112), for all *)
(* reports, delays and fractions that are what their names say.            *)
THEOREM MovesTheRightWay == Spec => FeedbackDirection
  <1> DEFINE Direction ==
          Len(reports') < Len(reports) =>
          /\ Head(reports) > param.error_rate /\ param.slower_num >= param.slower_den
                 /\ 3 * TargetDelay <= MAX_IPD => ipd_current' >= ipd_current
          /\ Head(reports) <= param.error_rate /\ param.faster_num <= param.faster_den
                 /\ param.faster_den # 0 /\ FirstDelayFits => ipd_current' <= ipd_current
  <1>1. Inv /\ [Next]_vars => [Direction]_vars
    BY ReportTaken, SlowsDown, SpeedsUp
  <1> QED BY <1>1, InvHolds, PTL DEF Spec, FeedbackDirection
=============================================================================

---------------------------- MODULE CogMapProofs ----------------------------
(***************************************************************************)
(* Proofs about CogMap, for every value of its constants: the sums are     *)
(* clean and bounded, the angle only steps without excitation, and a run   *)
(* whose voltage leaves room for the sweeps never meets the timeout.       *)
(*                                                                         *)
(* The argument for the timeout.  A sweep has no timer of its own: it ends *)
(* because the target advances by Rate in every period and the rotor may   *)
(* not fall behind it by more than the slip limit (Tracks).  Between the   *)
(* start of the sweep and now the error has changed by at most twice that  *)
(* limit, so the travel is at least the target's less 2 * Slip counts.     *)
(* With that, every phase has a bound (Timers), and the periods of a run   *)
(* are bounded by the sum of those it has been through (Budget).           *)
(***************************************************************************)
EXTENDS CogMap, TLAPS

Zero == [d \in Directions |-> 0]

(* Where the dwell, the voltage and the point are in each phase.           *)
Timers ==
  /\ phase \in Running => target_v >= 1
  /\ phase = "CLEAR" => clear_bin < Bins /\ voltage = 0 /\ point = 0
  /\ phase \in Gain => point < Points
  /\ phase = "GAIN_RAMP" => voltage < target_v
  /\ phase \in {"GAIN_SETTLE", "GAIN_AVERAGE"} => voltage = target_v
  /\ phase = "GAIN_SETTLE" => dwell < SettleN
  /\ phase = "GAIN_AVERAGE" => dwell < AverageN
  /\ phase = "GAIN_DECAY" => dwell <= ZeroN /\ (voltage > 0 => dwell = 0)
  /\ phase \in {"FORWARD_SETTLE", "REVERSE_SETTLE"} => dwell < HoldN
  /\ phase \in Sweep => voltage = 0
  /\ phase \notin Running => voltage = 0

(* A bin passed by the clearing is empty.                                  *)
Cleared == phase = "CLEAR" /\ clear_bin > Watched => sum = Zero /\ count = Zero

(* The angles done so far.                                                 *)
Recorded ==
  /\ phase = "CLEAR" => gains = {}
  /\ phase \in {"GAIN_RAMP", "GAIN_SETTLE", "GAIN_AVERAGE"} => gains = 0..point - 1
  /\ phase = "GAIN_DECAY" => gains = 0..point
  /\ phase \in Sweep \cup {"DONE"} => gains = 0..Points - 1

(* The error t of a target and a position p keeps the slip limit.          *)
Near(t, p) == -(Slip * Den) <= t - p * Den /\ t - p * Den <= Slip * Den

(* The rotor follows, and it followed when the sweep began.                *)
Tracks ==
  /\ phase \in Sweep => Near(tgt, pos)
  /\ phase = "FORWARD" => Near(tgt - Rate * dwell, pos - travel)
  /\ phase = "REVERSE" => Near(tgt + Rate * dwell, pos + travel)
  /\ phase \in {"FORWARD", "REVERSE"} => travel < Travel

(* Periods of one angle, and how many of them have passed.                 *)
PointMax(v) == 2 * v + SettleN + AverageN + ZeroN

InPoint ==
  CASE phase = "GAIN_RAMP" -> voltage
    [] phase = "GAIN_SETTLE" -> target_v + dwell
    [] phase = "GAIN_AVERAGE" -> target_v + SettleN + dwell
    [] phase = "GAIN_DECAY" ->
         target_v + SettleN + AverageN + dwell
           + (target_v - IF voltage > 0 THEN voltage ELSE 1)

InSweeps ==
  CASE phase = "FORWARD_SETTLE" -> dwell
    [] phase = "FORWARD" -> HoldN + dwell
    [] phase = "REVERSE_SETTLE" -> HoldN + SweepMax + dwell
    [] phase = "REVERSE" -> 2 * HoldN + SweepMax + dwell

Budget ==
  /\ phase \in Running => ticks <= TimeoutN
  /\ phase = "CLEAR" => ticks <= clear_bin
  /\ phase \in Gain => ticks <= Bins + point * PointMax(target_v) + InPoint
  /\ phase \in Sweep => ticks <= Bins + Points * PointMax(target_v) + InSweeps

CogInv ==
  /\ TypeOK /\ Timers /\ Cleared /\ Recorded /\ Tracks /\ Budget
  /\ SumsBounded /\ SweepStartsClean /\ TimesOutOverBudget
-----------------------------------------------------------------------------
(* Arithmetic                                                              *)

LEMMA Products ==
  ASSUME NEW a \in Int, NEW b \in Int, NEW c \in Int
  PROVE  /\ a * b \in Int
         /\ (a + b) * c = a * c + b * c
         /\ (a - b) * c = a * c - b * c
         /\ a * (b + c) = a * b + a * c
  OBVIOUS

LEMMA ProductsOrdered ==
  ASSUME NEW a \in Nat, NEW b \in Nat, NEW c \in Nat, a <= b
  PROVE  a * c \in Nat /\ a * c <= b * c
  OBVIOUS

(* A product that fits bounds its factor by the quotient.                  *)
LEMMA Quotient ==
  ASSUME NEW a \in Nat, NEW r \in Nat \ {0}, NEW d \in Nat, r * d <= a
  PROVE  a \div r \in Nat /\ d <= a \div r
  OBVIOUS

LEMMA Constants ==
  /\ Bins \in Nat \ {0} /\ Points \in Nat \ {0} /\ VSteps \in Nat \ {0}
  /\ SettleN \in Nat \ {0} /\ AverageN \in Nat \ {0} /\ ZeroN \in Nat \ {0}
  /\ HoldN \in Nat \ {0} /\ Counts \in Nat \ {0} /\ Travel \in Nat \ {0}
  /\ Rate \in Nat \ {0} /\ Den \in Nat \ {0} /\ IMax \in Nat \ {0}
  /\ CountMax \in Nat \ {0} /\ Slip \in Nat /\ TimeoutN \in Nat
  /\ Watched \in 0..Bins - 1
  BY CogAssumption

LEMMA SweepMaxType ==
  /\ SweepMax \in Nat \ {0}
  /\ \A d \in Nat : Rate * d <= Den * (Travel - 1 + 2 * Slip) => d < SweepMax
<1> DEFINE a == Den * (Travel - 1 + 2 * Slip)
<1>1. a \in Nat
  BY Constants
<1>2. a \div Rate \in Nat
  BY <1>1, Constants, Quotient
<1>3. ASSUME NEW d \in Nat, Rate * d <= a PROVE d <= a \div Rate
  BY <1>1, <1>3, Constants, Quotient
<1>4. SweepMax = a \div Rate + 1
  BY DEF SweepMax
<1> QED
  BY <1>2, <1>3, <1>4

LEMMA PointMaxType ==
  ASSUME NEW v \in Nat
  PROVE  /\ PointMax(v) \in Nat
         /\ \A p \in 0..Points - 1 :
              /\ p * PointMax(v) \in Nat
              /\ (p + 1) * PointMax(v) = p * PointMax(v) + PointMax(v)
              /\ (p + 1) * PointMax(v) <= Points * PointMax(v)
         /\ Points * PointMax(v) \in Nat
         /\ LongestMap(v) = Bins + Points * PointMax(v) + 2 * (HoldN + SweepMax)
<1>1. PointMax(v) \in Nat
  BY Constants DEF PointMax
<1> DEFINE m == PointMax(v)
<1> HIDE DEF m
<1>2. ASSUME NEW p \in 0..Points - 1
      PROVE  /\ p * m \in Nat /\ (p + 1) * m = p * m + m
             /\ (p + 1) * m <= Points * m
  <2>1. p \in Nat /\ p + 1 \in Nat /\ p + 1 <= Points /\ m \in Nat
    BY <1>1, Constants DEF m
  <2> QED
    BY <2>1, Constants, Products, ProductsOrdered
<1>3. Points * m \in Nat
  BY <1>1, Constants, ProductsOrdered DEF m
<1> QED
  BY <1>1, <1>2, <1>3 DEF m, LongestMap, PointMax

(* A following rotor leaves a sweep before SweepMax periods have passed:   *)
(* the target is Rate * dwell away from where it began.                    *)
LEMMA SweepIsShort ==
  ASSUME NEW t \in Int, NEW p \in Int, NEW n \in Nat, NEW u \in Int,
         NEW s \in {-1, 1}, Near(t, p), Near(t - s * (Rate * n), p - s * u),
         u < Travel
  PROVE  n < SweepMax
<1> DEFINE pd == p * Den
           ud == u * Den
           sd == Slip * Den
           rn == Rate * n
<1>1. pd \in Int /\ ud \in Int /\ sd \in Int /\ rn \in Int
  BY Constants, Products
<1>2. (p - s * u) * Den = pd - s * ud
  BY Constants
<1>3. /\ -sd <= t - pd /\ t - pd <= sd
      /\ -sd <= (t - s * rn) - (pd - s * ud)
      /\ (t - s * rn) - (pd - s * ud) <= sd
  BY <1>2 DEF Near
<1>4. rn <= ud + 2 * sd
  <2> HIDE DEF pd, ud, sd, rn
  <2> QED
    BY <1>1, <1>3
<1>5. ud <= (Travel - 1) * Den
  BY Constants
<1>6. (Travel - 1) * Den + 2 * sd = Den * (Travel - 1 + 2 * Slip)
  BY Constants
<1>7. rn <= Den * (Travel - 1 + 2 * Slip)
  <2> HIDE DEF pd, ud, sd, rn
  <2>1. (Travel - 1) * Den \in Int
    BY Constants
  <2> QED
    BY <1>1, <1>4, <1>5, <1>6, <2>1
<1> QED
  BY <1>7, SweepMaxType
-----------------------------------------------------------------------------
(* The bound of a run                                                      *)

LEMMA SweepShort ==
  ASSUME TypeOK, Tracks, phase \in {"FORWARD", "REVERSE"} PROVE dwell < SweepMax
<1>1. /\ tgt \in Int /\ pos \in Int /\ dwell \in Nat /\ travel \in Int
      /\ Near(tgt, pos) /\ travel < Travel
  BY DEF TypeOK, Tracks, Sweep
<1>2. Rate * dwell \in Int
  BY <1>1, Constants
<1>3. CASE phase = "FORWARD"
  <2>1. 1 * (Rate * dwell) = Rate * dwell /\ 1 * travel = travel
    BY <1>1, <1>2
  <2>2. Near(tgt - 1 * (Rate * dwell), pos - 1 * travel)
    BY <1>3, <2>1 DEF Tracks
  <2> QED
    BY <1>1, <2>2, SweepIsShort
<1>4. CASE phase = "REVERSE"
  <2>1. /\ tgt - (-1) * (Rate * dwell) = tgt + Rate * dwell
        /\ pos - (-1) * travel = pos + travel
    BY <1>1, <1>2
  <2>2. Near(tgt - (-1) * (Rate * dwell), pos - (-1) * travel)
    BY <1>4, <2>1 DEF Tracks
  <2> QED
    BY <1>1, <2>2, SweepIsShort
<1> QED
  BY <1>3, <1>4

(* What is left of an angle and of the sweeps is at least one period.      *)
LEMMA RunFits ==
  ASSUME TypeOK, Timers, Tracks, Budget, phase \in Running
  PROVE  ticks + 1 <= LongestMap(target_v)
<1> DEFINE m == PointMax(target_v)
           L == LongestMap(target_v)
<1> SUFFICES ticks + 1 <= L
  OBVIOUS
<1>1. /\ target_v \in Nat /\ ticks \in Nat /\ dwell \in Nat /\ voltage \in 0..target_v
      /\ clear_bin \in Nat /\ target_v >= 1
  BY Constants DEF TypeOK, Timers
<1>2. /\ m \in Nat /\ Points * m \in Nat
      /\ L = Bins + Points * m + 2 * (HoldN + SweepMax)
  BY <1>1, PointMaxType
<1>3. CASE phase = "CLEAR"
  <2>1. ticks + 1 <= Bins
    BY <1>1, <1>3, Constants DEF Timers, Budget
  <2> HIDE DEF m, L
  <2> QED
    BY <1>1, <1>2, <2>1, Constants, SweepMaxType
<1>4. CASE phase \in Gain
  <2>1. point \in 0..Points - 1
    BY <1>4, Constants DEF TypeOK, Timers
  <2>2. /\ point * m \in Nat /\ point * m + m <= Points * m
    BY <1>1, <2>1, PointMaxType
  <2>3. InPoint \in Int /\ InPoint + 1 <= m
    BY <1>1, <1>4, Constants DEF InPoint, Timers, Gain, PointMax
  <2>4. ticks <= Bins + point * m + InPoint
    BY <1>4 DEF Budget
  <2> HIDE DEF m, L
  <2> QED
    BY <1>1, <1>2, <2>2, <2>3, <2>4, Constants, SweepMaxType
<1>5. CASE phase \in Sweep
  <2>1. InSweeps \in Nat /\ InSweeps + 1 <= 2 * (HoldN + SweepMax)
    BY <1>1, <1>5, SweepShort, SweepMaxType, Constants DEF InSweeps, Timers, Sweep
  <2>2. ticks <= Bins + Points * m + InSweeps
    BY <1>5 DEF Budget
  <2> HIDE DEF m, L
  <2> QED
    BY <1>1, <1>2, <2>1, <2>2, Constants, SweepMaxType
<1> QED
  BY <1>3, <1>4, <1>5 DEF Running
-----------------------------------------------------------------------------
(* Every step keeps the invariant                                          *)

(* Nothing is asked of the timers of a run that has ended.                 *)
LEMMA EndKeeps ==
  ASSUME phase' \notin Running, voltage' = 0
  PROVE  Timers' /\ Cleared' /\ Tracks' /\ Budget' /\ SweepStartsClean'
  BY DEF Running, Timers, Cleared, Tracks, Budget, SweepStartsClean, Gain, Sweep

LEMMA FinishFacts ==
  ASSUME NEW r \in Reasons, Finish(r)
  PROVE  /\ phase' \in {"DONE", "FAILED"} /\ phase' \notin Running
         /\ phase' \in Phases /\ (r # "OK" => phase' = "FAILED")
         /\ reason' = r /\ reason' \in Reasons
         /\ voltage' = 0 /\ ready' = TRUE
  BY DEF Finish, Phases, Running, Gain, Sweep

(* A run cut short: the data of the run stays.                             *)
LEMMA FailureKeeps ==
  ASSUME CogInv, NEW r \in Reasons \ {"OK"}, Finish(r),
         UNCHANGED <<gains, sum, count, clear_bin, point, target_v, direction>>,
         ticks' \in 0..TimeoutN + 1, dwell' \in Nat, previous' \in 0..Counts - 1,
         pos' \in Int, tgt' \in Int, travel' \in Int, iq_cmd' \in Currents \cup {0},
         r = "TIMEOUT" => LongestMap(target_v) > TimeoutN
  PROVE  CogInv'
<1>1. /\ phase' = "FAILED" /\ phase' \notin Running /\ phase' \in Phases
      /\ reason' = r /\ voltage' = 0 /\ ready' = TRUE
  BY FinishFacts
<1>2. TypeOK'
  BY <1>1 DEF CogInv, TypeOK
<1>3. Timers' /\ Cleared' /\ Tracks' /\ Budget' /\ SweepStartsClean'
  BY <1>1, EndKeeps
<1>4. Recorded'
  BY <1>1 DEF Recorded, Sweep
<1>5. SumsBounded'
  BY DEF CogInv, SumsBounded
<1>6. TimesOutOverBudget'
  BY <1>1 DEF TimesOutOverBudget, LongestMap
<1> QED
  BY <1>2, <1>3, <1>4, <1>5, <1>6 DEF CogInv

LEMMA StartKeeps ==
  ASSUME CogInv, NEW power \in BOOLEAN, NEW plausible \in BOOLEAN, NEW v \in 1..VSteps,
         NEW dir \in {-1, 1}, NEW enc \in 0..Counts - 1,
         Start(power, plausible, v, dir, enc)
  PROVE  CogInv'
<1>1. /\ gains' = {} /\ ticks' = 0 /\ dwell' = 0 /\ clear_bin' = 0 /\ point' = 0
      /\ target_v' = v /\ direction' = dir /\ previous' = enc
      /\ pos' = 0 /\ tgt' = 0 /\ travel' = 0 /\ iq_cmd' = 0
      /\ UNCHANGED <<sum, count>>
  BY DEF Start
<1>2. /\ voltage' = 0 /\ ready' \in BOOLEAN
      /\ phase' \in {"CLEAR", "FAILED"} /\ reason' \in {"NOT_POWERED", "CALIBRATION", "OK"}
  BY DEF Start, Finish, CogInv, TypeOK
<1>3. TypeOK'
  BY <1>1, <1>2, Constants
     DEF CogInv, TypeOK, Phases, Running, Reasons, Currents
<1>4. Timers' /\ Cleared' /\ Tracks' /\ Budget' /\ SweepStartsClean' /\ Recorded'
  BY <1>1, <1>2, Constants
     DEF Timers, Cleared, Tracks, Budget, SweepStartsClean, Recorded, Running, Gain, Sweep
<1>5. SumsBounded' /\ TimesOutOverBudget'
  BY <1>1, <1>2 DEF CogInv, SumsBounded, TimesOutOverBudget
<1> QED
  BY <1>3, <1>4, <1>5 DEF CogInv

LEMMA AbortKeeps ==
  ASSUME CogInv, NEW r \in {"CANCELLED", "FAULT"}, Abort(r) PROVE CogInv'
<1>1. r \in Reasons \ {"OK", "TIMEOUT"}
  BY DEF Reasons
<1>2. /\ Finish(r)
      /\ UNCHANGED <<gains, sum, count, clear_bin, point, target_v, direction>>
      /\ UNCHANGED <<ticks, dwell, previous, pos, tgt, travel, iq_cmd>>
  BY DEF Abort, sweep
<1> QED
  BY <1>1, <1>2, FailureKeeps DEF CogInv, TypeOK

LEMMA AbortedKeeps == ASSUME CogInv, phase \in Running, Aborted PROVE CogInv'
<1>1. /\ UNCHANGED <<gains, sum, count, clear_bin, point, target_v, direction>>
      /\ UNCHANGED <<dwell, previous, pos, tgt, travel, iq_cmd>>
  BY DEF Aborted, sweep
<1>2. ASSUME NEW r \in {"FAULT", "CANCELLED", "NOT_POWERED", "NUMERIC"},
             Finish(r), ticks' = ticks
      PROVE  CogInv'
  <2>1. r \in Reasons \ {"OK", "TIMEOUT"}
    BY DEF Reasons
  <2> QED
    BY <1>1, <1>2, <2>1, FailureKeeps DEF CogInv, TypeOK
<1>3. CASE ticks + 1 > TimeoutN /\ Finish("TIMEOUT") /\ ticks' = ticks + 1
  <2>1. ticks \in Nat /\ ticks <= TimeoutN /\ ticks + 1 <= LongestMap(target_v)
    BY RunFits DEF CogInv, TypeOK, Budget
  <2>2. "TIMEOUT" \in Reasons \ {"OK"}
    BY DEF Reasons
  <2>3. LongestMap(target_v) \in Int
    <3>1. target_v \in Nat
      BY Constants DEF CogInv, TypeOK
    <3> QED
      BY <3>1, PointMaxType, Constants, SweepMaxType
  <2>4. LongestMap(target_v) > TimeoutN /\ ticks' \in 0..TimeoutN + 1
    <3> DEFINE L == LongestMap(target_v)
    <3>1. L \in Int /\ ticks + 1 <= L
      BY <2>1, <2>3
    <3> HIDE DEF L
    <3>2. L > TimeoutN /\ ticks' \in 0..TimeoutN + 1
      BY <1>3, <2>1, <3>1, Constants
    <3> QED
      BY <3>2 DEF L
  <2> QED
    BY <1>1, <1>3, <2>2, <2>4, FailureKeeps DEF CogInv, TypeOK
<1> QED
  BY <1>2, <1>3 DEF Aborted

LEMMA ReleaseKeeps == ASSUME CogInv, Release \/ UNCHANGED vars PROVE CogInv'
<1>1. /\ ready' \in BOOLEAN
      /\ UNCHANGED <<phase, reason, gains, sum, count, ticks, dwell, clear_bin, point,
                     voltage, target_v, direction, previous, pos, tgt, travel, iq_cmd>>
  BY DEF Release, vars, raw, volts, sweep, CogInv, TypeOK
<1>2. TypeOK' /\ Timers' /\ Cleared' /\ Recorded'
  BY <1>1 DEF CogInv, TypeOK, Timers, Cleared, Recorded
<1>3. Tracks' /\ SumsBounded' /\ SweepStartsClean' /\ TimesOutOverBudget'
  BY <1>1 DEF CogInv, Tracks, Near, SumsBounded, SweepStartsClean, TimesOutOverBudget,
              LongestMap
<1>4. Budget'
  BY <1>1 DEF CogInv, Budget, InPoint, InSweeps, PointMax
<1> QED
  BY <1>2, <1>3, <1>4 DEF CogInv

(* A period that goes on.                                                  *)
Ticks ==
  /\ ticks + 1 <= TimeoutN /\ ticks' = ticks + 1
  /\ UNCHANGED <<target_v, direction>>

LEMMA ClearKeeps == ASSUME CogInv, ClearBin, Ticks, GoesOn PROVE CogInv'
<1>1. /\ phase = "CLEAR" /\ clear_bin \in Nat /\ clear_bin < Bins /\ voltage = 0 /\ point = 0
      /\ ticks \in Nat /\ ticks <= clear_bin /\ dwell \in Nat /\ gains = {} /\ target_v >= 1
      /\ target_v \in Nat
  BY Constants DEF ClearBin, CogInv, TypeOK, Timers, Budget, Recorded, Running
<1>2. /\ UNCHANGED <<reason, ready, gains, point, voltage, target_v, direction, previous,
                     pos, tgt, travel, iq_cmd>>
      /\ clear_bin' = clear_bin + 1 /\ ticks' = ticks + 1 /\ ticks + 1 <= TimeoutN
  BY DEF ClearBin, Ticks, GoesOn, sweep
<1>3. IF clear_bin + 1 = Bins THEN phase' = "GAIN_RAMP" /\ dwell' = 0
      ELSE phase' = "CLEAR" /\ dwell' = dwell + 1
  BY <1>1 DEF ClearBin, LastBin, Enter
<1>4. IF clear_bin = Watched THEN sum' = Zero /\ count' = Zero
      ELSE sum' = sum /\ count' = count
  BY DEF ClearBin, SumCleared, Zero
<1>5. TypeOK'
  <2>1. sum' \in [Directions -> Int] /\ count' \in [Directions -> 0..CountMax]
    BY <1>4, Constants DEF CogInv, TypeOK, Zero
  <2>2. phase' \in Phases /\ dwell' \in Nat /\ clear_bin' \in 0..Bins
    BY <1>1, <1>2, <1>3, Constants DEF Phases, Running, Gain
  <2>3. ticks' \in 0..TimeoutN + 1
    BY <1>1, <1>2, Constants
  <2> QED
    BY <1>2, <2>1, <2>2, <2>3 DEF CogInv, TypeOK
<1>6. Timers'
  BY <1>1, <1>2, <1>3, Constants DEF Timers, Running, Gain, Sweep
<1>7. clear_bin' > Watched => sum' = Zero /\ count' = Zero
  BY <1>1, <1>2, <1>4, Constants DEF CogInv, Cleared
<1>8. Cleared' /\ SweepStartsClean'
  BY <1>1, <1>2, <1>3, <1>7, Constants DEF Cleared, SweepStartsClean, Zero, Gain
<1>9. Recorded' /\ Tracks'
  BY <1>1, <1>2, <1>3 DEF Recorded, Tracks, Sweep
<1>10. Budget'
  <2>1. 0 * PointMax(target_v) = 0
    BY <1>1, PointMaxType
  <2>2. point' * PointMax(target_v') = 0
    BY <1>1, <1>2, <2>1
  <2>3. CASE phase' = "CLEAR"
    BY <1>1, <1>2, <2>3, Constants DEF Budget, Gain, Sweep
  <2>4. CASE phase' = "GAIN_RAMP"
    <3>1. InPoint' = 0 /\ ticks' <= Bins
      BY <1>1, <1>2, <1>3, <2>4, Constants DEF InPoint
    <3>2. ticks' <= Bins + point' * PointMax(target_v') + InPoint'
      BY <1>1, <1>2, <2>2, <3>1, Constants
    <3> QED
      BY <1>2, <2>4, <3>2, Constants DEF Budget, Gain, Sweep, PointMax
  <2> QED
    BY <1>3, <2>3, <2>4
<1>11. SumsBounded'
  BY <1>4, Constants DEF CogInv, SumsBounded, TypeOK, Zero, Directions
<1>12. TimesOutOverBudget'
  BY <1>2 DEF CogInv, TimesOutOverBudget, LongestMap
<1> QED
  BY <1>5, <1>6, <1>8, <1>9, <1>10, <1>11, <1>12 DEF CogInv

(* A period of the gain check leaves the sums clean.                       *)
LEMMA GainKeeps ==
  ASSUME CogInv, phase \in Gain, phase' \in Gain, Ticks, GoesOn,
         UNCHANGED <<sum, count, clear_bin, previous, pos, tgt, travel, iq_cmd>>,
         Timers', Recorded', gains' \subseteq 0..Points - 1, voltage' \in 0..target_v,
         dwell' \in Nat, point' \in 0..Points,
         ticks' <= Bins + point' * PointMax(target_v) + InPoint'
  PROVE  CogInv'
<1>1. /\ UNCHANGED <<target_v, direction, reason, ready>>
      /\ ticks' = ticks + 1 /\ ticks + 1 <= TimeoutN /\ ticks \in Nat
  BY DEF Ticks, GoesOn, CogInv, TypeOK
<1>2. TypeOK'
  <2>1. ticks' \in 0..TimeoutN + 1
    BY <1>1, Constants
  <2>2. phase' \in Phases
    BY DEF Phases, Running
  <2> QED
    BY <1>1, <2>1, <2>2 DEF CogInv, TypeOK
<1>3. Cleared' /\ Tracks' /\ SweepStartsClean'
  BY DEF CogInv, Cleared, Tracks, SweepStartsClean, Gain, Sweep
<1>4. Budget'
  <2>1. PointMax(target_v)' = PointMax(target_v)
    BY <1>1 DEF PointMax
  <2> QED
    BY <1>1, <2>1, Constants DEF Budget, Gain, Sweep
<1>5. SumsBounded' /\ TimesOutOverBudget'
  BY <1>1 DEF CogInv, SumsBounded, TimesOutOverBudget, LongestMap
<1> QED
  BY <1>2, <1>3, <1>4, <1>5 DEF CogInv

LEMMA GainTypes ==
  ASSUME CogInv, phase \in Gain
  PROVE  /\ ticks \in Nat /\ dwell \in Nat /\ target_v \in Nat /\ target_v >= 1
         /\ voltage \in 0..target_v /\ point \in 0..Points - 1
         /\ gains \subseteq 0..Points - 1
  BY Constants DEF CogInv, TypeOK, Timers, Running

LEMMA GainBudget ==
  ASSUME CogInv, phase \in Gain
  PROVE  /\ point * PointMax(target_v) \in Nat /\ PointMax(target_v) \in Nat
         /\ ticks <= Bins + point * PointMax(target_v) + InPoint
  BY GainTypes, PointMaxType DEF CogInv, Budget

LEMMA RampKeeps == ASSUME CogInv, Ramp, Ticks, GoesOn PROVE CogInv'
<1>1. phase = "GAIN_RAMP" /\ phase \in Gain
  BY DEF Ramp, Gain
<1>2. /\ voltage < target_v /\ gains = 0..point - 1 /\ voltage' = voltage + 1
      /\ UNCHANGED <<gains, sum, count, clear_bin, point, previous, pos, tgt, travel,
                     iq_cmd, target_v>>
      /\ ticks' = ticks + 1
  BY <1>1 DEF Ramp, Ticks, sweep, CogInv, Timers, Recorded
<1>3. \/ phase' = "GAIN_SETTLE" /\ dwell' = 0 /\ voltage' = target_v
      \/ phase' = "GAIN_RAMP" /\ dwell' = dwell + 1 /\ voltage' < target_v
  BY <1>1, <1>2, GainTypes DEF Ramp, Enter
<1>4. Timers' /\ Recorded'
  BY <1>1, <1>2, <1>3, GainTypes, Constants
     DEF Timers, Recorded, Running, Gain, Sweep
<1>5. ticks' <= Bins + point' * PointMax(target_v) + InPoint'
  <2> DEFINE m == point * PointMax(target_v)
  <2>1. InPoint = voltage /\ InPoint' = voltage + 1
    BY <1>1, <1>2, <1>3, GainTypes DEF InPoint
  <2>2. m \in Nat /\ ticks <= Bins + m + InPoint /\ point' * PointMax(target_v) = m
    BY <1>1, <1>2, GainBudget
  <2>3. ticks \in Nat /\ voltage \in Nat
    BY <1>1, GainTypes
  <2> HIDE DEF m
  <2> QED
    BY <1>2, <2>1, <2>2, <2>3, Constants
<1>6. /\ phase' \in Gain /\ voltage' \in 0..target_v /\ dwell' \in Nat
      /\ gains' \subseteq 0..Points - 1 /\ point' \in 0..Points
  BY <1>1, <1>2, <1>3, GainTypes, Constants DEF Gain
<1> QED
  BY <1>1, <1>2, <1>4, <1>5, <1>6, GainKeeps

LEMMA SettleKeeps == ASSUME CogInv, Settle, Ticks, GoesOn PROVE CogInv'
<1>1. phase = "GAIN_SETTLE" /\ phase \in Gain
  BY DEF Settle, Gain
<1>2. /\ voltage = target_v /\ gains = 0..point - 1 /\ dwell < SettleN
      /\ UNCHANGED <<gains, sum, count, clear_bin, point, previous, pos, tgt, travel,
                     iq_cmd, target_v, voltage>>
      /\ ticks' = ticks + 1
  BY <1>1 DEF Settle, Ticks, sweep, CogInv, Timers, Recorded
<1>3. \/ phase' = "GAIN_AVERAGE" /\ dwell' = 0 /\ dwell + 1 = SettleN
      \/ phase' = "GAIN_SETTLE" /\ dwell' = dwell + 1 /\ dwell' < SettleN
  BY <1>1, <1>2, GainTypes, Constants DEF Settle, Enter
<1>4. Timers' /\ Recorded'
  BY <1>1, <1>2, <1>3, GainTypes, Constants
     DEF Timers, Recorded, Running, Gain, Sweep
<1>5. ticks' <= Bins + point' * PointMax(target_v) + InPoint'
  <2> DEFINE m == point * PointMax(target_v)
  <2>1. InPoint = target_v + dwell /\ InPoint' = target_v + dwell + 1
    <3>1. InPoint = target_v + dwell
      BY <1>1 DEF InPoint
    <3>2. CASE phase' = "GAIN_AVERAGE" /\ dwell' = 0 /\ dwell + 1 = SettleN
      <4>1. InPoint' = target_v' + SettleN + dwell'
        BY <3>2 DEF InPoint
      <4> QED
        BY <1>1, <1>2, <3>1, <3>2, <4>1, GainTypes, Constants
    <3>3. CASE phase' = "GAIN_SETTLE" /\ dwell' = dwell + 1
      <4>1. InPoint' = target_v' + dwell'
        BY <3>3 DEF InPoint
      <4> QED
        BY <1>1, <1>2, <3>1, <3>3, <4>1, GainTypes
    <3> QED
      BY <1>3, <3>2, <3>3
  <2>2. m \in Nat /\ ticks <= Bins + m + InPoint /\ point' * PointMax(target_v) = m
    BY <1>1, <1>2, GainBudget
  <2>3. ticks \in Nat /\ target_v \in Nat /\ dwell \in Nat
    BY <1>1, GainTypes
  <2> HIDE DEF m
  <2> QED
    BY <1>2, <2>1, <2>2, <2>3, Constants
<1>6. /\ phase' \in Gain /\ voltage' \in 0..target_v /\ dwell' \in Nat
      /\ gains' \subseteq 0..Points - 1 /\ point' \in 0..Points
  BY <1>1, <1>2, <1>3, GainTypes, Constants DEF Gain
<1> QED
  BY <1>1, <1>2, <1>4, <1>5, <1>6, GainKeeps

LEMMA AverageKeeps == ASSUME CogInv, Average, Ticks, GoesOn PROVE CogInv'
<1>1. phase = "GAIN_AVERAGE" /\ phase \in Gain
  BY DEF Average, Gain
<1>2. /\ voltage = target_v /\ gains = 0..point - 1 /\ dwell < AverageN
      /\ UNCHANGED <<sum, count, clear_bin, point, previous, pos, tgt, travel,
                     iq_cmd, target_v, voltage>>
      /\ ticks' = ticks + 1
  BY <1>1 DEF Average, Ticks, sweep, CogInv, Timers, Recorded
<1>3. \/ /\ phase' = "GAIN_DECAY" /\ dwell' = 0 /\ dwell + 1 = AverageN
         /\ gains' = gains \cup {point}
      \/ /\ phase' = "GAIN_AVERAGE" /\ dwell' = dwell + 1 /\ dwell' < AverageN
         /\ gains' = gains
  BY <1>1, <1>2, GainTypes, Constants DEF Average, Enter
<1>4. Timers'
  BY <1>1, <1>2, <1>3, GainTypes, Constants DEF Timers, Running, Gain, Sweep
<1>5. Recorded' /\ gains' \subseteq 0..Points - 1
  <2>1. (0..point - 1) \cup {point} = 0..point /\ 0..point \subseteq 0..Points - 1
    BY <1>1, GainTypes, Constants
  <2>2. CASE phase' = "GAIN_DECAY" /\ gains' = gains \cup {point}
    BY <1>2, <2>1, <2>2 DEF Recorded, Sweep
  <2>3. CASE phase' = "GAIN_AVERAGE" /\ gains' = gains
    BY <1>1, <1>2, <2>3, GainTypes DEF Recorded, Sweep
  <2> QED
    BY <1>3, <2>2, <2>3
<1>6. ticks' <= Bins + point' * PointMax(target_v) + InPoint'
  <2> DEFINE m == point * PointMax(target_v)
  <2>1. InPoint = target_v + SettleN + dwell
    BY <1>1 DEF InPoint
  <2>2. InPoint' = InPoint + 1
    <3>1. CASE phase' = "GAIN_DECAY" /\ dwell' = 0 /\ dwell + 1 = AverageN
      <4>1. InPoint' = target_v' + SettleN + AverageN + dwell'
                         + (target_v' - IF voltage' > 0 THEN voltage' ELSE 1)
        BY <3>1 DEF InPoint
      <4> QED
        BY <1>1, <1>2, <2>1, <3>1, <4>1, GainTypes, Constants
    <3>2. CASE phase' = "GAIN_AVERAGE" /\ dwell' = dwell + 1
      <4>1. InPoint' = target_v' + SettleN + dwell'
        BY <3>2 DEF InPoint
      <4> QED
        BY <1>1, <1>2, <2>1, <3>2, <4>1, GainTypes, Constants
    <3> QED
      BY <1>3, <3>1, <3>2
  <2>3. m \in Nat /\ ticks <= Bins + m + InPoint /\ point' * PointMax(target_v) = m
    BY <1>1, <1>2, GainBudget
  <2>4. ticks \in Nat /\ InPoint \in Nat
    BY <1>1, <2>1, GainTypes, Constants
  <2> HIDE DEF m
  <2> QED
    BY <1>2, <2>2, <2>3, <2>4, Constants
<1>7. phase' \in Gain /\ voltage' \in 0..target_v /\ dwell' \in Nat /\ point' \in 0..Points
  BY <1>1, <1>2, <1>3, GainTypes, Constants DEF Gain
<1> QED
  BY <1>1, <1>2, <1>4, <1>5, <1>6, <1>7, GainKeeps

(* What Decay finds.                                                       *)
LEMMA DecayFacts ==
  ASSUME CogInv, phase = "GAIN_DECAY"
  PROVE  /\ phase \in Gain /\ gains = 0..point /\ dwell <= ZeroN
         /\ (voltage > 0 => dwell = 0)
         /\ InPoint = target_v + SettleN + AverageN + dwell
                        + (target_v - IF voltage > 0 THEN voltage ELSE 1)
         /\ InPoint \in Nat
<1>1. /\ phase \in Gain /\ gains = 0..point /\ dwell <= ZeroN
      /\ (voltage > 0 => dwell = 0)
  BY DEF CogInv, Timers, Recorded, Gain
<1>2. InPoint = target_v + SettleN + AverageN + dwell
                  + (target_v - IF voltage > 0 THEN voltage ELSE 1)
  BY DEF InPoint
<1> QED
  BY <1>1, <1>2, GainTypes, Constants

LEMMA LowerKeeps ==
  ASSUME CogInv, phase = "GAIN_DECAY", Lower, UNCHANGED <<gains, sum, count, clear_bin>>,
         Ticks, GoesOn
  PROVE  CogInv'
<1>1. /\ UNCHANGED <<phase, point, previous, pos, tgt, travel, iq_cmd, target_v>>
      /\ ticks' = ticks + 1 /\ phase \in Gain
  BY DecayFacts DEF Lower, Ticks, sweep
<1>2. \/ voltage > 1 /\ voltage' = voltage - 1 /\ dwell' = 0
      \/ voltage <= 1 /\ dwell < ZeroN /\ voltage' = 0 /\ dwell' = dwell + 1
  BY <1>1, GainTypes, Constants DEF Lower, Waited
<1>3. Timers' /\ Recorded'
  BY <1>1, <1>2, DecayFacts, GainTypes, Constants
     DEF Timers, Recorded, Running, Gain, Sweep
<1>4. InPoint' = InPoint + 1
  <2>1. InPoint' = target_v' + SettleN + AverageN + dwell'
                     + (target_v' - IF voltage' > 0 THEN voltage' ELSE 1)
    BY <1>1 DEF InPoint
  <2>2. InPoint = target_v + SettleN + AverageN + dwell
                    + (target_v - IF voltage > 0 THEN voltage ELSE 1)
    BY DecayFacts
  <2>3. /\ target_v' = target_v /\ target_v \in Nat /\ dwell \in Nat /\ voltage \in Nat
        /\ (voltage > 0 => dwell = 0)
    BY <1>1, DecayFacts, GainTypes
  <2>4. SettleN \in Nat /\ AverageN \in Nat
    BY Constants
  <2>5. CASE voltage > 1 /\ voltage' = voltage - 1 /\ dwell' = 0
    BY <2>1, <2>2, <2>3, <2>4, <2>5
  <2>6. CASE voltage <= 1 /\ voltage' = 0 /\ dwell' = dwell + 1
    BY <2>1, <2>2, <2>3, <2>4, <2>6
  <2> QED
    BY <1>2, <2>5, <2>6
<1>5. ticks' <= Bins + point' * PointMax(target_v) + InPoint'
  <2> DEFINE m == point * PointMax(target_v)
  <2>1. m \in Nat /\ ticks <= Bins + m + InPoint /\ point' * PointMax(target_v) = m
    BY <1>1, GainBudget
  <2>2. ticks \in Nat /\ InPoint \in Nat
    BY <1>1, DecayFacts, GainTypes
  <2> HIDE DEF m
  <2> QED
    BY <1>1, <1>4, <2>1, <2>2, Constants
<1>6. /\ phase' \in Gain /\ voltage' \in 0..target_v /\ dwell' \in Nat
      /\ gains' \subseteq 0..Points - 1 /\ point' \in 0..Points
  BY <1>1, <1>2, GainTypes, Constants
<1> QED
  BY <1>1, <1>3, <1>5, <1>6, GainKeeps

LEMMA NextPointKeeps ==
  ASSUME CogInv, phase = "GAIN_DECAY", NextPoint,
         UNCHANGED <<gains, sum, count, clear_bin>>, Ticks, GoesOn
  PROVE  CogInv'
<1> DEFINE m == PointMax(target_v)
<1>1. /\ voltage <= 1 /\ dwell >= ZeroN /\ voltage' = 0 /\ point' = point + 1
      /\ dwell' = 0 /\ target_v' = target_v /\ ticks' = ticks + 1 /\ ticks + 1 <= TimeoutN
      /\ UNCHANGED <<travel, direction, reason, ready>>
  BY DEF NextPoint, Waited, Enter, Ticks, GoesOn, sweep
<1>2. /\ phase \in Gain /\ gains = 0..point /\ ticks \in Nat /\ target_v \in Nat
      /\ target_v >= 1 /\ point \in 0..Points - 1
  BY DecayFacts, GainTypes
<1>3. InPoint + 1 = m
  <2>1. /\ voltage \in {0, 1} /\ dwell = ZeroN
        /\ (IF voltage > 0 THEN voltage ELSE 1) = 1
    <3>1. voltage \in Nat /\ dwell \in Nat /\ dwell <= ZeroN
      BY <1>2, DecayFacts, GainTypes
    <3> QED
      BY <1>1, <3>1, Constants
  <2>2. InPoint = target_v + SettleN + AverageN + ZeroN + (target_v - 1)
    BY <2>1, DecayFacts
  <2> QED
    BY <1>2, <2>2, Constants DEF PointMax
<1>4. ticks' <= Bins + (point + 1) * m
  <2> DEFINE p == point * m
             q == (point + 1) * m
  <2> SUFFICES ticks' <= Bins + q
    OBVIOUS
  <2>1. p \in Nat /\ m \in Nat /\ q = p + m /\ ticks <= Bins + p + InPoint
    BY <1>2, GainBudget, PointMaxType
  <2> HIDE DEF p, q, m
  <2> QED
    BY <1>1, <1>2, <1>3, <2>1, Constants, DecayFacts
<1>5. CASE point + 1 # Points
  <2>1. /\ phase' = "GAIN_RAMP" /\ phase' \in Gain
        /\ UNCHANGED <<previous, pos, tgt, travel, iq_cmd>>
    BY <1>5 DEF NextPoint, Enter, sweep, Gain
  <2>2. Timers' /\ Recorded'
    BY <1>1, <1>2, <1>5, <2>1, Constants DEF Timers, Recorded, Running, Gain, Sweep
  <2>3. ticks' <= Bins + point' * m + InPoint'
    <3>1. InPoint' = 0 /\ (point + 1) * m \in Nat
      BY <1>1, <1>2, <1>5, <2>1, PointMaxType DEF InPoint
    <3>2. point' * m = (point + 1) * m
      BY <1>1
    <3> HIDE DEF m
    <3> QED
      BY <1>4, <3>1, <3>2, Constants
  <2> QED
    BY <1>1, <1>2, <2>1, <2>2, <2>3, GainTypes, GainKeeps, Constants
<1>6. CASE point + 1 = Points
  <2>1. /\ phase' = "FORWARD_SETTLE" /\ previous' \in 0..Counts - 1
        /\ pos' = 0 /\ tgt' = 0 /\ iq_cmd' = 0
    BY <1>6 DEF NextPoint, Enter
  <2>2. TypeOK'
    <3>1. /\ ticks' \in 0..TimeoutN + 1 /\ point' \in 0..Points /\ dwell' \in Nat
          /\ voltage' \in 0..target_v'
      BY <1>1, <1>2, Constants
    <3>2. phase' \in Phases
      BY <2>1 DEF Phases, Running, Sweep
    <3> QED
      BY <1>1, <2>1, <3>1, <3>2 DEF CogInv, TypeOK
  <2>3. Timers' /\ Cleared' /\ Recorded'
    BY <1>1, <1>2, <1>6, <2>1, Constants
       DEF Timers, Cleared, Recorded, Running, Gain, Sweep
  <2>4. SweepStartsClean' /\ SumsBounded' /\ TimesOutOverBudget'
    BY <1>1, <1>2, <2>1
       DEF CogInv, SweepStartsClean, SumsBounded, TimesOutOverBudget, LongestMap, Gain
  <2>5. Tracks'
    <3>1. Near(0, 0)
      BY Constants DEF Near
    <3> QED
      BY <2>1, <3>1 DEF Tracks, Near
  <2>6. Budget'
    <3>1. InSweeps' = 0
      BY <1>1, <2>1 DEF InSweeps
    <3>2. PointMax(target_v') = m /\ (point + 1) * m = Points * m /\ Points * m \in Nat
      BY <1>1, <1>2, <1>6, PointMaxType
    <3>3. ticks' <= Bins + Points * PointMax(target_v') + InSweeps'
      BY <1>4, <3>1, <3>2, Constants
    <3> QED
      BY <1>1, <2>1, <3>3 DEF Budget, Gain, Sweep, PointMax
  <2> QED
    BY <2>2, <2>3, <2>4, <2>5, <2>6 DEF CogInv
<1> QED
  BY <1>5, <1>6
-----------------------------------------------------------------------------
(* The position-loop sweep                                                 *)

LEMMA MovedType ==
  ASSUME CogInv, NEW in \in Inputs PROVE Moved(in) \in Int
<1>1. in.enc \in Int /\ previous \in Int /\ direction \in {-1, 0, 1} /\ Counts \in Nat \ {0}
  BY Constants DEF CogInv, TypeOK, Inputs
<1>2. Delta(in) \in Int
  BY <1>1 DEF Delta
<1> QED
  BY <1>1, <1>2, Products DEF Moved

(* A sweep begins where the rotor and its target are.                      *)
LEMMA SweepBegins ==
  ASSUME NEW t \in Int, NEW p \in Int, NEW n, NEW u, n = 0, u = 0, Near(t, p)
  PROVE  Near(t - Rate * n, p - u) /\ Near(t + Rate * n, p + u)
<1>1. /\ Rate * 0 = 0 /\ t - 0 = t /\ t + 0 = t /\ p - 0 = p /\ p + 0 = p
  BY Constants
<1>2. Near(t - Rate * 0, p - 0) /\ Near(t + Rate * 0, p + 0)
  BY <1>1
<1> QED
  BY <1>2

LEMMA OneMore ==
  ASSUME NEW t \in Nat, NEW i \in Nat, NEW j \in Nat, NEW b \in Nat, NEW m \in Nat,
         t <= b + m + i, j >= i + 1
  PROVE  t + 1 <= b + m + j
  OBVIOUS

LEMMA PositionFacts ==
  ASSUME CogInv, NEW in \in Inputs, Position(in), Ticks
  PROVE  /\ phase \in Sweep /\ phase \in Running /\ voltage = 0
         /\ previous' \in 0..Counts - 1
         /\ pos \in Int /\ tgt \in Int /\ travel \in Int /\ dwell \in Nat
         /\ pos' = pos + Moved(in) /\ tgt' = TargetAfter
         /\ pos' \in Int /\ tgt' \in Int
         /\ ticks \in Nat /\ ticks' = ticks + 1 /\ ticks + 1 <= TimeoutN
         /\ UNCHANGED <<gains, clear_bin, point, target_v, direction>>
         /\ in.iq \in Currents
         /\ (Follows(in) => Near(tgt', pos'))
<1>1. /\ phase \in Sweep /\ phase \in Running /\ voltage = 0
      /\ pos \in Int /\ tgt \in Int /\ travel \in Int /\ dwell \in Nat /\ ticks \in Nat
  BY Constants DEF CogInv, TypeOK, Timers, Position, Running
<1>2. /\ previous' = in.enc /\ pos' = pos + Moved(in) /\ tgt' = TargetAfter
      /\ ticks' = ticks + 1 /\ ticks + 1 <= TimeoutN
      /\ UNCHANGED <<gains, clear_bin, point, target_v, direction>>
  BY DEF Position, Ticks
<1>3. in.enc \in 0..Counts - 1 /\ in.iq \in Currents
  BY DEF Inputs
<1>4. pos' \in Int /\ tgt' \in Int
  BY <1>1, <1>2, MovedType, Constants DEF TargetAfter
<1>5. Follows(in) => Near(tgt', pos')
  BY <1>2 DEF Follows, Near
<1> QED
  BY <1>1, <1>2, <1>3, <1>4, <1>5

(* A period of a sweep that goes on.                                       *)
LEMMA SweepKeeps ==
  ASSUME CogInv, NEW in \in Inputs, Position(in), Ticks, GoesOn,
         phase' \in Sweep, voltage' = voltage,
         sum' \in [Directions -> Int], count' \in [Directions -> 0..CountMax],
         SumsBounded', SweepStartsClean', Tracks',
         dwell' \in Nat, phase' \in {"FORWARD_SETTLE", "REVERSE_SETTLE"} => dwell' < HoldN,
         travel' \in Int, iq_cmd' \in Currents \cup {0},
         InSweeps \in Nat, InSweeps' \in Nat, InSweeps' >= InSweeps + 1
  PROVE  CogInv'
<1>1. TypeOK'
  <2>1. ticks' \in 0..TimeoutN + 1
    BY PositionFacts, Constants
  <2>2. phase' \in Phases
    BY DEF Phases, Running
  <2> QED
    BY <2>1, <2>2, PositionFacts DEF CogInv, TypeOK, GoesOn
<1>2. Timers' /\ Cleared' /\ Recorded'
  BY PositionFacts DEF CogInv, Timers, Cleared, Recorded, Running, Gain, Sweep
<1>3. TimesOutOverBudget'
  BY PositionFacts DEF CogInv, TimesOutOverBudget, LongestMap, GoesOn
<1>4. Budget'
  <2> DEFINE m == Points * PointMax(target_v)
  <2>1. m \in Nat /\ ticks <= Bins + m + InSweeps /\ target_v' = target_v
    <3>1. target_v \in Nat /\ phase \in Sweep /\ target_v' = target_v
      BY PositionFacts, Constants DEF CogInv, TypeOK
    <3> QED
      BY <3>1, PointMaxType DEF CogInv, Budget
  <2>2. ticks \in Nat /\ ticks' = ticks + 1 /\ ticks + 1 <= TimeoutN
    BY PositionFacts
  <2>3. ticks' <= Bins + m + InSweeps' /\ ticks' <= TimeoutN
    <3>1. Bins \in Nat /\ InSweeps \in Nat /\ InSweeps' \in Nat
      BY Constants
    <3> HIDE DEF m
    <3> QED
      BY <2>1, <2>2, <3>1, OneMore
  <2> QED
    BY <2>1, <2>3 DEF Budget, Gain, Sweep, PointMax
<1> QED
  BY <1>1, <1>2, <1>3, <1>4 DEF CogInv

LEMMA HoldingKeeps ==
  ASSUME CogInv, NEW in \in Inputs, Position(in), Holding(in), Ticks PROVE CogInv'
<1>1. /\ phase \in {"FORWARD_SETTLE", "REVERSE_SETTLE"} /\ Near(tgt', pos')
      /\ iq_cmd' \in Currents \cup {0} /\ GoesOn
      /\ UNCHANGED <<sum, count, voltage>>
  BY PositionFacts DEF Holding
<1>2. dwell \in Nat /\ dwell < HoldN /\ travel \in Int
  BY <1>1, PositionFacts DEF CogInv, Timers
<1>3. \/ /\ dwell + 1 = HoldN /\ dwell' = 0 /\ travel' = 0
         /\ phase' = IF phase = "FORWARD_SETTLE" THEN "FORWARD" ELSE "REVERSE"
      \/ /\ dwell + 1 # HoldN /\ dwell' = dwell + 1
         /\ UNCHANGED <<phase, travel>>
  BY DEF Holding, Enter
<1>4. SumsBounded' /\ SweepStartsClean'
  BY <1>1, <1>3 DEF CogInv, SumsBounded, SweepStartsClean, Gain, Directions
<1>5. Tracks'
  <2>1. CASE phase' \in {"FORWARD", "REVERSE"} /\ travel' = 0 /\ dwell' = 0
    <3>1. /\ Near(tgt' - Rate * dwell', pos' - travel')
          /\ Near(tgt' + Rate * dwell', pos' + travel')
      BY <1>1, <2>1, PositionFacts, SweepBegins
    <3> QED
      BY <1>1, <2>1, <3>1, Constants DEF Tracks, Near
  <2>2. CASE phase' = phase
    BY <1>1, <2>2 DEF Tracks, Near
  <2> QED
    BY <1>1, <1>3, <2>1, <2>2
<1>6. InSweeps \in Nat /\ InSweeps' \in Nat /\ InSweeps' >= InSweeps + 1
  BY <1>1, <1>2, <1>3, Constants, SweepMaxType DEF InSweeps
<1>7. /\ phase' \in Sweep /\ dwell' \in Nat /\ travel' \in Int
      /\ phase' \in {"FORWARD_SETTLE", "REVERSE_SETTLE"} => dwell' < HoldN
  BY <1>1, <1>2, <1>3, Constants DEF Sweep
<1>8. sum' \in [Directions -> Int] /\ count' \in [Directions -> 0..CountMax]
  BY <1>1 DEF CogInv, TypeOK
<1> QED
  BY <1>1, <1>4, <1>5, <1>6, <1>7, <1>8, SweepKeeps

LEMMA SlippedKeeps ==
  ASSUME CogInv, NEW in \in Inputs, Position(in), Ticks,
         Slipped(in) \/ Overflow(in)
  PROVE  CogInv'
<1>1. /\ UNCHANGED <<sum, count, travel, iq_cmd>> /\ dwell' = dwell + 1
      /\ \E r \in {"SLIP", "OVERFLOW"} : Finish(r)
  BY DEF Slipped, Overflow
<1>2. PICK r \in {"SLIP", "OVERFLOW"} : Finish(r)
  BY <1>1
<1>3. r \in Reasons \ {"OK", "TIMEOUT"}
  BY DEF Reasons
<1>4. /\ ticks' \in 0..TimeoutN + 1 /\ dwell' \in Nat
      /\ travel' \in Int /\ iq_cmd' \in Currents \cup {0}
  BY <1>1, PositionFacts, Constants DEF CogInv, TypeOK
<1> QED
  BY <1>1, <1>2, <1>3, <1>4, PositionFacts, FailureKeeps

(* One more sample keeps the sums within what their counts allow.          *)
LEMMA SampleFits ==
  ASSUME NEW s \in Int, NEW n \in Nat, NEW i \in Currents \cup {0},
         -IMax * n <= s, s <= IMax * n
  PROVE  -IMax * (n + 1) <= s + i /\ s + i <= IMax * (n + 1)
<1>1. IMax * (n + 1) = IMax * n + IMax /\ IMax * n \in Nat /\ IMax \in Nat
  BY Constants
<1>2. -IMax * (n + 1) = -(IMax * n) - IMax /\ -IMax * n = -(IMax * n)
  BY <1>1
<1>3. i \in Int /\ -IMax <= i /\ i <= IMax
  BY Constants DEF Currents
<1> DEFINE b == IMax * n
<1>4. -b <= s /\ s <= b /\ b \in Int
  BY <1>1, <1>2
<1>5. -b - IMax <= s + i /\ s + i <= b + IMax
  <2> HIDE DEF b
  <2> QED
    BY <1>1, <1>3, <1>4
<1> QED
  BY <1>1, <1>2, <1>5

(* What a sample does to the sums of the watched bin.                      *)
LEMMA SampleSums ==
  ASSUME CogInv, NEW in \in Inputs, Sample(in)
  PROVE  /\ sum' \in [Directions -> Int] /\ count' \in [Directions -> 0..CountMax]
         /\ SumsBounded'
         /\ \A d \in Directions \ {Way} : sum'[d] = sum[d] /\ count'[d] = count[d]
<1>1. /\ Way \in Directions /\ IMax \in Nat /\ CountMax \in Nat
      /\ sum \in [Directions -> Int] /\ count \in [Directions -> 0..CountMax]
      /\ iq_cmd \in Currents \cup {0} /\ iq_cmd \in Int /\ SumsBounded
  BY Constants DEF CogInv, TypeOK, Way, Directions, Currents
<1>2. CASE ~Here(in)
  <2>1. sum' = sum /\ count' = count
    BY <1>2 DEF Sample
  <2> QED
    BY <1>1, <2>1 DEF SumsBounded
<1>3. CASE Here(in)
  <2>1. /\ sum' = [sum EXCEPT ![Way] = @ + iq_cmd]
        /\ count' = [count EXCEPT ![Way] = (@ + 1) % (CountMax + 1)]
        /\ count[Way] # CountMax
    BY <1>3 DEF Sample, Full
  <2>2. /\ count[Way] \in Nat /\ count[Way] + 1 \in 0..CountMax
        /\ sum[Way] \in Int /\ sum[Way] + iq_cmd \in Int
        /\ (count[Way] + 1) % (CountMax + 1) = count[Way] + 1
    BY <1>1, <2>1
  <2>3. /\ sum'[Way] = sum[Way] + iq_cmd /\ count'[Way] = count[Way] + 1
        /\ \A d \in Directions \ {Way} : sum'[d] = sum[d] /\ count'[d] = count[d]
    BY <1>1, <2>1, <2>2
  <2>4. sum' \in [Directions -> Int] /\ count' \in [Directions -> 0..CountMax]
    BY <1>1, <2>1, <2>2
  <2>5. -IMax * count'[Way] <= sum'[Way] /\ sum'[Way] <= IMax * count'[Way]
    <3>1. -IMax * count[Way] <= sum[Way] /\ sum[Way] <= IMax * count[Way]
      BY <1>1 DEF SumsBounded
    <3> QED
      BY <1>1, <2>2, <2>3, <3>1, SampleFits
  <2>6. SumsBounded'
    BY <1>1, <2>3, <2>5 DEF SumsBounded
  <2> QED
    BY <2>3, <2>4, <2>6
<1> QED
  BY <1>2, <1>3

(* The target and the way the rotor has come advance together.             *)
LEMMA SampleTracks ==
  ASSUME CogInv, NEW in \in Inputs, Position(in), Sample(in), Ticks,
         phase' = phase, dwell' = dwell + 1, travel' < Travel
  PROVE  Tracks'
<1>1. /\ phase \in {"FORWARD", "REVERSE"} /\ Near(tgt', pos')
      /\ pos' = pos + Moved(in) /\ tgt' = TargetAfter /\ travel' = Advanced(in)
      /\ pos \in Int /\ tgt \in Int /\ travel \in Int /\ dwell \in Nat /\ Moved(in) \in Int
  BY PositionFacts, MovedType DEF Sample
<1>2. Rate * dwell' = Rate * dwell + Rate /\ Rate * dwell \in Int /\ Rate \in Int
  BY <1>1, Constants
<1>3. CASE phase = "FORWARD"
  <2>1. tgt' = tgt + Rate /\ travel' = travel + Moved(in)
    BY <1>1, <1>3 DEF TargetAfter, Advanced, Way
  <2>2. tgt' - Rate * dwell' = tgt - Rate * dwell /\ pos' - travel' = pos - travel
    BY <1>1, <1>2, <2>1
  <2>3. Near(tgt - Rate * dwell, pos - travel)
    BY <1>3 DEF CogInv, Tracks
  <2>4. Near(tgt' - Rate * dwell', pos' - travel')
    BY <2>2, <2>3
  <2> QED
    BY <1>1, <1>3, <2>4 DEF Tracks, Near, Sweep
<1>4. CASE phase = "REVERSE"
  <2>1. tgt' = tgt - Rate /\ travel' = travel - Moved(in)
    BY <1>1, <1>4 DEF TargetAfter, Advanced, Way
  <2>2. tgt' + Rate * dwell' = tgt + Rate * dwell /\ pos' + travel' = pos + travel
    BY <1>1, <1>2, <2>1
  <2>3. Near(tgt + Rate * dwell, pos + travel)
    BY <1>4 DEF CogInv, Tracks
  <2>4. Near(tgt' + Rate * dwell', pos' + travel')
    BY <2>2, <2>3
  <2> QED
    BY <1>1, <1>4, <2>4 DEF Tracks, Near, Sweep
<1> QED
  BY <1>1, <1>3, <1>4

LEMMA SampleKeeps ==
  ASSUME CogInv, NEW in \in Inputs, Position(in), Sample(in), Ticks PROVE CogInv'
<1>1. /\ phase \in {"FORWARD", "REVERSE"} /\ Near(tgt', pos')
      /\ iq_cmd' \in Currents \cup {0} /\ dwell \in Nat
      /\ travel' \in Int /\ travel' = Advanced(in)
  BY PositionFacts, MovedType DEF Sample, Advanced
<1>2. /\ sum' \in [Directions -> Int] /\ count' \in [Directions -> 0..CountMax]
      /\ SumsBounded'
      /\ \A d \in Directions \ {Way} : sum'[d] = sum[d] /\ count'[d] = count[d]
  BY SampleSums
<1>3. dwell < SweepMax /\ SweepMax \in Nat /\ HoldN \in Nat /\ HoldN > 0
  BY <1>1, SweepShort, SweepMaxType, Constants DEF CogInv
<1>4. phase = "FORWARD" => count'[1] = 0 /\ sum'[1] = 0
  BY <1>2 DEF CogInv, SweepStartsClean, Way, Directions
<1>5. CASE travel' < Travel
  <2>1. phase' = phase /\ dwell' = dwell + 1 /\ voltage' = voltage /\ GoesOn
    BY <1>1, <1>5 DEF Sample
  <2>2. Tracks'
    BY <1>5, <2>1, SampleTracks
  <2>3. SweepStartsClean'
    BY <1>1, <1>4, <2>1 DEF SweepStartsClean, Gain
  <2>4. InSweeps \in Nat /\ InSweeps' \in Nat /\ InSweeps' >= InSweeps + 1
    BY <1>1, <1>3, <2>1 DEF InSweeps
  <2>5. /\ phase' \in Sweep /\ dwell' \in Nat
        /\ phase' \in {"FORWARD_SETTLE", "REVERSE_SETTLE"} => dwell' < HoldN
    BY <1>1, <2>1 DEF Sweep
  <2> QED
    BY <1>1, <1>2, <2>1, <2>2, <2>3, <2>4, <2>5, SweepKeeps
<1>6. CASE ~(travel' < Travel) /\ phase = "FORWARD"
  <2>1. phase' = "REVERSE_SETTLE" /\ dwell' = 0 /\ voltage' = voltage /\ GoesOn
    BY <1>1, <1>6 DEF Sample, Way, Enter
  <2>2. Tracks' /\ SweepStartsClean'
    BY <1>1, <1>4, <1>6, <2>1 DEF Tracks, Near, SweepStartsClean, Gain
  <2>3. InSweeps \in Nat /\ InSweeps' \in Nat /\ InSweeps' >= InSweeps + 1
    BY <1>1, <1>3, <1>6, <2>1 DEF InSweeps
  <2>4. /\ phase' \in Sweep /\ dwell' \in Nat
        /\ phase' \in {"FORWARD_SETTLE", "REVERSE_SETTLE"} => dwell' < HoldN
    BY <1>3, <2>1 DEF Sweep
  <2> QED
    BY <1>1, <1>2, <2>1, <2>2, <2>3, <2>4, SweepKeeps
<1>7. CASE ~(travel' < Travel) /\ phase = "REVERSE"
  <2>1. Finish("OK") /\ dwell' = dwell + 1
    BY <1>1, <1>7 DEF Sample, Way
  <2>2. "OK" \in Reasons
    BY DEF Reasons
  <2>3. /\ phase' \notin Running /\ phase' \in Phases /\ phase' = "DONE"
        /\ reason' = "OK" /\ voltage' = 0 /\ ready' = TRUE
    BY <2>1, <2>2, FinishFacts DEF Finish
  <2>4. TypeOK'
    <3>1. ticks' \in 0..TimeoutN + 1 /\ dwell' \in Nat
      BY <1>1, <2>1, PositionFacts, Constants
    <3> QED
      BY <1>1, <1>2, <2>2, <2>3, <3>1, PositionFacts DEF CogInv, TypeOK
  <2>5. Timers' /\ Cleared' /\ Tracks' /\ Budget' /\ SweepStartsClean'
    BY <2>3, EndKeeps
  <2>6. Recorded' /\ TimesOutOverBudget'
    BY <2>3, PositionFacts DEF CogInv, Recorded, TimesOutOverBudget, Sweep
  <2> QED
    BY <1>2, <2>4, <2>5, <2>6 DEF CogInv
<1> QED
  BY <1>1, <1>5, <1>6, <1>7

LEMMA PeriodKeeps == ASSUME CogInv, Period PROVE CogInv'
<1>1. Ticks
  BY DEF Period, Ticks
<1>2. ASSUME NEW in \in Inputs, Position(in) PROVE CogInv'
  BY <1>1, <1>2, SlippedKeeps, HoldingKeeps, SampleKeeps DEF Position
<1>3. ASSUME ClearBin \/ Ramp \/ Settle \/ Average \/ Decay, GoesOn PROVE CogInv'
  <2>1. ASSUME Decay PROVE CogInv'
    BY <1>1, <1>3, <2>1, LowerKeeps, NextPointKeeps DEF Decay
  <2> QED
    BY <1>1, <1>3, <2>1, ClearKeeps, RampKeeps, SettleKeeps, AverageKeeps
<1> QED
  BY <1>2, <1>3 DEF Period

LEMMA InitCog == ASSUME Init PROVE CogInv
<1>1. TypeOK
  <2>1. /\ phase = "IDLE" /\ reason = "OK" /\ gains = {} /\ ready = FALSE
        /\ ticks = 0 /\ dwell = 0 /\ clear_bin = 0 /\ point = 0
        /\ voltage = 0 /\ target_v = 0 /\ direction = 0 /\ previous = 0
        /\ pos = 0 /\ tgt = 0 /\ travel = 0 /\ iq_cmd = 0
    BY DEF Init
  <2>2. sum \in [Directions -> Int] /\ count \in [Directions -> 0..CountMax]
    BY Constants DEF Init
  <2>3. phase \in Phases /\ reason \in Reasons
    BY <2>1 DEF Phases, Reasons
  <2>4. 0 \in 0..TimeoutN + 1 /\ 0 \in 0..Bins /\ 0 \in 0..Points /\ 0 \in 0..VSteps
        /\ 0 \in 0..Counts - 1 /\ 0 \in 0..0
    BY Constants
  <2>5. /\ ready \in BOOLEAN /\ ticks \in 0..TimeoutN + 1 /\ dwell \in Nat
        /\ clear_bin \in 0..Bins /\ point \in 0..Points
    BY <2>1, <2>4
  <2>6. voltage \in 0..target_v /\ target_v \in 0..VSteps
    BY <2>1, <2>4
  <2>7. /\ direction \in {-1, 0, 1} /\ previous \in 0..Counts - 1
        /\ pos \in Int /\ tgt \in Int /\ travel \in Int
    BY <2>1, <2>4
  <2>8. iq_cmd \in Currents \cup {0} /\ gains \subseteq 0..Points - 1
    BY <2>1
  <2> QED
    BY <2>2, <2>3, <2>5, <2>6, <2>7, <2>8 DEF TypeOK
<1>2. SumsBounded
  BY Constants DEF Init, SumsBounded
<1> QED
  BY <1>1, <1>2
     DEF CogInv, Init, Timers, Cleared, Recorded, Tracks, Budget, SweepStartsClean,
         TimesOutOverBudget, Running, Gain, Sweep

(* The invariant holds in every reachable state.                           *)
THEOREM CogInvariant == Spec => []CogInv
<1>1. CogInv /\ [Next]_vars => CogInv'
  BY StartKeeps, AbortKeeps, ReleaseKeeps, AbortedKeeps, PeriodKeeps DEF Next, Step
<1> QED
  BY <1>1, InitCog, PTL DEF Spec
-----------------------------------------------------------------------------
(* The results                                                             *)

(* Type correctness of the sequencer.                                      *)
THEOREM CogTypes == Spec => []TypeOK
<1>1. CogInv => TypeOK
  BY DEF CogInv
<1> QED
  BY <1>1, CogInvariant, PTL

(* cog_map.c:8-11 - the sums stay within what their counters allow, for    *)
(* every current limit and every width of the counters.                    *)
THEOREM CogSumsBounded == Spec => []SumsBounded
<1>1. CogInv => SumsBounded
  BY DEF CogInv
<1> QED
  BY <1>1, CogInvariant, PTL

(* cog_map.c:27 - a sweep adds nothing to the sums of an earlier run.      *)
THEOREM CogStartsClean == Spec => []SweepStartsClean
<1>1. CogInv => SweepStartsClean
  BY DEF CogInv
<1> QED
  BY <1>1, CogInvariant, PTL

(* cog_map.h:13 - a run meets the timeout only when its gain-check ramps   *)
(* leave no room for the sweeps, however the rotor moves.                  *)
THEOREM CogEndsInTime == Spec => []TimesOutOverBudget
<1>1. CogInv => TimesOutOverBudget
  BY DEF CogInv
<1> QED
  BY <1>1, CogInvariant, PTL

(* cog_map.c:132-134 - the angle of the gain check never steps under       *)
(* voltage, and only after the voltage has been zero for the whole wait.   *)
THEOREM CogAngleUnexcited == Spec => AngleStepsUnexcited
<1> DEFINE A == phase \in Running /\ point' # point
                  => voltage = 0 /\ voltage' = 0 /\ dwell >= ZeroN
<1>1. CogInv /\ [Next]_vars => [A]_vars
  <2> SUFFICES ASSUME CogInv, Next, phase \in Running, point' # point
               PROVE  voltage = 0 /\ voltage' = 0 /\ dwell >= ZeroN
    OBVIOUS
  <2>1. phase = "GAIN_DECAY" /\ NextPoint
    <3>1. Step
      BY DEF Next, Start, MayStart, Abort, Release
    <3>2. Period
      BY <3>1 DEF Step, Aborted
    <3> QED
      BY <3>2 DEF Period, ClearBin, Ramp, Settle, Average, Decay, Lower, Position
  <2>2. /\ voltage <= 1 /\ dwell >= ZeroN /\ voltage' = 0
        /\ (voltage > 0 => dwell = 0) /\ voltage \in Nat /\ dwell \in Nat
    BY <2>1, DecayFacts, GainTypes DEF NextPoint, Waited
  <2> QED
    BY <2>2, Constants
<1> QED
  BY <1>1, CogInvariant, PTL DEF Spec, AngleStepsUnexcited

(* A map that is done has recorded the gain of every angle, and its        *)
(* voltage is off, whatever ended the run.                                 *)
MapIsComplete ==
  /\ phase = "DONE" => gains = 0..Points - 1
  /\ phase \notin Running => voltage = 0

(* cog_map.c:113-137 - the sequencer reaches DONE only through all angles. *)
THEOREM CogMapComplete == Spec => []MapIsComplete
<1>1. CogInv => MapIsComplete
  BY DEF CogInv, Recorded, Timers, MapIsComplete
<1> QED
  BY <1>1, CogInvariant, PTL
=============================================================================

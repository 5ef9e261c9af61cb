---------------------------- MODULE MotionProofs ----------------------------
(***************************************************************************)
(* Proofs about module Motion, for every value of its constants: the       *)
(* open-loop rotation is exact over any number of periods, and no history  *)
(* of an unpowered period reaches a powered one.                           *)
(***************************************************************************)
EXTENDS Motion, TLAPS

(* The phase arithmetic of one period.                                     *)
OlType ==
  /\ ol_phase \in Int /\ ol_remainder \in Int
  /\ ol_start \in Int /\ ol_sum \in Int

(* OpenLoopExact without division: some whole number of units was moved.   *)
Carried(phase, remainder, start, sum) ==
  /\ -OL_PERIODS_PER_S < remainder /\ remainder < OL_PERIODS_PER_S
  /\ \E units \in Int :
       /\ units * OL_PERIODS_PER_S = OL_PHASE_ONE * sum - remainder
       /\ phase = (start + units) % OL_TURN

ExactInv == OlType /\ Carried(ol_phase, ol_remainder, ol_start, ol_sum)

LEMMA ClampedIsInt == ASSUME NEW rate \in Int PROVE Clamped(rate) \in Int
  BY SMT DEF Clamped, OL_RATE_MAX

(* C division: what is left has the magnitude of less than one divisor.    *)
LEMMA TruncDivRemainder ==
  ASSUME NEW a \in Int
  PROVE  LET q == TruncDiv(a, OL_PERIODS_PER_S)
         IN  /\ q \in Int
             /\ -OL_PERIODS_PER_S < a - OL_PERIODS_PER_S * q
             /\ a - OL_PERIODS_PER_S * q < OL_PERIODS_PER_S
  BY SMT DEF TruncDiv, OL_PERIODS_PER_S

(* Wrapping before or after an addition makes no difference.               *)
LEMMA WrapAdds ==
  ASSUME NEW a \in Int, NEW b \in Int
  PROVE  ((a % OL_TURN) + b) % OL_TURN = (a + b) % OL_TURN
  BY SMT DEF OL_TURN

LEMMA AdvanceCarries ==
  ASSUME NEW phase \in Int, NEW remainder \in Int, NEW start \in Int,
         NEW sum \in Int, NEW rate \in Int,
         Carried(phase, remainder, start, sum),
         Advance(phase, remainder, rate)
  PROVE  /\ ol_phase' \in Int /\ ol_remainder' \in Int
         /\ Carried(ol_phase', ol_remainder', start, sum + Clamped(rate))
<1> DEFINE n == Clamped(rate) * OL_PHASE_ONE + remainder
           q == TruncDiv(n, OL_PERIODS_PER_S)
<1>1. Clamped(rate) \in Int /\ n \in Int
  BY ClampedIsInt, SMT DEF OL_PHASE_ONE
<1>2. /\ q \in Int
      /\ -OL_PERIODS_PER_S < n - OL_PERIODS_PER_S * q
      /\ n - OL_PERIODS_PER_S * q < OL_PERIODS_PER_S
  BY <1>1, TruncDivRemainder
<1>3. ol_remainder' = n - OL_PERIODS_PER_S * q /\ ol_phase' = (phase + q) % OL_TURN
  BY DEF Advance
<1>4. PICK units \in Int :
        /\ units * OL_PERIODS_PER_S = OL_PHASE_ONE * sum - remainder
        /\ phase = (start + units) % OL_TURN
  BY DEF Carried
<1> HIDE DEF q
<1>5. (units + q) * OL_PERIODS_PER_S
        = OL_PHASE_ONE * (sum + Clamped(rate)) - ol_remainder'
  BY <1>1, <1>2, <1>3, <1>4, SMT DEF OL_PHASE_ONE, OL_PERIODS_PER_S
<1>6. ol_phase' = (start + (units + q)) % OL_TURN
  <2>1. (((start + units) % OL_TURN) + q) % OL_TURN = ((start + units) + q) % OL_TURN
    BY <1>2, <1>4, WrapAdds
  <2>2. (start + units) + q = start + (units + q)
    BY <1>2, <1>4
  <2> QED BY <1>3, <1>4, <2>1, <2>2
<1>7. ol_phase' \in Int /\ ol_remainder' \in Int /\ units + q \in Int
  BY <1>1, <1>2, <1>3, <1>4, SMT DEF OL_TURN, OL_PERIODS_PER_S
<1> QED BY <1>2, <1>3, <1>5, <1>6, <1>7 DEF Carried

LEMMA LoadedCarries ==
  ASSUME NEW theta \in Nat
  PROVE  Loaded(theta) \in Int /\ Carried(Loaded(theta), 0, Loaded(theta), 0)
<1> DEFINE counts == theta % ENCODER_COUNTS_PER_REV
<1>1. counts \in Int /\ 0 <= counts /\ counts <= 4095
  BY SMT DEF ENCODER_COUNTS_PER_REV
<1>2. Loaded(theta) = counts * OL_PHASE_ONE
  BY DEF Loaded
<1> HIDE DEF counts
<1>3. /\ Loaded(theta) \in Int
      /\ 0 <= Loaded(theta) /\ Loaded(theta) < OL_TURN
  BY <1>1, <1>2, SMT DEF OL_PHASE_ONE, OL_TURN
<1>4. Loaded(theta) = (Loaded(theta) + 0) % OL_TURN
  BY <1>3, SMT DEF OL_TURN
<1> QED BY <1>3, <1>4, SMT DEF Carried, OL_PERIODS_PER_S, OL_PHASE_ONE

LEMMA ExactStep == ASSUME ExactInv, [Next]_vars PROVE ExactInv'
<1>1. CASE UNCHANGED vars
  BY <1>1 DEF ExactInv, OlType, Carried, vars, olVars
<1>2. CASE Next
  <2>1. PICK m, entered : OpenLoopStep(m, entered)
    <3>1. PICK in \in Inputs : Period(in)
      BY <1>2 DEF Next
    <3>2. OpenLoopStep(Chosen(in, on), Entered(in, on))
      BY <3>1 DEF Period
    <3> QED BY <3>2
  <2>2. CASE m # "OPENLOOP"
    BY <2>1, <2>2 DEF OpenLoopStep, ExactInv, OlType, Carried, olVars
  <2>3. CASE m = "OPENLOOP"
    <3>1. PICK rate \in Int :
            \/ \E theta \in Thetas : OlFirst(theta, rate)
            \/ OlNext(rate)
      BY <2>1, <2>3, MotionAssumption DEF OpenLoopStep
    <3>2. CASE OlNext(rate)
      BY <3>2, AdvanceCarries, ClampedIsInt DEF OlNext, ExactInv, OlType
    <3>3. ASSUME NEW theta \in Thetas, OlFirst(theta, rate) PROVE ExactInv'
      BY <3>3, AdvanceCarries, LoadedCarries, ClampedIsInt, MotionAssumption
         DEF OlFirst, ExactInv, OlType
    <3> QED BY <3>1, <3>2, <3>3
  <2> QED BY <2>2, <2>3
<1> QED BY <1>1, <1>2

(* The open-loop rate is exact over time (OpenLoop.OpenLoopExact), for any *)
(* number of periods and any rates.                                        *)
THEOREM MotionRotatesExactly == Spec => []OpenLoopExact
<1>1. Init => ExactInv
  BY SMT DEF Init, OlInit, ExactInv, OlType, Carried, OL_PERIODS_PER_S,
         OL_PHASE_ONE, OL_TURN
<1>2. ExactInv => OpenLoopExact
  BY SMT DEF ExactInv, OlType, Carried, OpenLoopExact, OL_PERIODS_PER_S,
         OL_PHASE_ONE, OL_TURN
<1> QED BY <1>1, <1>2, ExactStep, PTL DEF Spec

-----------------------------------------------------------------------------
(* FreshPowerUp is not inductive: a step may find the stage on without     *)
(* having requested it, or an active map outside mode MAP.  Neither can    *)
(* be, and a powered loop has taken note of being powered.                 *)
PoweredLoopIsFresh ==
  /\ pi_of \subseteq {TRUE}
  /\ gains = "identified"
  /\ current_powered = TRUE

FreshInv ==
  /\ request \in BOOLEAN /\ on \in BOOLEAN /\ idle_n \in Int
  /\ on => request
  /\ map # "inactive" => mode = "MAP"
  /\ request => /\ Ramps(mode) => ramp_of \subseteq {TRUE}
                /\ mode = "SPEED" => loop_of \subseteq {TRUE}
                /\ mode \in CurrentModes \/ map # "inactive" =>
                     PoweredLoopIsFresh

(* What one period does, with the choices of its control step named.       *)
PeriodFacts(in, ident2, calib2, map2) ==
  LET m == Chosen(in, on)
      entered == Entered(in, on)
      powered == Powered(on)
      loop == CurrentLoop(in, on, map2)
  IN  /\ map2 \in MapAfter(in, on)
      /\ FocStep(in, on, ident2, calib2)
      /\ SpeedLoopStep(m, entered, powered)
      /\ RampStep(m, entered, powered)
      /\ CurrentLoopStep(entered, loop, powered, on /\ request')
      /\ Follow(CmdTrip(in, on, map2), request', map2)

LEMMA PeriodSplits ==
  ASSUME NEW in, Period(in)
  PROVE  \E ident2, calib2, map2 : PeriodFacts(in, ident2, calib2, map2)
  BY DEF Period, PeriodFacts

(* The request rises only in a step that is commanded idle.                *)
LEMMA RequestWasThere ==
  ASSUME FreshInv, NEW in \in Inputs, NEW ident2, NEW calib2, NEW map2,
         PeriodFacts(in, ident2, calib2, map2), request', Chosen(in, on) # "IDLE"
  PROVE  request
<1> DEFINE g == GuardIn(in, on)
<1>1. g.idle = FALSE /\ g.idle \in BOOLEAN
  BY DEF GuardIn
<1>2. Request(g) /\ idle_n \in Int /\ request \in BOOLEAN
  BY DEF PeriodFacts, FocStep, PowerGuardStep, FreshInv
<1> HIDE DEF g
<1> SUFFICES ASSUME ~request PROVE FALSE
  BY <1>2
<1>3. IdleCount(g) >= IdlePeriods
  BY <1>2 DEF Request, MayArm
<1>4. IdleCount(g) = 0
  BY <1>1 DEF IdleCount, Streak
<1> QED BY <1>3, <1>4, GuardAssumption

LEMMA FreshStep ==
  ASSUME FreshInv, NEW in \in Inputs, NEW ident2, NEW calib2, NEW map2,
         PeriodFacts(in, ident2, calib2, map2)
  PROVE  FreshInv'
<1> DEFINE m == Chosen(in, on)
           entered == Entered(in, on)
           loop == CurrentLoop(in, on, map2)
           g == GuardIn(in, on)
<1>1. /\ map2 \in MapAfter(in, on)
      /\ mode' = m
      /\ request' = Request(g) /\ idle_n' = IdleCount(g)
      /\ SpeedLoopStep(m, entered, Powered(on))
      /\ RampStep(m, entered, Powered(on))
      /\ CurrentLoopStep(entered, loop, Powered(on), on /\ request')
      /\ Follow(CmdTrip(in, on, map2), request', map2)
  BY DEF PeriodFacts, FocStep, PowerGuardStep
<1>2. /\ in.arm_key \in BOOLEAN
      /\ g.idle = (m = "IDLE" /\ ~Refused(in, on)) /\ g.idle \in BOOLEAN
  BY DEF Inputs, GuardIn
<1>3. request' \in BOOLEAN /\ on' \in BOOLEAN /\ (on' => request')
  BY <1>1, <1>2 DEF Request, GuardIn, Follow
<1>4. idle_n' \in Int
  BY <1>1, <1>2, GuardAssumption DEF IdleCount, Streak, FreshInv
<1>5. map' # "inactive" => map' = map2 /\ m = "MAP"
  BY <1>1 DEF Follow, MapAfter
<1>6. ASSUME request', m # "IDLE" PROVE request /\ Powered(on)
  <2>1. request
    BY <1>6, RequestWasThere
  <2> QED BY <2>1 DEF Powered
<1>7. ASSUME request' PROVE Ramps(m) => ramp_of' \subseteq {TRUE}
  <2> SUFFICES ASSUME Ramps(m) PROVE ramp_of' \subseteq {TRUE}
    OBVIOUS
  <2>1. m # "IDLE"
    BY DEF Ramps
  <2>2. request /\ Powered(on)
    BY <1>6, <1>7, <2>1
  <2>3. ~entered => mode = m
    BY DEF Entered
  <2>4. (IF entered THEN {} ELSE ramp_of) \subseteq {TRUE}
    BY <2>2, <2>3 DEF FreshInv
  <2> HIDE DEF m, entered
  <2> QED BY <1>1, <2>2, <2>4 DEF RampStep, Powered, FreshInv
<1>8. ASSUME request' PROVE m = "SPEED" => loop_of' \subseteq {TRUE}
  <2> SUFFICES ASSUME m = "SPEED" PROVE loop_of' \subseteq {TRUE}
    OBVIOUS
  <2>1. request /\ Powered(on)
    BY <1>6, <1>8
  <2>2. ~entered => mode = m
    BY DEF Entered
  <2> HIDE DEF m, entered
  <2>3. LoopStart(m, entered) \subseteq {TRUE}
    BY <2>1, <2>2 DEF FreshInv, LoopStart, Estimates, CurrentModes
  <2> QED BY <1>1, <2>1, <2>3 DEF SpeedLoopStep, Powered, FreshInv
<1>9. ASSUME request', m \in CurrentModes \/ map' # "inactive"
      PROVE  PoweredLoopIsFresh'
  <2>1. m # "IDLE" /\ Estimates(m) /\ m # "IDENT"
    BY <1>5, <1>9 DEF CurrentModes, Estimates
  <2>2. request /\ Powered(on)
    BY <1>6, <1>9, <2>1
  <2>3. ~entered => mode = m
    BY DEF Entered
  <2>4. ASSUME entered PROVE calib = "plausible"
    <3>1. CASE m \in CurrentModes
      BY <2>2, <3>1 DEF Chosen, Refused, Forbidden, CurrentModes
    <3>2. CASE map' # "inactive"
      <4>1. map = "inactive"
        BY <1>5, <2>4, <3>2 DEF FreshInv, Entered
      <4> QED BY <1>1, <1>5, <2>4, <3>2, <4>1 DEF MapAfter
    <3> QED BY <1>9, <3>1, <3>2
  <2>5. ~entered => PoweredLoopIsFresh
    <3>1. CASE m \in CurrentModes
      BY <2>2, <2>3, <3>1 DEF FreshInv
    <3>2. CASE map' # "inactive"
      <4> SUFFICES ASSUME ~entered PROVE map # "inactive"
        BY <2>2 DEF FreshInv
      <4> QED BY <1>1, <1>5, <3>2 DEF MapAfter
    <3> QED BY <1>9, <3>1, <3>2
  <2> HIDE DEF m, entered, loop
  <2>6. gains' = "identified" /\ current_powered' = TRUE
    BY <1>1, <2>1, <2>2, <2>4, <2>5
       DEF CurrentLoopStep, ResetsPi, GainsFor, PoweredLoopIsFresh, FreshInv,
           Powered
  <2>7. pi_of' \subseteq {TRUE}
    BY <1>1, <2>5 DEF CurrentLoopStep, ResetsPi, PiAfter, PoweredLoopIsFresh
  <2> QED BY <2>6, <2>7 DEF PoweredLoopIsFresh
<1> HIDE DEF m, entered, loop, g
<1> QED BY <1>1, <1>3, <1>4, <1>5, <1>7, <1>8, <1>9 DEF FreshInv

LEMMA MotionIsFresh == Spec => []FreshInv
<1>1. Init => FreshInv
  <2> SUFFICES ASSUME Init PROVE FreshInv
    OBVIOUS
  <2>1. request = FALSE /\ on = FALSE /\ idle_n = 0 /\ map = "inactive"
    BY DEF Init, CtrlInit, PowerGuardReset
  <2>2. idle_n \in Int
    BY <2>1
  <2> QED BY <2>1, <2>2 DEF FreshInv
<1>2. FreshInv /\ [Next]_vars => FreshInv'
  <2> SUFFICES ASSUME FreshInv, [Next]_vars PROVE FreshInv'
    OBVIOUS
  <2>1. CASE Next
    BY <2>1, PeriodSplits, FreshStep DEF Next
  <2>2. CASE UNCHANGED vars
    BY <2>2 DEF FreshInv, PoweredLoopIsFresh, vars, guardVars, ctrlVars, loopVars
  <2> QED BY <2>1, <2>2
<1> QED BY <1>1, <1>2, PTL DEF Spec

(* Nothing a ramp or controller did while the stage was off reaches a      *)
(* powered period (FreshPowerUp), in any sequence of commanded modes,      *)
(* arming keys and trips.                                                  *)
THEOREM MotionStartsFresh == Spec => []FreshPowerUp
<1>1. FreshInv => FreshPowerUp
  BY DEF FreshInv, FreshPowerUp, PoweredLoopIsFresh, Powered
<1> QED BY <1>1, MotionIsFresh, PTL

-----------------------------------------------------------------------------
(* What the estimator holds, in terms of the ghost moved: the open bucket  *)
(* is the distance since the last publication, the bucket Age(k) places    *)
(* back holds the distance of its own Div periods, and the published sum   *)
(* is that of the Window buckets closed last.  Only the oldest bucket goes *)
(* out of sight of moved between two publications, so the sum is stated    *)
(* through it.                                                             *)
Age(k) == IF k < speed.index THEN speed.index - k ELSE speed.index - k + Window

Bucket(j) == moved[speed.periods + j * Div] - moved[speed.periods + (j - 1) * Div]

Buckets ==
  \A k \in 0..Window - 1 :
    k # speed.index \/ speed.periods = 0 => speed.ring[k] = Bucket(Age(k))

Published ==
  /\ speed.counts = speed.ring[speed.index]
                      + moved[speed.periods + (Window - 1) * Div] - moved[speed.periods]
  /\ speed.periods = 0 /\ speed.index = 0 => speed.trip_counts = moved[Span]

(* What the open bucket can hold after the periods it has been open for:   *)
(* when it closes, the cast to int16_t leaves it as it is.                 *)
BucketFits ==
  /\ -(speed.periods * (BucketMax + 1)) <= Div * speed.delta
  /\ Div * speed.delta <= speed.periods * BucketMax

EstimatorType ==
  speed \in [previous : Int, periods : 0..Div - 1, index : 0..Window - 1, delta : Int,
             counts : Int, trip_counts : Int, ring : [0..Window - 1 -> Int]]

EstimatorInv ==
  /\ enc \in 0..Turn - 1 /\ direction \in Int /\ fast \in Nat /\ rotor \in Rotors
  /\ moved \in [0..Span -> Int] /\ moved[0] = 0
  /\ EstimatorType
  /\ Estimates(mode) =>
       /\ speed.previous = enc
       /\ speed.delta = moved[speed.periods]
       /\ Buckets /\ Published /\ BucketFits
       /\ Powered(on) => rpm = IF direction < 0 THEN -speed.counts ELSE speed.counts
       /\ alive => fast <= speed.index * Div + speed.periods
  /\ ~Estimates(mode) => fast = 0

-----------------------------------------------------------------------------
(* Arithmetic of the encoder and of the window                             *)

LEMMA Wraps ==
  ASSUME NEW t \in Nat \ {0}, NEW a \in Int
  PROVE  /\ -t <= a /\ a < 0 => a % t = a + t
         /\ 0 <= a /\ a < t => a % t = a
         /\ t <= a /\ a < 2 * t => a % t = a - t
  OBVIOUS

LEMMA Halves ==
  /\ Turn \in Nat \ {0} /\ Div \in Nat \ {0} /\ Window \in Nat \ {0}
  /\ Turn \div 2 \in Nat /\ Turn = 2 * (Turn \div 2)
  BY SpeedAssumption

(* A move of less than half a turn is what the shortest difference finds,  *)
(* over the wrap of the encoder in either direction.                       *)
LEMMA ShortestIsMove ==
  ASSUME NEW e \in 0..Turn - 1, NEW v \in Steps
  PROVE  (e + v) % Turn \in 0..Turn - 1 /\ Shortest((e + v) % Turn, e) = v
<1> DEFINE h == Turn \div 2
           f == (e + v) % Turn
<1>1. /\ h \in Nat /\ Turn = 2 * h /\ Turn \in Nat \ {0} /\ e \in Int
      /\ v \in Int /\ -h <= v /\ v < h
  BY Halves DEF Steps
<1> HIDE DEF h
<1>2. f \in {e + v, e + v + Turn, e + v - Turn} /\ f \in 0..Turn - 1
  <2> DEFINE a == e + v
  <2>1. a \in Int /\ -Turn <= a /\ a < 2 * Turn
    BY <1>1
  <2>2. /\ a < 0 => f = a + Turn
        /\ 0 <= a /\ a < Turn => f = a
        /\ Turn <= a => f = a - Turn
    <3> HIDE DEF a
    <3> QED
      BY <1>1, <2>1, Wraps DEF a
  <2> HIDE DEF f
  <2> QED
    BY <1>1, <2>1, <2>2
<1> HIDE DEF f
<1>4. (f - e + h) % Turn = v + h
  <2> DEFINE a == f - e + h
  <2> SUFFICES a % Turn = v + h
    OBVIOUS
  <2>1. a \in {v + h, v + h + Turn, v + h - Turn} /\ a \in Int
    BY <1>1, <1>2
  <2>2. 0 <= v + h /\ v + h < Turn /\ v + h \in Int
    BY <1>1
  <2> HIDE DEF a
  <2>3. /\ a < 0 => a % Turn = a + Turn
        /\ 0 <= a /\ a < Turn => a % Turn = a
        /\ Turn <= a => a % Turn = a - Turn
    <3>1. -Turn <= a /\ a < 2 * Turn
      BY <1>1, <2>1, <2>2
    <3> QED
      BY <1>1, <2>1, <3>1, Wraps
  <2> QED
    BY <1>1, <2>1, <2>2, <2>3
<1>5. Shortest(f, e) = v
  BY <1>1, <1>4 DEF Shortest, h
<1> QED
  BY <1>2, <1>5 DEF f

(* The rotors are those the encoder and the buckets can follow.            *)
LEMMA RotorMoves ==
  ASSUME rotor \in Rotors, NEW v \in rotor
  PROVE  v \in Steps /\ v \in Int /\ -(BucketMax + 1) <= Div * v /\ Div * v <= BucketMax
<1>1. v \in Steps /\ -(BucketMax + 1) <= Div * v /\ Div * v <= BucketMax
  BY RotorAssumption
<1> QED
  BY <1>1, Halves DEF Steps

LEMMA Cancels ==
  ASSUME NEW d \in Nat \ {0}, NEW a \in Int, NEW b \in Int, d * a <= d * b
  PROVE  a <= b
<1> SUFFICES ASSUME b + 1 <= a PROVE FALSE
  OBVIOUS
<1> DEFINE g == a - b - 1
<1>1. g \in Nat /\ a = b + 1 + g
  OBVIOUS
<1>2. d * g \in Nat
  BY <1>1
<1>3. d * a = d * b + d + d * g
  <2> HIDE DEF g
  <2> QED
    BY <1>1
<1> DEFINE x == d * g
           y == d * a
           z == d * b
<1>4. x \in Nat /\ y \in Int /\ z \in Int /\ y = z + d + x /\ y <= z
  BY <1>2, <1>3
<1> HIDE DEF x, y, z
<1> QED
  BY <1>4

LEMMA FitsInBucket ==
  ASSUME NEW n \in Int, -(BucketMax + 1) <= n, n <= BucketMax
  PROVE  InBucket(n) = n
<1> DEFINE t == 2 * BucketMax + 2
           a == n + BucketMax + 1
<1>1. t \in Nat \ {0} /\ a \in Int /\ 0 <= a /\ a < t /\ BucketMax \in Nat
  BY SpeedAssumption
<1>2. a % t = a
  <2> HIDE DEF t, a
  <2> QED
    BY <1>1, Wraps
<1> QED
  BY <1>1, <1>2 DEF InBucket

(* One more period of the open bucket.                                     *)
LEMMA BucketGrows ==
  ASSUME NEW p \in Nat, NEW delta \in Int, NEW v \in Int,
         -(BucketMax + 1) <= Div * v, Div * v <= BucketMax,
         -(p * (BucketMax + 1)) <= Div * delta, Div * delta <= p * BucketMax
  PROVE  /\ -((p + 1) * (BucketMax + 1)) <= Div * (delta + v)
         /\ Div * (delta + v) <= (p + 1) * BucketMax
<1> DEFINE low == p * (BucketMax + 1)
           high == p * BucketMax
           x == Div * delta
           y == Div * v
<1>1. /\ low \in Nat /\ high \in Nat /\ x \in Int /\ y \in Int /\ BucketMax \in Nat
      /\ -low <= x /\ x <= high /\ -(BucketMax + 1) <= y /\ y <= BucketMax
  BY SpeedAssumption
<1>2. /\ (p + 1) * (BucketMax + 1) = low + (BucketMax + 1)
      /\ (p + 1) * BucketMax = high + BucketMax
      /\ Div * (delta + v) = x + y
  BY SpeedAssumption
<1>3. /\ -(low + (BucketMax + 1)) <= x + y
      /\ x + y <= high + BucketMax
  <2> HIDE DEF low, high, x, y
  <2> QED
    BY <1>1
<1> HIDE DEF low, high, x, y
<1> QED
  BY <1>2, <1>3

(* A bucket that has been open for all its periods fits its int16_t.       *)
LEMMA ClosedBucketFits ==
  ASSUME NEW d \in Int, -(Div * (BucketMax + 1)) <= Div * d, Div * d <= Div * BucketMax
  PROVE  InBucket(d) = d
<1>1. d <= BucketMax
  BY Cancels, SpeedAssumption
<1>2. -(BucketMax + 1) <= d
  <2>1. Div * (-(BucketMax + 1)) = -(Div * (BucketMax + 1))
    BY SpeedAssumption
  <2>2. -(BucketMax + 1) \in Int /\ Div * (-(BucketMax + 1)) <= Div * d
    BY <2>1, SpeedAssumption
  <2> QED
    BY <2>2, Cancels, SpeedAssumption
<1> QED
  BY <1>1, <1>2, FitsInBucket

LEMMA SpanFits ==
  /\ Span \in Nat \ {0} /\ Window * Div = Span /\ 0 * Div = 0 /\ 1 * Div = Div
  /\ \A j \in 0..Window : j * Div \in Nat
  /\ \A j \in 1..Window : j * Div = (j - 1) * Div + Div
  /\ \A j \in 0..Window - 1 : j * Div + Div <= Span
<1>1. Span \in Nat \ {0} /\ Window * Div = Span /\ 0 * Div = 0 /\ 1 * Div = Div
  BY Halves DEF Span
<1>2. ASSUME NEW j \in 0..Window PROVE j * Div \in Nat
  BY Halves
<1>3. ASSUME NEW j \in 1..Window PROVE j * Div = (j - 1) * Div + Div
  BY Halves
<1>4. ASSUME NEW j \in 0..Window - 1 PROVE j * Div + Div <= Span
  <2>1. j * Div + Div = (j + 1) * Div
    BY Halves
  <2>2. (j + 1) * Div <= Window * Div
    BY Halves
  <2>3. j * Div + Div \in Nat
    BY Halves
  <2> QED
    BY <1>1, <2>1, <2>2
<1> QED
  BY <1>1, <1>2, <1>3, <1>4

(* The distances one period later.                                         *)
Shifts(v) == moved' = [k \in 0..Span |-> IF k = 0 THEN 0 ELSE moved[k - 1] + v]

LEMMA Shifted ==
  ASSUME EstimatorInv, NEW v \in Int, Shifts(v)
  PROVE  /\ moved' \in [0..Span -> Int] /\ moved'[0] = 0
         /\ \A x \in 0..Span - 1 : moved'[x + 1] = moved[x] + v
<1>1. moved \in [0..Span -> Int] /\ Span \in Nat \ {0}
  BY SpanFits DEF EstimatorInv
<1>2. ASSUME NEW k \in 0..Span PROVE (IF k = 0 THEN 0 ELSE moved[k - 1] + v) \in Int
  BY <1>1
<1>3. moved' \in [0..Span -> Int]
  BY <1>2 DEF Shifts
<1>4. moved'[0] = 0
  BY <1>1 DEF Shifts
<1>5. ASSUME NEW x \in 0..Span - 1 PROVE moved'[x + 1] = moved[x] + v
  <2>1. x + 1 \in 0..Span /\ x + 1 # 0 /\ (x + 1) - 1 = x
    BY <1>1
  <2> QED
    BY <2>1 DEF Shifts
<1> QED
  BY <1>3, <1>4, <1>5

-----------------------------------------------------------------------------
(* One step of the estimator                                               *)

EstimatorHolds ==
  /\ EstimatorType
  /\ speed.previous = enc /\ speed.delta = moved[speed.periods]
  /\ Buckets /\ Published /\ BucketFits

(* What the estimator works with.                                          *)
LEMMA EstimatorFacts ==
  ASSUME EstimatorInv, Estimates(mode)
  PROVE  /\ EstimatorHolds
         /\ speed.periods \in 0..Div - 1 /\ speed.index \in 0..Window - 1
         /\ speed.counts \in Int /\ speed.trip_counts \in Int /\ speed.delta \in Int
         /\ speed.ring \in [0..Window - 1 -> Int] /\ speed.previous = enc
         /\ speed.delta = moved[speed.periods]
         /\ moved \in [0..Span -> Int]
         /\ enc \in 0..Turn - 1 /\ rotor \in Rotors
  BY DEF EstimatorInv, EstimatorType, EstimatorHolds

(* The places of moved the estimator's state speaks of.                    *)
LEMMA Places ==
  ASSUME NEW p \in 0..Div - 1, NEW j \in 0..Window - 1
  PROVE  /\ j * Div \in Nat /\ p + j * Div \in 0..Span - 1
         /\ (p + 1) + j * Div \in 0..Span /\ (p + j * Div) + 1 = (p + 1) + j * Div
<1>1. j * Div \in Nat /\ j * Div + Div <= Span /\ Span \in Nat /\ Div \in Nat
  BY SpanFits, Halves
<1> DEFINE x == j * Div
<1> SUFFICES /\ x \in Nat /\ p + x \in 0..Span - 1
             /\ (p + 1) + x \in 0..Span /\ (p + x) + 1 = (p + 1) + x
  OBVIOUS
<1>2. x \in Nat /\ x + Div <= Span
  BY <1>1
<1> HIDE DEF x
<1> QED
  BY <1>1, <1>2

LEMMA MovedAt ==
  ASSUME EstimatorInv, NEW v \in Int, Shifts(v), NEW x \in 0..Span - 1
  PROVE  moved'[x + 1] = moved[x] + v /\ moved[x] \in Int /\ v \in Int
<1>1. v \in Int /\ x \in 0..Span /\ moved \in [0..Span -> Int]
  BY SpanFits DEF EstimatorInv
<1> QED
  BY <1>1, Shifted

LEMMA MovedAtPlace ==
  ASSUME EstimatorInv, NEW v \in Int, Shifts(v), NEW p \in 0..Div - 1
  PROVE  /\ \A j \in 0..Window - 1 :
              /\ moved'[(p + 1) + j * Div] = moved[p + j * Div] + v
              /\ moved[p + j * Div] \in Int
         /\ moved'[p + 1] = moved[p] + v /\ moved[p] \in Int
<1>1. ASSUME NEW j \in 0..Window - 1
      PROVE  /\ moved'[(p + 1) + j * Div] = moved[p + j * Div] + v
             /\ moved[p + j * Div] \in Int
  <2> DEFINE x == p + j * Div
  <2>1. x \in 0..Span - 1 /\ x + 1 = (p + 1) + j * Div
    BY Places
  <2>2. moved'[x + 1] = moved[x] + v /\ moved[x] \in Int
    <3> HIDE DEF x
    <3> QED
      BY <2>1, MovedAt
  <2> QED
    BY <2>1, <2>2
<1>2. p \in 0..Span - 1
  <2>1. 0 \in 0..Window - 1 /\ 0 * Div = 0 /\ p \in Int
    BY Halves, SpanFits
  <2> QED
    BY <2>1, Places
<1> QED
  BY <1>1, <1>2, MovedAt

(* No publication: every distance the state speaks of moves by the same.   *)
LEMMA EstimatorGoesOn ==
  ASSUME EstimatorInv, Estimates(mode), NEW v \in rotor, enc' = (enc + v) % Turn,
         Shifts(v), speed' = SpeedStep(speed, enc'), ~SpeedTick(speed)
  PROVE  /\ EstimatorHolds'
         /\ speed'.periods = speed.periods + 1 /\ speed'.index = speed.index
         /\ speed'.counts = speed.counts
<1> DEFINE p == speed.periods
<1>1. /\ EstimatorHolds /\ p \in 0..Div - 1 /\ p + 1 # Div
      /\ speed.index \in 0..Window - 1
      /\ speed.previous = enc /\ enc \in 0..Turn - 1 /\ speed.delta = moved[p]
      /\ speed.delta \in Int
  BY EstimatorFacts DEF SpeedTick
<1>0. v \in Steps /\ v \in Int /\ -(BucketMax + 1) <= Div * v /\ Div * v <= BucketMax
  BY EstimatorFacts, RotorMoves
<1>2. enc' \in 0..Turn - 1 /\ Shortest(enc', enc) = v /\ enc' \in Int
  BY <1>0, <1>1, ShortestIsMove, Halves
<1>3. speed' = [speed EXCEPT !.previous = enc', !.delta = speed.delta + v,
                             !.periods = p + 1]
  BY <1>1, <1>2 DEF SpeedStep
<1>4. /\ speed'.previous = enc' /\ speed'.delta = speed.delta + v
      /\ speed'.periods = p + 1 /\ speed'.index = speed.index
      /\ speed'.counts = speed.counts /\ speed'.trip_counts = speed.trip_counts
      /\ speed'.ring = speed.ring
  BY <1>1, <1>3 DEF EstimatorHolds, EstimatorType
<1>5. p + 1 \in 0..Div - 1 /\ p + 1 # 0 /\ Window - 1 \in Nat
  BY <1>1, Halves
<1>6. EstimatorType'
  <2>1. speed.delta + v \in Int
    BY <1>0, <1>1
  <2> HIDE DEF p
  <2> QED
    BY <1>1, <1>2, <1>3, <1>5, <2>1 DEF EstimatorHolds, EstimatorType
<1>7. \A j \in 0..Window - 1 : /\ moved'[(p + 1) + j * Div] = moved[p + j * Div] + v
                               /\ moved[p + j * Div] \in Int
  BY <1>0, <1>1, MovedAtPlace
<1>8. moved'[p + 1] = moved[p] + v /\ moved[p] \in Int /\ v \in Int
  BY <1>0, <1>1, MovedAtPlace
<1>9. speed'.delta = moved'[speed'.periods]
  BY <1>1, <1>4, <1>8
<1>10. Published'
  <2> DEFINE a == moved[p + (Window - 1) * Div]
             r == speed.ring[speed.index]
  <2>1. speed.counts = r + a - moved[p]
    BY <1>1 DEF EstimatorHolds, Published
  <2>2. r \in Int
    BY <1>1, EstimatorFacts
  <2>3. a \in Int /\ moved'[(p + 1) + (Window - 1) * Div] = a + v
    BY <1>5, <1>7
  <2>4. speed.counts = r + (a + v) - (moved[p] + v)
    <3> HIDE DEF a, r
    <3> QED
      BY <1>8, <2>1, <2>2, <2>3
  <2>5. speed'.counts = speed'.ring[speed'.index]
                          + moved'[speed'.periods + (Window - 1) * Div]
                          - moved'[speed'.periods]
    BY <1>4, <1>8, <2>3, <2>4
  <2> QED
    BY <1>4, <1>5, <2>5 DEF Published
<1>11. Buckets'
  <2> SUFFICES ASSUME NEW k \in 0..Window - 1, k # speed.index
               PROVE  speed.ring[k] = Bucket(Age(k))'
    BY <1>4, <1>5 DEF Buckets
  <2> DEFINE j == Age(k)
  <2>1. j \in 1..Window - 1 /\ j - 1 \in 0..Window - 1 /\ j \in 0..Window - 1
    BY <1>1, Halves DEF Age
  <2>2. Age(k)' = j
    BY <1>4 DEF Age
  <2>3. speed.ring[k] = moved[p + j * Div] - moved[p + (j - 1) * Div]
    BY <1>1 DEF EstimatorHolds, Buckets, Bucket
  <2>4. Bucket(Age(k))' = moved'[(p + 1) + j * Div] - moved'[(p + 1) + (j - 1) * Div]
    BY <1>4, <2>2 DEF Bucket
  <2> HIDE DEF j
  <2> DEFINE a == moved[p + j * Div]
             b == moved[p + (j - 1) * Div]
  <2>5. /\ a \in Int /\ moved'[(p + 1) + j * Div] = a + v
        /\ b \in Int /\ moved'[(p + 1) + (j - 1) * Div] = b + v
    BY <1>7, <2>1
  <2>6. (a + v) - (b + v) = a - b
    <3> HIDE DEF a, b
    <3> QED
      BY <1>8, <2>5
  <2> QED
    BY <2>3, <2>4, <2>5, <2>6
<1>12. BucketFits'
  <2>1. /\ -(p * (BucketMax + 1)) <= Div * speed.delta
        /\ Div * speed.delta <= p * BucketMax
    BY EstimatorFacts DEF EstimatorHolds, BucketFits
  <2>2. p \in Nat
    BY <1>1
  <2> HIDE DEF p
  <2>3. /\ -((p + 1) * (BucketMax + 1)) <= Div * (speed.delta + v)
        /\ Div * (speed.delta + v) <= (p + 1) * BucketMax
    BY <1>0, <1>1, <2>1, <2>2, BucketGrows
  <2> QED
    BY <1>4, <2>3 DEF BucketFits
<1> QED
  BY <1>4, <1>6, <1>9, <1>10, <1>11, <1>12 DEF EstimatorHolds

(* A publication makes every bucket one place older.                       *)
LEMMA AgeGrows ==
  ASSUME speed.index \in 0..Window - 1, NEW k \in 0..Window - 1,
         speed'.index = IF speed.index + 1 = Window THEN 0 ELSE speed.index + 1
  PROVE  /\ k = speed.index => Age(k)' = 1
         /\ k # speed.index => /\ Age(k)' = Age(k) + 1 /\ Age(k) \in 1..Window - 1
                               /\ Age(k) - 1 \in 0..Window - 1
                               /\ Age(k) \in 0..Window - 1 /\ Age(k) \in Nat
                               /\ (Age(k) - 1) + 1 = Age(k)
         /\ k = speed'.index => Age(k)' = Window
         /\ speed'.index \in 0..Window - 1
<1>1. Window \in Nat \ {0}
  BY Halves
<1> DEFINE i == speed.index
           n == speed'.index
<1>2. /\ i \in 0..Window - 1 /\ n = (IF i + 1 = Window THEN 0 ELSE i + 1)
      /\ Age(k) = (IF k < i THEN i - k ELSE i - k + Window)
      /\ Age(k)' = (IF k < n THEN n - k ELSE n - k + Window)
  BY DEF Age
<1> HIDE DEF i, n
<1>3. /\ k = i => Age(k)' = 1
      /\ k # i => Age(k)' = Age(k) + 1 /\ Age(k) \in 1..Window - 1
      /\ k = n => Age(k)' = Window
      /\ n \in 0..Window - 1
  BY <1>1, <1>2
<1> QED
  BY <1>1, <1>3 DEF i, n

(* A publication closes the open bucket in the place of the oldest one.    *)
LEMMA EstimatorPublishes ==
  ASSUME EstimatorInv, Estimates(mode), NEW v \in rotor, enc' = (enc + v) % Turn,
         Shifts(v), speed' = SpeedStep(speed, enc'), SpeedTick(speed)
  PROVE  /\ EstimatorHolds'
         /\ speed'.periods = 0
         /\ speed'.index = IF speed.index + 1 = Window THEN 0 ELSE speed.index + 1
         /\ speed'.counts = moved'[Span]
<1> DEFINE p == speed.periods
           i == speed.index
           d == speed.delta + v
           wraps == i + 1 = Window
           c == speed.counts + d - speed.ring[i]
           Moved2(j) == moved'[j * Div]
<1>1. /\ EstimatorHolds /\ p \in 0..Div - 1 /\ p + 1 = Div /\ i \in 0..Window - 1
      /\ speed.previous = enc /\ enc \in 0..Turn - 1 /\ speed.delta = moved[p]
      /\ speed.ring \in [0..Window - 1 -> Int] /\ speed.counts \in Int
      /\ speed.trip_counts \in Int
  BY EstimatorFacts DEF SpeedTick
<1>0. v \in Steps /\ v \in Int /\ -(BucketMax + 1) <= Div * v /\ Div * v <= BucketMax
  BY EstimatorFacts, RotorMoves
<1>2. enc' \in 0..Turn - 1 /\ Shortest(enc', enc) = v /\ enc' \in Int
  BY <1>0, <1>1, ShortestIsMove, Halves
<1>14. InBucket(d) = d
  <2>1. /\ -(p * (BucketMax + 1)) <= Div * speed.delta
        /\ Div * speed.delta <= p * BucketMax
    BY EstimatorFacts DEF EstimatorHolds, BucketFits
  <2>2. p \in Nat /\ speed.delta \in Int /\ d \in Int
    BY <1>0, <1>1, EstimatorFacts
  <2> HIDE DEF p
  <2>3. /\ -((p + 1) * (BucketMax + 1)) <= Div * (speed.delta + v)
        /\ Div * (speed.delta + v) <= (p + 1) * BucketMax
    BY <1>0, <2>1, <2>2, BucketGrows
  <2> QED
    BY <1>1, <2>2, <2>3, ClosedBucketFits
<1>3. speed' = [previous |-> enc', periods |-> 0, delta |-> 0, counts |-> c,
                index |-> IF wraps THEN 0 ELSE i + 1,
                trip_counts |-> IF wraps THEN c ELSE speed.trip_counts,
                ring |-> [speed.ring EXCEPT ![i] = d]]
  BY <1>1, <1>2, <1>14 DEF SpeedStep
<1>4. /\ speed'.previous = enc' /\ speed'.periods = 0 /\ speed'.delta = 0
      /\ speed'.counts = c /\ speed'.index = IF wraps THEN 0 ELSE i + 1
      /\ speed'.trip_counts = IF wraps THEN c ELSE speed.trip_counts
      /\ speed'.ring = [speed.ring EXCEPT ![i] = d]
  BY <1>3
<1>5. /\ \A j \in 0..Window - 1 : /\ moved'[(p + 1) + j * Div] = moved[p + j * Div] + v
                                  /\ moved[p + j * Div] \in Int
      /\ moved'[p + 1] = moved[p] + v /\ moved[p] \in Int /\ v \in Int
      /\ moved'[0] = 0
  <2>1. p \in 0..Div - 1 /\ v \in Int
    BY <1>0, <1>1
  <2> HIDE DEF p
  <2> QED
    BY <2>1, MovedAtPlace, Shifted
<1>6. ASSUME NEW j \in 0..Window - 1
      PROVE  Moved2(j + 1) = moved[p + j * Div] + v /\ moved[p + j * Div] \in Int
  <2>1. (j + 1) * Div = (p + 1) + j * Div
    BY <1>1, Halves
  <2> QED
    BY <1>5, <2>1
<1>7. /\ Moved2(1) = d /\ Moved2(0) = 0 /\ d \in Int
      /\ Moved2(Window) = moved'[Span]
  <2>1. Moved2(1) = moved'[p + 1] /\ Moved2(0) = 0 /\ Moved2(Window) = moved'[Span]
    BY <1>1, <1>5, SpanFits
  <2>2. moved'[p + 1] = d /\ d = moved[p] + v
    BY <1>1, <1>5
  <2>3. moved[p] + v \in Int
    BY <1>0, <1>5
  <2> QED
    BY <2>1, <2>2, <2>3
<1>8. /\ speed'.ring[i] = d
      /\ \A k \in 0..Window - 1 : k # i => speed'.ring[k] = speed.ring[k]
  BY <1>1, <1>4
<1>9. c = moved'[Span] /\ c \in Int
  <2> DEFINE a == moved[p + (Window - 1) * Div]
             r == speed.ring[i]
  <2>1. speed.counts = r + a - moved[p]
    BY <1>1 DEF EstimatorHolds, Published
  <2>2. r \in Int
    BY <1>1
  <2>3. Window - 1 \in 0..Window - 1 /\ (Window - 1) + 1 = Window
    BY Halves
  <2>4. a \in Int /\ moved'[Span] = a + v
    BY <1>6, <1>7, <2>3
  <2>5. c = a + v
    <3>1. c = r + a - moved[p] + (moved[p] + v) - r
      BY <1>1, <2>1
    <3> HIDE DEF a, r, c
    <3> QED
      BY <1>5, <2>2, <2>4, <3>1
  <2> HIDE DEF a, c
  <2> QED
    BY <1>5, <2>4, <2>5
<1>10. EstimatorType'
  <2> DEFINE idx == IF wraps THEN 0 ELSE i + 1
             trip == IF wraps THEN c ELSE speed.trip_counts
             ring == [speed.ring EXCEPT ![i] = d]
  <2>1. ring \in [0..Window - 1 -> Int]
    BY <1>1, <1>7
  <2>2. idx \in 0..Window - 1 /\ 0 \in 0..Div - 1
    <3>1. i \in 0..Window - 1 /\ Window \in Nat \ {0} /\ Div \in Nat \ {0}
      BY <1>1, Halves
    <3> HIDE DEF i
    <3> QED
      BY <3>1
  <2>3. trip \in Int
    BY <1>1, <1>9
  <2>4. speed' = [previous |-> enc', periods |-> 0, delta |-> 0, counts |-> c,
                  index |-> idx, trip_counts |-> trip, ring |-> ring]
    BY <1>3
  <2> HIDE DEF idx, trip, ring, c
  <2> QED
    BY <1>2, <1>9, <2>1, <2>2, <2>3, <2>4 DEF EstimatorType
<1>11. Buckets'
  <2> SUFFICES ASSUME NEW k \in 0..Window - 1
               PROVE  speed'.ring[k] = Bucket(Age(k))'
    BY DEF Buckets
  <2>1. ASSUME NEW j \in Nat, Age(k)' = j + 1
        PROVE  Bucket(Age(k))' = Moved2(j + 1) - Moved2(j)
    <3>1. /\ (j + 1) * Div \in Int /\ j * Div \in Int /\ (j + 1) - 1 = j
          /\ 0 + (j + 1) * Div = (j + 1) * Div /\ 0 + j * Div = j * Div
      BY Halves
    <3> QED
      BY <1>4, <2>1, <3>1 DEF Bucket
  <2>2. CASE k = i
    <3>1. Age(k)' = 0 + 1
      BY <1>1, <1>4, <2>2, AgeGrows
    <3>2. Bucket(Age(k))' = Moved2(0 + 1) - Moved2(0)
      BY <2>1, <3>1
    <3> HIDE DEF d
    <3> QED
      BY <1>7, <1>8, <2>2, <3>2
  <2>3. CASE k # i
    <3> DEFINE j == Age(k)
    <3>1. j \in 1..Window - 1 /\ j \in Nat /\ j - 1 \in 0..Window - 1 /\ (j - 1) + 1 = j
          /\ j \in 0..Window - 1
      BY <1>1, <1>4, <2>3, AgeGrows
    <3>2. Age(k)' = j + 1
      BY <1>1, <1>4, <2>3, AgeGrows
    <3>3. speed.ring[k] = moved[p + j * Div] - moved[p + (j - 1) * Div]
      BY <1>1, <2>3 DEF EstimatorHolds, Buckets, Bucket
    <3> HIDE DEF j
    <3> DEFINE a == moved[p + j * Div]
               b == moved[p + (j - 1) * Div]
    <3>4. Moved2(j + 1) = a + v /\ Moved2(j) = b + v /\ a \in Int /\ b \in Int
      BY <1>6, <3>1
    <3>5. (a + v) - (b + v) = a - b
      <4> HIDE DEF a, b
      <4> QED
        BY <1>5, <3>4
    <3>6. Bucket(Age(k))' = Moved2(j + 1) - Moved2(j)
      BY <2>1, <3>1, <3>2
    <3> QED
      BY <1>8, <2>3, <3>3, <3>4, <3>5, <3>6
  <2> QED
    BY <2>2, <2>3
<1>12. Published'
  <2>0. speed'.index \in 0..Window - 1
    <3>1. 0 \in 0..Window - 1
      BY Halves
    <3> QED
      BY <1>1, <1>4, <3>1, AgeGrows
  <2> PICK n \in 0..Window - 1 : n = speed'.index
    BY <2>0
  <2>1. Age(n)' = Window
    BY <1>1, <1>4, AgeGrows
  <2>2. speed'.ring[n] = Bucket(Age(n))'
    <3>1. \A k \in 0..Window - 1 : speed'.ring[k] = Bucket(Age(k))'
      BY <1>4, <1>11 DEF Buckets
    <3> QED
      BY <2>1, <3>1
  <2>3. Bucket(Age(n))' = Moved2(Window) - Moved2(Window - 1)
    <3>1. Window * Div \in Int /\ (Window - 1) * Div \in Int
          /\ 0 + Window * Div = Window * Div /\ 0 + (Window - 1) * Div = (Window - 1) * Div
      BY Halves
    <3> QED
      BY <1>4, <2>1, <3>1 DEF Bucket
  <2>4. Moved2(Window - 1) \in Int /\ 0 + (Window - 1) * Div = (Window - 1) * Div
    <3>1. /\ moved' \in [0..Span -> Int] /\ (Window - 1) * Div \in 0..Span
          /\ 0 + (Window - 1) * Div = (Window - 1) * Div
      <4> DEFINE x == (Window - 1) * Div
      <4>1. x \in Nat /\ x + Div <= Span /\ Span \in Nat
        BY SpanFits, Halves
      <4>2. x \in 0..Span /\ 0 + x = x
        <5> HIDE DEF x
        <5> QED
          BY <4>1, Halves
      <4>3. moved' \in [0..Span -> Int]
        BY <1>0, Shifted
      <4> QED
        BY <4>2, <4>3
    <3> QED
      BY <3>1
  <2>5. c = (c - Moved2(Window - 1)) + Moved2(Window - 1) - 0
    <3> DEFINE b == Moved2(Window - 1)
    <3> SUFFICES c = (c - b) + b - 0
      OBVIOUS
    <3>1. b \in Int /\ c \in Int
      BY <1>9, <2>4
    <3> HIDE DEF b, c
    <3> QED
      BY <3>1
  <2>6. speed'.counts = speed'.ring[speed'.index]
                          + moved'[speed'.periods + (Window - 1) * Div]
                          - moved'[speed'.periods]
    BY <1>4, <1>5, <1>7, <1>9, <2>2, <2>3, <2>4, <2>5
  <2>7. speed'.index = 0 => speed'.trip_counts = moved'[Span]
    BY <1>1, <1>4, <1>9, Halves
  <2> QED
    BY <2>6, <2>7 DEF Published
<1>13. speed'.delta = moved'[speed'.periods]
  BY <1>4, <1>5
<1>15. BucketFits'
  <2>1. 0 * (BucketMax + 1) = 0 /\ 0 * BucketMax = 0 /\ Div * 0 = 0
    BY SpeedAssumption
  <2> QED
    BY <1>4, <2>1 DEF BucketFits
<1> QED
  BY <1>4, <1>9, <1>10, <1>11, <1>12, <1>13, <1>15 DEF EstimatorHolds

-----------------------------------------------------------------------------
(* Every period keeps the estimator's invariant                            *)

(* What one period does to the rotor, the estimator and the ghosts.        *)
MotionFacts(in, move, calib2, map2) ==
  LET m == Chosen(in, on)
      entered == Entered(in, on)
  IN  /\ move \in Moves(m, entered)
      /\ enc' = (enc + move) % Turn
      /\ moved' = MovedAfter(m, entered, move)
      /\ speed' = SpeedAfter(m, entered, enc')
      /\ in.overspeed = Overspeed(speed')
      /\ rpm' = RpmAfter(m, entered, Powered(on))
      /\ direction' = DirectionAfter(m, calib2)
      /\ fast' = FastAfter(entered, CurrentLoop(in, on, map2))
      /\ rotor' = rotor

LEMMA PeriodMoves ==
  ASSUME NEW in, Period(in)
  PROVE  \E move, ident2, calib2, map2 :
           PeriodFacts(in, ident2, calib2, map2) /\ MotionFacts(in, move, calib2, map2)
  BY DEF Period, PeriodFacts, MotionFacts

(* The power the new state knows of was there in the period before, unless *)
(* that period was idle.                                                   *)
LEMMA PowerWasThere ==
  ASSUME FreshInv, NEW in \in Inputs, NEW ident2, NEW calib2, NEW map2,
         PeriodFacts(in, ident2, calib2, map2), Powered(on)', Chosen(in, on) # "IDLE"
  PROVE  Powered(on)
<1>1. on' => request'
  BY DEF PeriodFacts, Follow
<1>2. request'
  BY <1>1 DEF Powered
<1> QED
  BY <1>2, RequestWasThere DEF Powered

LEMMA DirectionType ==
  ASSUME EstimatorInv, NEW m, NEW calib2 PROVE DirectionAfter(m, calib2) \in Int
  BY DEF DirectionAfter, EstimatorInv

LEMMA StillFacts ==
  Still \in [0..Span -> Int] /\ \A x \in 0..Span : Still[x] = 0
  BY SpanFits DEF Still

(* An entry starts the window and its ghost at the sample it took.         *)
LEMMA ResetHolds ==
  ASSUME enc' \in 0..Turn - 1, speed' = SpeedReset(enc'), moved' = Still
  PROVE  /\ EstimatorHolds'
         /\ speed'.periods = 0 /\ speed'.index = 0 /\ speed'.counts = 0
<1>1. /\ speed'.previous = enc' /\ speed'.periods = 0 /\ speed'.index = 0
      /\ speed'.delta = 0 /\ speed'.counts = 0 /\ speed'.trip_counts = 0
      /\ speed'.ring = [k \in 0..Window - 1 |-> 0]
  BY DEF SpeedReset
<1>2. EstimatorType'
  <2>1. enc' \in Int /\ 0 \in 0..Div - 1 /\ 0 \in 0..Window - 1
    BY Halves
  <2> QED
    BY <2>1 DEF SpeedReset, EstimatorType
<1>3. ASSUME NEW j \in 1..Window
      PROVE  moved'[0 + j * Div] = 0 /\ moved'[0 + (j - 1) * Div] = 0
  <2> DEFINE a == j * Div
             b == (j - 1) * Div
  <2>1. /\ a \in Nat /\ b \in Nat /\ a = b + Div /\ b + Div <= Span
        /\ Div \in Nat /\ Span \in Nat
    <3>1. j \in 0..Window /\ j - 1 \in 0..Window /\ j - 1 \in 0..Window - 1
      BY Halves
    <3> QED
      BY <3>1, SpanFits, Halves
  <2>2. 0 + a \in 0..Span /\ 0 + b \in 0..Span
    <3> HIDE DEF a, b
    <3> QED
      BY <2>1
  <2> QED
    BY <2>2, StillFacts
<1>4. Buckets'
  <2> SUFFICES ASSUME NEW k \in 0..Window - 1 PROVE 0 = Bucket(Age(k))'
    BY <1>1 DEF Buckets
  <2>1. Age(k)' \in 1..Window
    BY <1>1, Halves DEF Age
  <2>2. Bucket(Age(k))' = 0 - 0
    BY <1>1, <1>3, <2>1 DEF Bucket
  <2> QED
    BY <2>2
<1>5. Published'
  <2>1. Window \in 1..Window /\ 0 \in 0..Span /\ 0 \in 0..Window - 1
    BY Halves, SpanFits
  <2>2. moved'[0 + (Window - 1) * Div] = 0 /\ moved'[0] = 0 /\ moved'[Span] = 0
    <3>1. moved'[0 + (Window - 1) * Div] = 0
      BY <1>3, <2>1
    <3>2. moved'[0] = 0 /\ moved'[Span] = 0
      BY <2>1, StillFacts, SpanFits
    <3> QED
      BY <3>1, <3>2
  <2>3. speed'.ring[0] = 0
    BY <1>1, <2>1
  <2> QED
    BY <1>1, <2>2, <2>3 DEF Published
<1>6. speed'.delta = moved'[speed'.periods]
  BY <1>1, StillFacts, SpanFits
<1>7. BucketFits'
  <2>1. 0 * (BucketMax + 1) = 0 /\ 0 * BucketMax = 0 /\ Div * 0 = 0
    BY SpeedAssumption
  <2> QED
    BY <1>1, <2>1 DEF BucketFits
<1> QED
  BY <1>1, <1>2, <1>4, <1>5, <1>6, <1>7 DEF EstimatorHolds

LEMMA EstimatorStep ==
  ASSUME FreshInv, EstimatorInv, alive, NEW in \in Inputs, NEW move, NEW ident2,
         NEW calib2, NEW map2, PeriodFacts(in, ident2, calib2, map2),
         MotionFacts(in, move, calib2, map2)
  PROVE  EstimatorInv'
<1> DEFINE m == Chosen(in, on)
           entered == Entered(in, on)
           loop == CurrentLoop(in, on, map2)
<1>1. /\ move \in Moves(m, entered) /\ enc' = (enc + move) % Turn
      /\ moved' = MovedAfter(m, entered, move)
      /\ speed' = SpeedAfter(m, entered, enc')
      /\ in.overspeed = Overspeed(speed')
      /\ rpm' = RpmAfter(m, entered, Powered(on))
      /\ direction' = DirectionAfter(m, calib2)
      /\ fast' = FastAfter(entered, loop)
      /\ rotor' = rotor
  BY DEF MotionFacts
<1>2. /\ mode' = m /\ map2 \in MapAfter(in, on)
      /\ alive' = (CmdTrip(in, on, map2) = {})
      /\ entered = (m # mode)
  BY DEF PeriodFacts, FocStep, Follow, Entered
<1>3. loop => Estimates(m)
  BY <1>2 DEF CurrentLoop, MapAfter, Estimates
<1>4. enc' \in 0..Turn - 1 /\ move \in Int /\ rotor' \in Rotors
  <2>1. enc \in 0..Turn - 1 /\ rotor \in Rotors
    BY DEF EstimatorInv
  <2>2. move \in Int
    BY <1>1, <2>1, RotorMoves, MotionAssumption, Halves DEF Moves
  <2>3. enc + move \in Int /\ Turn \in Nat \ {0}
    BY <2>1, <2>2, Halves
  <2> QED
    BY <1>1, <2>1, <2>2, <2>3
<1>5. direction' \in Int
  BY <1>1, DirectionType
<1>6. fast' \in Nat /\ fast' \in {0, fast + 1} /\ fast \in Nat
  BY <1>1 DEF FastAfter, EstimatorInv
<1>7. Powered(on)' /\ Estimates(m) => Powered(on)
  BY PowerWasThere DEF Estimates, CurrentModes
<1> HIDE DEF m, entered, loop
<1>8. CASE ~Estimates(m)
  <2>1. moved' = Still /\ speed' = speed /\ fast' = 0
    BY <1>1, <1>3, <1>8 DEF MovedAfter, SpeedAfter, FastAfter
  <2>2. moved' \in [0..Span -> Int] /\ moved'[0] = 0
    BY <2>1, StillFacts, SpanFits
  <2>3. EstimatorType'
    BY <2>1 DEF EstimatorInv, EstimatorType
  <2> QED
    BY <1>2, <1>4, <1>5, <1>8, <2>1, <2>2, <2>3 DEF EstimatorInv
<1>9. CASE Estimates(m) /\ entered
  <2>1. moved' = Still /\ speed' = SpeedReset(enc') /\ fast' = 0 /\ rpm' = 0
    BY <1>1, <1>9 DEF MovedAfter, SpeedAfter, FastAfter, RpmAfter
  <2>2. moved' \in [0..Span -> Int] /\ moved'[0] = 0
    BY <2>1, StillFacts, SpanFits
  <2>3. /\ EstimatorHolds'
        /\ speed'.periods = 0 /\ speed'.index = 0 /\ speed'.counts = 0
    BY <1>4, <2>1, ResetHolds
  <2>4. rpm' = IF direction' < 0 THEN -speed'.counts ELSE speed'.counts
    <3>1. /\ speed'.counts \in Int /\ speed'.counts <= 0 /\ speed'.counts >= 0
          /\ rpm' = speed'.counts
      BY <2>1, <2>3
    <3> QED
      BY <3>1
  <2>5. fast' <= speed'.index * Div + speed'.periods
    BY <2>1, <2>3, SpanFits
  <2> QED
    BY <1>2, <1>4, <1>5, <1>9, <2>1, <2>2, <2>3, <2>4, <2>5
       DEF EstimatorInv, EstimatorHolds
<1>10. CASE Estimates(m) /\ ~entered
  <2>1. /\ move \in rotor /\ Shifts(move) /\ speed' = SpeedStep(speed, enc')
        /\ Estimates(mode) /\ mode = m /\ direction' = direction
    BY <1>1, <1>2, <1>10
       DEF Moves, MovedAfter, Shifts, SpeedAfter, DirectionAfter, Estimates, CurrentModes
  <2>2. moved' \in [0..Span -> Int] /\ moved'[0] = 0
    BY <1>4, <2>1, Shifted
  <2>3. /\ speed.periods \in 0..Div - 1 /\ speed.index \in 0..Window - 1
        /\ speed.counts \in Int
        /\ Powered(on) => rpm = IF direction < 0 THEN -speed.counts ELSE speed.counts
        /\ fast <= speed.index * Div + speed.periods
    BY <2>1, EstimatorFacts DEF EstimatorInv
  <2>4. CASE ~SpeedTick(speed)
    <3>1. /\ EstimatorHolds' /\ speed'.periods = speed.periods + 1
          /\ speed'.index = speed.index /\ speed'.counts = speed.counts
      BY <1>1, <2>1, <2>4, EstimatorGoesOn
    <3>2. rpm' = rpm
      BY <1>1, <1>10, <2>4 DEF RpmAfter, Ticks
    <3>3. Powered(on)' =>
            rpm' = IF direction' < 0 THEN -speed'.counts ELSE speed'.counts
      BY <1>7, <1>10, <2>1, <2>3, <3>1, <3>2
    <3>4. fast' <= speed'.index * Div + speed'.periods
      <4> DEFINE x == speed.index * Div
      <4>1. x \in Nat /\ speed.periods \in Nat
        BY <2>3, Halves
      <4>2. fast <= x + speed.periods /\ fast' <= fast + 1
        BY <1>6, <2>3
      <4>3. fast' <= x + (speed.periods + 1)
        <5> HIDE DEF x
        <5> QED
          BY <1>6, <4>1, <4>2
      <4> QED
        BY <3>1, <4>3
    <3> QED
      BY <1>2, <1>4, <1>5, <1>6, <1>10, <2>2, <3>1, <3>3, <3>4
         DEF EstimatorInv, EstimatorHolds
  <2>5. CASE SpeedTick(speed)
    <3>1. /\ EstimatorHolds' /\ speed'.periods = 0 /\ speed'.counts = moved'[Span]
          /\ speed'.index = IF speed.index + 1 = Window THEN 0 ELSE speed.index + 1
      BY <1>1, <2>1, <2>5, EstimatorPublishes
    <3>2. rpm' = IF Powered(on) /\ direction < 0 THEN -speed'.counts ELSE speed'.counts
      BY <1>1, <1>10, <2>5 DEF RpmAfter, Ticks
    <3>3. Powered(on)' =>
            rpm' = IF direction' < 0 THEN -speed'.counts ELSE speed'.counts
      BY <1>7, <1>10, <2>1, <3>2
    <3>4. alive' => fast' <= speed'.index * Div + speed'.periods
      <4>1. CASE speed.index + 1 # Window
        <5> DEFINE x == speed.index * Div
                   y == (speed.index + 1) * Div
        <5>1. x \in Nat /\ y = x + Div /\ speed.periods + 1 = Div /\ speed.periods \in Nat
          BY <2>3, <2>5, Halves DEF SpeedTick
        <5>2. fast <= x + speed.periods /\ fast' <= fast + 1
          BY <1>6, <2>3
        <5>3. fast' <= y + 0
          <6> HIDE DEF x, y
          <6> QED
            BY <1>6, <5>1, <5>2
        <5> QED
          BY <3>1, <4>1, <5>3
      <4>2. CASE speed.index + 1 = Window
        <5>1. speed'.index = 0 /\ speed'.trip_counts = moved'[Span]
          BY <3>1, <4>2 DEF EstimatorHolds, Published
        <5>2. ASSUME fast' # 0 PROVE ~alive'
          <6>1. /\ loop /\ Powered(on)
                /\ moved'[Span] \notin -OverspeedCounts..OverspeedCounts
            BY <1>1, <5>2 DEF FastAfter
          <6>2. moved'[Span] \in Int /\ OverspeedCounts \in Nat
            BY <2>2, SpanFits, SpeedAssumption
          <6>3. Overspeed(speed')
            BY <5>1, <6>1, <6>2 DEF Overspeed
          <6> QED
            BY <1>1, <1>2, <6>1, <6>3 DEF CmdTrip, loop
        <5>3. 0 * Div + 0 = 0
          BY SpanFits
        <5> QED
          BY <3>1, <5>1, <5>2, <5>3
      <4> QED
        BY <4>1, <4>2
    <3> QED
      BY <1>2, <1>4, <1>5, <1>6, <1>10, <2>2, <3>1, <3>3, <3>4
         DEF EstimatorInv, EstimatorHolds
  <2> QED
    BY <2>4, <2>5
<1> QED
  BY <1>8, <1>9, <1>10

LEMMA InitEstimator == ASSUME Init PROVE EstimatorInv
<1>1. /\ enc = 0 /\ direction = 0 /\ fast = 0 /\ moved = Still
      /\ speed = SpeedReset(0) /\ mode = "IDLE"
  BY DEF Init, CtrlInit
<1>2. EstimatorType
  <2>1. 0 \in Int /\ 0 \in 0..Div - 1 /\ 0 \in 0..Window - 1
    BY Halves
  <2> QED
    BY <1>1, <2>1 DEF SpeedReset, EstimatorType
<1>3. 0 \in 0..Turn - 1 /\ moved \in [0..Span -> Int] /\ moved[0] = 0
  BY <1>1, Halves, StillFacts, SpanFits
<1>4. ~Estimates(mode) /\ rotor \in Rotors
  BY <1>1 DEF Init, Estimates, CurrentModes
<1> QED
  BY <1>1, <1>2, <1>3, <1>4 DEF EstimatorInv

(* Both invariants together: that a powered period follows a powered one   *)
(* is known from the request.                                              *)
LEMMA MotionInvariant == Spec => [](FreshInv /\ EstimatorInv)
<1>1. FreshInv /\ EstimatorInv /\ [Next]_vars => EstimatorInv'
  <2> SUFFICES ASSUME FreshInv, EstimatorInv, [Next]_vars PROVE EstimatorInv'
    OBVIOUS
  <2>1. CASE Next
    BY <2>1, PeriodMoves, EstimatorStep DEF Next
  <2>2. CASE UNCHANGED vars
    <3>1. UNCHANGED <<enc, direction, fast, moved, speed, mode, on, request, rpm, alive, rotor>>
      BY <2>2 DEF vars, guardVars, ctrlVars
    <3> QED
      BY <3>1 DEF EstimatorInv, EstimatorType, Buckets, Bucket, Age, Published, BucketFits,
                  Powered
  <2> QED
    BY <2>1, <2>2
<1> QED
  BY <1>1, InitEstimator, MotionIsFresh, PTL DEF Spec

(* foc_speed.h:28-32 - whatever the encoder's size, the length of a bucket *)
(* and the number of buckets, the published sum is the distance of the     *)
(* last Div * Window periods and the decision value that of one full ring. *)
THEOREM MotionSpeedIsDisplacement == Spec => []SpeedIsDisplacement
<1>1. EstimatorInv => SpeedIsDisplacement
  <2> SUFFICES ASSUME EstimatorInv, Estimates(mode) PROVE
         /\ speed.periods = 0 => speed.counts = moved[Span]
         /\ speed.periods = 0 /\ speed.index = 0 => speed.trip_counts = moved[Span]
         /\ Powered(on) =>
              rpm = IF direction < 0 THEN -speed.counts ELSE speed.counts
    BY DEF SpeedIsDisplacement
  <2>1. /\ speed.periods = 0 /\ speed.index = 0 => speed.trip_counts = moved[Span]
        /\ Powered(on) =>
             rpm = IF direction < 0 THEN -speed.counts ELSE speed.counts
    BY DEF EstimatorInv, Published
  <2>2. ASSUME speed.periods = 0 PROVE speed.counts = moved[Span]
    <3> DEFINE i == speed.index
               a == moved[(Window - 1) * Div]
    <3>1. i \in 0..Window - 1 /\ Age(i) = Window
      BY EstimatorFacts, Halves DEF Age
    <3>2. speed.ring[i] = Bucket(Age(i))
      BY <2>2, <3>1 DEF EstimatorInv, Buckets
    <3>3. /\ 0 + Window * Div = Span /\ 0 + (Window - 1) * Div = (Window - 1) * Div
          /\ (Window - 1) * Div \in 0..Span /\ 0 \in 0..Span /\ Span \in 0..Span
      <4> DEFINE x == (Window - 1) * Div
      <4>1. /\ x \in Nat /\ x + Div <= Span /\ Span \in Nat /\ Div \in Nat
            /\ Window * Div = Span
        BY SpanFits, Halves
      <4>2. 0 + x = x /\ x \in 0..Span /\ 0 \in 0..Span /\ Span \in 0..Span /\ 0 + Span = Span
        <5> HIDE DEF x
        <5> QED
          BY <4>1
      <4> QED
        BY <4>1, <4>2
    <3>4. speed.ring[i] = moved[Span] - a
      BY <2>2, <3>1, <3>2, <3>3 DEF Bucket
    <3>5. speed.counts = speed.ring[i] + a - 0
      BY <2>2, <3>3 DEF EstimatorInv, Published
    <3>6. a \in Int /\ moved[Span] \in Int
      BY <3>3, EstimatorFacts
    <3>7. speed.counts = (moved[Span] - a) + a - 0
      BY <3>4, <3>5
    <3> HIDE DEF a
    <3> QED
      BY <3>6, <3>7
  <2> QED
    BY <2>1, <2>2
<1> QED
  BY <1>1, MotionInvariant, PTL

(* foc_ctrl.h:99-100 - no rotor stays above the limit for a whole decision *)
(* window of a powered current loop, whatever the window and the limit.    *)
THEOREM MotionCatchesOverspeed == Spec => []OverspeedIsCaught
<1>1. EstimatorInv => OverspeedIsCaught
  <2> SUFFICES ASSUME EstimatorInv, alive PROVE fast < Span
    BY DEF OverspeedIsCaught
  <2>1. fast \in Nat /\ Span \in Nat \ {0}
    BY SpanFits DEF EstimatorInv
  <2>2. CASE Estimates(mode)
    <3> DEFINE x == speed.index * Div
    <3>1. fast <= x + speed.periods
      BY <2>2 DEF EstimatorInv
    <3>2. x \in Nat /\ x + Div <= Span /\ speed.periods \in 0..Div - 1 /\ Div \in Nat
      <4>1. speed.index \in 0..Window - 1 /\ speed.periods \in 0..Div - 1
        BY <2>2, EstimatorFacts
      <4>2. speed.index \in 0..Window
        BY <4>1, Halves
      <4> QED
        BY <4>1, <4>2, SpanFits, Halves
    <3> HIDE DEF x
    <3> QED
      BY <2>1, <3>1, <3>2
  <2>3. CASE ~Estimates(mode)
    BY <2>1, <2>3 DEF EstimatorInv
  <2> QED
    BY <2>2, <2>3
<1> QED
  BY <1>1, MotionInvariant, PTL
=============================================================================

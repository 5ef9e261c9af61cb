------------------------------- MODULE CogMap -------------------------------
(***************************************************************************)
(* The cogging-map sequencer of src/cog_map.c: the raw sums are cleared    *)
(* one bin per period, a gain check ramps the voltage up and down at every *)
(* angle, and a position loop sweeps the rotor forward and back.  One call *)
(* of cog_map_step() is one step of the model.                             *)
(*                                                                         *)
(* Data abstraction: voltages are counted in ramp steps of 50 uV; a gain   *)
(* point is recorded or not; the current the position loop asks for is any *)
(* of Currents; of the bins one is followed (Watched), the others may fill *)
(* up at any time.  Counts, targets and travel are the code's integers.    *)
(***************************************************************************)
EXTENDS Integers

CONSTANTS
  Bins,        (* FOC_CTRL_MAP_BINS, 256                                   *)
  Points,      (* COG_GAIN_POINTS, 12                                      *)
  VSteps,      (* largest gain-check voltage, in ramp steps                *)
  SettleN,     (* COG_SETTLE_N, 6000                                       *)
  AverageN,    (* COG_AVERAGE_N, 2000                                      *)
  ZeroN,       (* periods at zero voltage, 400                             *)
  HoldN,       (* COG_POS_HOLD_N, 10000                                    *)
  Counts,      (* encoder counts per turn, 4096                            *)
  BinWidth,    (* counts per bin, 16                                       *)
  Travel,      (* counts of a sweep, 8192                                  *)
  Slip,        (* COG_POS_SLIP_COUNTS, 400                                 *)
  Rate, Den,   (* the target moves Rate / Den counts per period: 410/20000 *)
  IMax,        (* COG_POS_I_MAX in mA, 1000                                *)
  CountMax,    (* UINT16_MAX                                               *)
  TimeoutN,    (* COG_TIMEOUT_N, 1400000                                   *)
  Watched      (* the bin whose sums are followed                          *)

ASSUME CogAssumption ==
  /\ \A n \in {Bins, Points, VSteps, SettleN, AverageN, HoldN, Counts, BinWidth,
               Travel, Rate, Den, IMax, CountMax, ZeroN} : n \in Nat \ {0}
  /\ Slip \in Nat /\ TimeoutN \in Nat
  /\ Counts % 2 = 0 /\ Watched \in 0..Bins - 1

Currents == {-IMax, IMax}
Directions == {0, 1}   (* index of the sums: forward, reverse              *)

VARIABLES
  phase, reason,
  gains,                 (* raw.gain: the points recorded                  *)
  sum, count,            (* raw.sum and raw.count of the watched bin       *)
  ready,                 (* TRUE: the thread owns raw                      *)
  ticks, dwell, clear_bin, point,
  voltage, target_v,
  direction, previous,   (* sign of the encoder, its last count            *)
  pos, tgt,              (* counts; the target in units of 1/Den count     *)
  travel, iq_cmd

raw == <<phase, reason, gains, sum, count>>
volts == <<voltage, target_v>>
sweep == <<pos, tgt, travel, iq_cmd>>
vars == <<raw, ready, ticks, dwell, clear_bin, point, volts, direction,
          previous, sweep>>

Gain == {"GAIN_RAMP", "GAIN_SETTLE", "GAIN_AVERAGE", "GAIN_DECAY"}
Sweep == {"FORWARD_SETTLE", "FORWARD", "REVERSE_SETTLE", "REVERSE"}
Running == {"CLEAR"} \cup Gain \cup Sweep
Phases == Running \cup {"IDLE", "DONE", "FAILED"}
Reasons == {"OK", "NOT_POWERED", "CALIBRATION", "CANCELLED", "FAULT", "NUMERIC",
            "SLIP", "TIMEOUT", "OVERFLOW"}

(* What a sweep reads, and whether the bin is full if it is not Watched.   *)
Inputs == [enc : 0..Counts - 1, iq : Currents, full : BOOLEAN]

Init ==
  /\ phase = "IDLE" /\ reason = "OK" /\ gains = {}
  /\ sum = [d \in Directions |-> 0] /\ count = [d \in Directions |-> 0]
  /\ ready = FALSE
  /\ ticks = 0 /\ dwell = 0 /\ clear_bin = 0 /\ point = 0
  /\ voltage = 0 /\ target_v = 0 /\ direction = 0 /\ previous = 0
  /\ pos = 0 /\ tgt = 0 /\ travel = 0 /\ iq_cmd = 0

(* finish(): the terminal buffer is handed to the thread.                  *)
Finish(r) ==
  /\ reason' = r
  /\ phase' = IF r = "OK" THEN "DONE" ELSE "FAILED"
  /\ voltage' = 0
  /\ ready' = TRUE

GoesOn == UNCHANGED <<reason, ready>>

(* cog_map_start() on entering MAP: leaving it has ended the last run.     *)
MayStart == phase \notin Running /\ ~ready

Start(power, plausible, v, dir, enc) ==
  /\ MayStart
  /\ gains' = {} /\ ticks' = 0 /\ dwell' = 0 /\ clear_bin' = 0 /\ point' = 0
  /\ target_v' = v /\ direction' = dir /\ previous' = enc
  /\ pos' = 0 /\ tgt' = 0 /\ travel' = 0 /\ iq_cmd' = 0
  /\ UNCHANGED <<sum, count>>
  /\ IF ~power THEN Finish("NOT_POWERED")
     ELSE IF ~plausible THEN Finish("CALIBRATION")
     ELSE phase' = "CLEAR" /\ reason' = "OK" /\ voltage' = 0 /\ UNCHANGED ready

(* cog_map_abort() from mode_enter() or foc_ctrl_fault().                  *)
Abort(r) ==
  /\ phase \in Running
  /\ Finish(r)
  /\ UNCHANGED <<gains, sum, count, ticks, dwell, clear_bin, point, target_v,
                 direction, previous, sweep>>

(* cog_map_release()                                                       *)
Release ==
  /\ ready
  /\ ready' = FALSE
  /\ UNCHANGED <<raw, ticks, dwell, clear_bin, point, volts, direction,
                 previous, sweep>>
-----------------------------------------------------------------------------
(* cog_map_step(): the first check in front of a period that fails         *)
Aborted ==
  /\ \/ \E r \in {"FAULT", "CANCELLED", "NOT_POWERED", "NUMERIC"} :
          Finish(r) /\ UNCHANGED ticks
     \/ ticks + 1 > TimeoutN /\ Finish("TIMEOUT") /\ ticks' = ticks + 1
  /\ UNCHANGED <<gains, sum, count, dwell, clear_bin, point, target_v, direction,
                 previous, sweep>>

(* A phase ends: its dwell starts again.                                   *)
Enter(p) == phase' = p /\ dwell' = 0

LastBinEarly == clear_bin + 1 >= Bins - 1

LastBin == clear_bin + 1 = Bins

SumKept == sum

SumCleared == IF clear_bin = Watched THEN [d \in Directions |-> 0] ELSE sum

ClearBin ==
  /\ phase = "CLEAR"
  /\ sum' = SumCleared
  /\ count' = IF clear_bin = Watched THEN [d \in Directions |-> 0] ELSE count
  /\ clear_bin' = clear_bin + 1
  /\ IF LastBin THEN Enter("GAIN_RAMP") ELSE dwell' = dwell + 1 /\ UNCHANGED phase
  /\ UNCHANGED <<gains, point, voltage, previous, sweep>>

Ramp ==
  /\ phase = "GAIN_RAMP"
  /\ voltage' = voltage + 1
  /\ IF voltage + 1 >= target_v THEN Enter("GAIN_SETTLE")
     ELSE dwell' = dwell + 1 /\ UNCHANGED phase
  /\ UNCHANGED <<gains, sum, count, clear_bin, point, previous, sweep>>

Settle ==
  /\ phase = "GAIN_SETTLE"
  /\ IF dwell + 1 = SettleN THEN Enter("GAIN_AVERAGE")
     ELSE dwell' = dwell + 1 /\ UNCHANGED phase
  /\ UNCHANGED <<gains, sum, count, clear_bin, point, voltage, previous, sweep>>

Average ==
  /\ phase = "GAIN_AVERAGE"
  /\ IF dwell + 1 = AverageN
     THEN Enter("GAIN_DECAY") /\ gains' = gains \cup {point}
     ELSE dwell' = dwell + 1 /\ UNCHANGED <<phase, gains>>
  /\ UNCHANGED <<sum, count, clear_bin, point, voltage, previous, sweep>>

(* The voltage is removed, and then kept at zero before the next angle.    *)
WaitedAtOnce == TRUE

Waited == dwell >= ZeroN

NextPoint ==
  /\ voltage <= 1 /\ Waited
  /\ voltage' = 0 /\ point' = point + 1
  /\ IF point + 1 = Points
     THEN /\ Enter("FORWARD_SETTLE")
          /\ previous' \in 0..Counts - 1 /\ pos' = 0 /\ tgt' = 0 /\ iq_cmd' = 0
          /\ UNCHANGED travel
     ELSE Enter("GAIN_RAMP") /\ UNCHANGED <<previous, sweep>>

Lower ==
  /\ ~(voltage <= 1 /\ Waited)
  /\ voltage' = IF voltage <= 1 THEN 0 ELSE voltage - 1
  /\ dwell' = IF voltage <= 1 THEN dwell + 1 ELSE 0
  /\ UNCHANGED <<phase, point, previous, sweep>>

Decay ==
  /\ phase = "GAIN_DECAY"
  /\ NextPoint \/ Lower
  /\ UNCHANGED <<gains, sum, count, clear_bin>>
-----------------------------------------------------------------------------
(* The position-loop sweep                                                 *)
Delta(in) == ((in.enc - previous + Counts \div 2) % Counts) - Counts \div 2

Moved(in) == Delta(in) * direction

TargetAfter ==
  CASE phase = "FORWARD" -> tgt + Rate
    [] phase = "REVERSE" -> tgt - Rate
    [] OTHER -> tgt

FollowsWide(in) ==
  LET err == TargetAfter - (pos + Moved(in)) * Den
  IN -(Slip + 1) * Den <= err /\ err <= (Slip + 1) * Den

Follows(in) ==
  LET err == TargetAfter - (pos + Moved(in)) * Den
  IN -Slip * Den <= err /\ err <= Slip * Den

Slipped(in) ==
  /\ ~Follows(in)
  /\ Finish("SLIP") /\ dwell' = dwell + 1
  /\ UNCHANGED <<sum, count, travel, iq_cmd>>

Holding(in) ==
  /\ phase \in {"FORWARD_SETTLE", "REVERSE_SETTLE"} /\ Follows(in)
  /\ iq_cmd' = in.iq
  /\ IF dwell + 1 = HoldN
     THEN /\ Enter(IF phase = "FORWARD_SETTLE" THEN "FORWARD" ELSE "REVERSE")
          /\ travel' = 0
     ELSE dwell' = dwell + 1 /\ UNCHANGED <<phase, travel>>
  /\ UNCHANGED <<sum, count, voltage>> /\ GoesOn

Way == IF phase = "FORWARD" THEN 0 ELSE 1

Here(in) == in.enc \div BinWidth = Watched

FullLate(in) == IF Here(in) THEN count[Way] > CountMax ELSE in.full

Full(in) == IF Here(in) THEN count[Way] = CountMax ELSE in.full

Overflow(in) ==
  /\ phase \in {"FORWARD", "REVERSE"} /\ Follows(in) /\ Full(in)
  /\ Finish("OVERFLOW") /\ dwell' = dwell + 1
  /\ UNCHANGED <<sum, count, travel, iq_cmd>>

Advanced(in) == travel + (IF Way = 0 THEN Moved(in) ELSE -Moved(in))

(* The sample is the current commanded in the period that has just ended.  *)
Sample(in) ==
  /\ phase \in {"FORWARD", "REVERSE"} /\ Follows(in) /\ ~Full(in)
  /\ sum' = IF Here(in) THEN [sum EXCEPT ![Way] = @ + iq_cmd] ELSE sum
  /\ count' = IF Here(in)
              THEN [count EXCEPT ![Way] = (@ + 1) % (CountMax + 1)] ELSE count
  /\ iq_cmd' = in.iq
  /\ travel' = Advanced(in)
  /\ IF Advanced(in) < Travel
     THEN dwell' = dwell + 1 /\ UNCHANGED <<phase, voltage>> /\ GoesOn
     ELSE IF Way = 0
     THEN Enter("REVERSE_SETTLE") /\ UNCHANGED voltage /\ GoesOn
     ELSE Finish("OK") /\ dwell' = dwell + 1

Position(in) ==
  /\ phase \in Sweep
  /\ previous' = in.enc /\ pos' = pos + Moved(in) /\ tgt' = TargetAfter
  /\ Slipped(in) \/ Holding(in) \/ Overflow(in) \/ Sample(in)
  /\ UNCHANGED <<gains, clear_bin, point>>

Period ==
  /\ ticks + 1 <= TimeoutN /\ ticks' = ticks + 1
  /\ \/ (ClearBin \/ Ramp \/ Settle \/ Average \/ Decay) /\ GoesOn
     \/ \E in \in Inputs : Position(in)
  /\ UNCHANGED <<target_v, direction>>

Step == phase \in Running /\ (Aborted \/ Period)

Next ==
  \/ \E power, plausible \in BOOLEAN, v \in 1..VSteps, dir \in {-1, 1},
        enc \in 0..Counts - 1 : Start(power, plausible, v, dir, enc)
  \/ \E r \in {"CANCELLED", "FAULT"} : Abort(r)
  \/ Release
  \/ Step

Spec == Init /\ [][Next]_vars
-----------------------------------------------------------------------------
(* Type correctness of the sequencer.                                      *)
TypeOK ==
  /\ phase \in Phases /\ reason \in Reasons /\ gains \subseteq 0..Points - 1
  /\ sum \in [Directions -> Int] /\ count \in [Directions -> 0..CountMax]
  /\ ready \in BOOLEAN
  /\ ticks \in 0..TimeoutN + 1 /\ dwell \in Nat
  /\ clear_bin \in 0..Bins /\ point \in 0..Points
  /\ voltage \in 0..target_v /\ target_v \in 0..VSteps
  /\ direction \in {-1, 0, 1} /\ previous \in 0..Counts - 1
  /\ pos \in Int /\ tgt \in Int /\ travel \in Int /\ iq_cmd \in Currents \cup {0}

(* cog_map.h:13 - a run that follows its target ends before the timeout:   *)
(* only a gain-check voltage whose ramps leave no room for the sweeps runs *)
(* into it, however the rotor lags, leads and moves to and fro.            *)
SweepMax == (Den * (Travel - 1 + 2 * Slip)) \div Rate + 1

LongestMap(v) ==
  Bins + Points * (2 * v + SettleN + AverageN + ZeroN) + 2 * (HoldN + SweepMax)

TimesOutOverBudget == reason = "TIMEOUT" => LongestMap(target_v) > TimeoutN

(* cog_map.c:132-134 - the angle of the gain check never steps under       *)
(* voltage, and only after the voltage has been zero for the whole wait.   *)
AngleStepsUnexcited ==
  [][(phase \in Running /\ point' # point)
       => voltage = 0 /\ voltage' = 0 /\ dwell >= ZeroN]_vars

(* cog_map.c:8-11 - no sum exceeds what its counter and the current limit  *)
(* allow, so that none can overflow before its counter stops the run.      *)
SumsBounded ==
  \A d \in Directions : -IMax * count[d] <= sum[d] /\ sum[d] <= IMax * count[d]

(* cog_map.c:27 - the bins are cleared before the excitation: a sweep adds *)
(* nothing to the sums of an earlier run.                                  *)
SweepStartsClean ==
  /\ phase \in Gain \cup {"FORWARD_SETTLE"} => count = [d \in Directions |-> 0]
                                               /\ sum = [d \in Directions |-> 0]
  /\ phase \in {"FORWARD", "REVERSE_SETTLE"} => count[1] = 0 /\ sum[1] = 0
=============================================================================

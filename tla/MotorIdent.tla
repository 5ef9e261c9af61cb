----------------------------- MODULE MotorIdent -----------------------------
(***************************************************************************)
(* The identification sequencer of src/motor_ident.c: six forced rotor     *)
(* parks with a decay before every angle switch, a resistance staircase,   *)
(* the inductance injection and a slow rotation both ways.  One call of    *)
(* motor_ident_step() is one step of the model.                            *)
(*                                                                         *)
(* Data abstraction: of the measured current a step learns whether it is   *)
(* finite, above IDENT_I_ABORT_A, and within the band of the target; of a  *)
(* result whether it is plausible; of the voltage whether it may be        *)
(* nonzero; sums are the number of samples added to them.                  *)
(***************************************************************************)
EXTENDS Integers

CONSTANTS
  ReachedN,       (* IDENT_REACHED_N, 400                                  *)
  ServoTimeoutN,  (* IDENT_SERVO_TIMEOUT_N, 20000                          *)
  AlignHoldN,     (* IDENT_ALIGN_HOLD_N, 10000                             *)
  RPoints,        (* IDENT_R_POINTS, 5                                     *)
  RSettleN,       (* IDENT_R_SETTLE_N, 4000                                *)
  RAvgN,          (* IDENT_R_AVG_N, 2000                                   *)
  LTotal,         (* periods of injection, 20000                           *)
  LDiscard,       (* injection periods not evaluated, 400                  *)
  RotDirectionN,  (* IDENT_ROT_DIRECTION_N, 80000                          *)
  RotSettleN,     (* IDENT_ROT_SETTLE_N, 10000                             *)
  OvercurrentN,   (* IDENT_I_ABORT_N, 4                                    *)
  RunTimeoutN     (* IDENT_RUN_TIMEOUT_N, 620000                           *)

ASSUME IdentAssumption ==
  /\ ReachedN \in Nat \ {0} /\ ServoTimeoutN \in Nat \ {0}
  /\ AlignHoldN \in Nat \ {0}
  /\ RPoints \in Nat \ {0} /\ RSettleN \in Nat \ {0} /\ RAvgN \in Nat \ {0}
  /\ LTotal \in Nat \ {0} /\ LDiscard \in 0..LTotal
  /\ RotDirectionN \in Nat \ {0} /\ RotSettleN \in 0..RotDirectionN
  /\ OvercurrentN \in Nat \ {0}
  /\ RunTimeoutN \in Nat

(* The longest a run can take: every target is reached in the last period  *)
(* its timeout allows.                                                     *)
ParkMax == ServoTimeoutN + AlignHoldN - 1
PointMax == ServoTimeoutN - 1 + RSettleN + RAvgN
BiasMax == ServoTimeoutN + RSettleN - 1
AlignMax == 6 * ParkMax + 5 * ServoTimeoutN
LongestRun ==
  AlignMax + RPoints * PointMax + BiasMax + (LTotal + 2) + 2 * RotDirectionN

(* motor_ident.h:51-53 - the run timeout leaves room for the phase maxima. *)
ASSUME BudgetAssumption == RunTimeoutN >= LongestRun

VARIABLES
  phase,          (* result.state                                          *)
  fail,           (* result.fail_reason                                    *)
  parks,          (* the parks whose encoder count is in the result        *)
  theta,          (* theta_e_count: 0, 120, 240 degrees or 360 = turning   *)
  v_d,            (* the voltage of the last output                        *)
  run_n, overcurrent_n,
  target_n, reached_n, hold_n, reached,  (* timers of the current target   *)
  align_step,
  point, avg_n,
  l_n, increments,
  rot_n, rot_backward,
  rot_f, rot_b,   (* samples in rot_sum_f and rot_sum_b                    *)
  quiet_n         (* ghost: the latest steps of this decay, in a row, that *)
                  (* met no voltage and a current near zero                *)

target == <<target_n, reached_n, hold_n, reached>>
resist == <<point, avg_n>>
induct == <<l_n, increments>>
rotate == <<rot_n, rot_backward, rot_f, rot_b>>
vars == <<phase, fail, parks, theta, v_d, run_n, overcurrent_n, target,
          align_step, resist, induct, rotate, quiet_n>>

Parks == {"ALIGN_FIRST", "ALIGN_SECOND", "ALIGN_THIRD", "ALIGN_ZERO",
          "ALIGN_RETURN_120", "ALIGN_BACK_ZERO"}
Aligning == Parks \cup {"ALIGN_DECAY"}
Running == Aligning \cup {"RESISTANCE", "L_BIAS", "INDUCTANCE", "OFFSET_ROT"}
Phases == Running \cup {"IDLE", "DONE", "FAILED"}
Reasons == {"NONE", "NOT_POWERED", "NUMERIC", "OVERCURRENT", "SERVO_TIMEOUT",
            "ALIGNMENT", "RESISTANCE", "INDUCTANCE", "RIPPLE",
            "RUN_TIMEOUT", "CANCELLED"}

(* The park that follows the n-th angle switch, and its angle.             *)
ParkAt == <<"ALIGN_SECOND", "ALIGN_THIRD", "ALIGN_ZERO", "ALIGN_RETURN_120",
            "ALIGN_BACK_ZERO">>
AngleAt == <<120, 240, 0, 120, 0>>

Inputs ==
  [finite : BOOLEAN, over : BOOLEAN, power : BOOLEAN,
   in_band : BOOLEAN,   (* |filtered_i - ref| is below the band            *)
   good : BOOLEAN]      (* the check or the fit made now is plausible      *)

Init ==
  /\ phase = "IDLE" /\ fail = "NONE" /\ parks = {} /\ theta = 0
  /\ v_d = "zero"
  /\ run_n = 0 /\ overcurrent_n = 0
  /\ target_n = 0 /\ reached_n = 0 /\ hold_n = 0 /\ reached = FALSE
  /\ align_step = 0 /\ point = 0 /\ avg_n = 0
  /\ l_n = 0 /\ increments = 0
  /\ rot_n = 0 /\ rot_backward = FALSE /\ rot_f = 0 /\ rot_b = 0
  /\ quiet_n = 0

(* motor_ident_start(), from mode_enter(): the previous run has ended.     *)
Start ==
  /\ phase \notin Running
  /\ phase' = "ALIGN_FIRST" /\ fail' = "NONE" /\ parks' = {} /\ theta' = 0
  /\ run_n' = 0 /\ overcurrent_n' = 0
  /\ target_n' = 0 /\ reached_n' = 0 /\ hold_n' = 0 /\ reached' = FALSE
  /\ align_step' = 0 /\ point' = 0 /\ avg_n' = 0
  /\ l_n' = 0 /\ increments' = 0
  /\ rot_n' = 0 /\ rot_backward' = FALSE /\ rot_f' = 0 /\ rot_b' = 0
  /\ quiet_n' = 0
  /\ UNCHANGED v_d

-----------------------------------------------------------------------------
(* Outcomes shared by the phases                                           *)

(* motor_ident_abort() in a running phase; the output of a terminal phase  *)
(* is zero.                                                                *)
Fail(reason) ==
  /\ phase' = "FAILED" /\ fail' = reason
  /\ v_d' = "zero"

(* next_target()                                                           *)
NextTarget(p) ==
  /\ phase' = p
  /\ target_n' = 0 /\ reached_n' = 0 /\ hold_n' = 0 /\ reached' = FALSE

Stay == UNCHANGED <<phase, fail>>

(* servo(): the target is reached by a dwell within the band, or times out *)
InBandAlways(in) == reached_n + 1

InBandKept(in) == IF in.in_band THEN reached_n + 1 ELSE reached_n

InBand(in) == IF in.in_band THEN reached_n + 1 ELSE 0

Arrived(in) == reached \/ InBand(in) >= ReachedN

TimedOutLate(in) == ~Arrived(in) /\ target_n + 1 > ServoTimeoutN

TimedOut(in) == ~Arrived(in) /\ target_n + 1 >= ServoTimeoutN

Servo(in) ==
  /\ reached' = Arrived(in)
  /\ target_n' = IF reached THEN target_n ELSE target_n + 1
  /\ reached_n' = IF reached THEN reached_n ELSE InBand(in)

(* A step of a servoed phase that does not finish its target.              *)
ServoOnly(in) ==
  /\ ~Arrived(in)
  /\ Servo(in)
  /\ UNCHANGED hold_n
  /\ IF TimedOut(in) THEN Fail("SERVO_TIMEOUT")
     ELSE Stay /\ v_d' \in {"zero", "drive"}

Hold(in) ==
  /\ Arrived(in)
  /\ Servo(in)
  /\ hold_n' = hold_n + 1
  /\ Stay
  /\ v_d' \in {"zero", "drive"}

-----------------------------------------------------------------------------
(* The checks in front of every step: the first cause that applies aborts. *)
OverN(in) ==
  IF ~in.over THEN 0
  ELSE IF overcurrent_n < OvercurrentN THEN overcurrent_n + 1 ELSE overcurrent_n

Cause(in) ==
  CASE ~in.finite -> "NUMERIC"
    [] in.finite /\ in.over /\ OverN(in) >= OvercurrentN -> "OVERCURRENT"
    [] in.finite /\ OverN(in) < OvercurrentN /\ ~in.power -> "NOT_POWERED"
    [] in.finite /\ OverN(in) < OvercurrentN /\ in.power
         /\ run_n + 1 > RunTimeoutN -> "RUN_TIMEOUT"
    [] OTHER -> "NONE"

Count(in) ==
  /\ overcurrent_n' = IF in.finite THEN OverN(in) ELSE overcurrent_n
  /\ run_n' = IF phase \in Running /\ Cause(in) \in {"NONE", "RUN_TIMEOUT"}
              THEN run_n + 1 ELSE run_n

Aborted(in) ==
  /\ phase \in Running /\ Cause(in) # "NONE"
  /\ Fail(Cause(in))
  /\ UNCHANGED <<parks, theta, target, align_step, resist, induct, rotate>>

Terminal(in) ==
  /\ phase \notin Running
  /\ v_d' = "zero"
  /\ UNCHANGED <<phase, fail, parks, theta, target, align_step, resist, induct,
                 rotate>>

(* A park ends: its encoder count is recorded (the first one's is not      *)
(* used), the moves are checked at the two zero parks, and the voltage is  *)
(* removed - except before the resistance, which keeps the angle.          *)
ParkDone(in) ==
  /\ Arrived(in) /\ hold_n + 1 >= AlignHoldN
  /\ parks' = parks \cup ({phase} \ {"ALIGN_FIRST"})
  /\ IF phase \in {"ALIGN_ZERO", "ALIGN_BACK_ZERO"} /\ ~in.good
     THEN Fail("ALIGNMENT") /\ Servo(in) /\ hold_n' = hold_n + 1
     ELSE /\ UNCHANGED fail
          /\ IF phase = "ALIGN_BACK_ZERO"
             THEN NextTarget("RESISTANCE") /\ v_d' \in {"zero", "drive"}
             ELSE NextTarget("ALIGN_DECAY") /\ v_d' = "zero"

Align(in) ==
  /\ phase \in Parks /\ Cause(in) = "NONE"
  /\ \/ ServoOnly(in) /\ UNCHANGED parks
     \/ hold_n + 1 < AlignHoldN /\ Hold(in) /\ UNCHANGED parks
     \/ ParkDone(in)
  /\ UNCHANGED <<theta, align_step, resist, induct, rotate>>

(* The current has decayed: switch the angle.                              *)
Decay(in) ==
  /\ phase = "ALIGN_DECAY" /\ Cause(in) = "NONE"
  /\ v_d' = "zero"
  /\ \/ ServoOnly(in) /\ UNCHANGED <<theta, align_step>>
     \/ /\ Arrived(in)
        /\ align_step' = align_step + 1
        /\ theta' = AngleAt[align_step + 1]
        /\ NextTarget(ParkAt[align_step + 1])
        /\ UNCHANGED fail
  /\ UNCHANGED <<parks, resist, induct, rotate>>

(* One settled operating point after the other, then the fit.              *)
PointDone(in) ==
  /\ avg_n + 1 = RAvgN
  /\ point' = point + 1 /\ avg_n' = 0
  /\ IF point + 1 < RPoints
     THEN NextTarget("RESISTANCE") /\ UNCHANGED fail /\ v_d' \in {"zero", "drive"}
     ELSE IF in.good
     THEN NextTarget("L_BIAS") /\ UNCHANGED fail /\ v_d' \in {"zero", "drive"}
     ELSE Fail("RESISTANCE") /\ Servo(in) /\ UNCHANGED hold_n

Average(in) ==
  /\ avg_n + 1 < RAvgN
  /\ avg_n' = avg_n + 1
  /\ Servo(in) /\ Stay /\ v_d' \in {"zero", "drive"}
  /\ UNCHANGED <<point, hold_n>>

Resistance(in) ==
  /\ phase = "RESISTANCE" /\ Cause(in) = "NONE"
  /\ \/ ServoOnly(in) /\ UNCHANGED resist
     \/ hold_n < RSettleN /\ Hold(in) /\ UNCHANGED resist
     \/ hold_n >= RSettleN /\ Arrived(in) /\ (Average(in) \/ PointDone(in))
  /\ UNCHANGED <<parks, theta, align_step, induct, rotate>>

LBias(in) ==
  /\ phase = "L_BIAS" /\ Cause(in) = "NONE"
  /\ \/ ServoOnly(in)
     \/ hold_n + 1 < RSettleN /\ Hold(in)
     \/ /\ Arrived(in) /\ hold_n + 1 >= RSettleN
        /\ NextTarget("INDUCTANCE") /\ UNCHANGED fail
        /\ v_d' \in {"zero", "drive"}
  /\ UNCHANGED <<parks, theta, align_step, resist, induct, rotate>>

(* The increment seen at call n answers the output of call n - 2.          *)
AnswersEarly(n) == n >= 1 /\ n - 1 >= LDiscard

Answers(n) == n >= 2 /\ n - 2 >= LDiscard

Inductance(in) ==
  /\ phase = "INDUCTANCE" /\ Cause(in) = "NONE"
  /\ increments' = IF Answers(l_n) THEN increments + 1 ELSE increments
  /\ IF l_n < LTotal + 1
     THEN l_n' = l_n + 1 /\ Stay /\ v_d' = "drive" /\ UNCHANGED theta
     ELSE /\ UNCHANGED l_n
          /\ IF in.good
             THEN /\ phase' = "OFFSET_ROT" /\ theta' = 0
                  /\ v_d' = "drive" /\ UNCHANGED fail
             ELSE (Fail("INDUCTANCE") \/ Fail("RIPPLE")) /\ UNCHANGED theta
  /\ UNCHANGED <<parks, target, align_step, resist, rotate>>

(* A quarter turn to settle and then one sample per period, both ways.     *)
Sampled == rot_n >= RotSettleN

RotationEnds(in) ==
  /\ rot_n + 1 = RotDirectionN
  /\ IF ~rot_backward
     THEN rot_backward' = TRUE /\ rot_n' = 0 /\ Stay /\ v_d' = "drive"
     ELSE /\ rot_n' = rot_n + 1 /\ UNCHANGED rot_backward
          /\ IF in.good
             THEN phase' = "DONE" /\ v_d' = "zero" /\ UNCHANGED fail
             ELSE Fail("ALIGNMENT")

RotationGoesOn ==
  /\ rot_n + 1 < RotDirectionN
  /\ rot_n' = rot_n + 1
  /\ Stay /\ v_d' = "drive"
  /\ UNCHANGED rot_backward

Rotation(in) ==
  /\ phase = "OFFSET_ROT" /\ Cause(in) = "NONE"
  /\ \/ Fail("ALIGNMENT") /\ UNCHANGED <<theta, rotate>>   (* slip *)
     \/ /\ theta' = 360
        /\ rot_f' = IF Sampled /\ ~rot_backward THEN rot_f + 1 ELSE rot_f
        /\ rot_b' = IF Sampled /\ rot_backward THEN rot_b + 1 ELSE rot_b
        /\ RotationGoesOn \/ RotationEnds(in)
  /\ UNCHANGED <<parks, target, align_step, resist, induct>>

Quiet(in) == phase = "ALIGN_DECAY" /\ v_d = "zero" /\ in.in_band

Step(in) ==
  /\ \/ Aborted(in) \/ Terminal(in)
     \/ Align(in) \/ Decay(in) \/ Resistance(in) \/ LBias(in)
     \/ Inductance(in) \/ Rotation(in)
  /\ Count(in)
  /\ quiet_n' = IF Quiet(in) THEN quiet_n + 1 ELSE 0

(* mode_enter(): leaving IDENT aborts a run that is not over.              *)
CancelTerminal == phase # "IDLE"

CancelRuns == phase \in Running

Cancel ==
  /\ CancelRuns
  /\ Fail("CANCELLED")
  /\ quiet_n' = 0
  /\ UNCHANGED <<parks, theta, run_n, overcurrent_n, target, align_step, resist,
                 induct, rotate>>

Next == Start \/ Cancel \/ \E in \in Inputs : Step(in)

Spec == Init /\ [][Next]_vars
-----------------------------------------------------------------------------
(* The types of the sequencer's own variables.                             *)
SequencerTypeOK ==
  /\ phase \in Phases /\ fail \in Reasons
  /\ parks \subseteq Parks /\ theta \in {0, 120, 240, 360}
  /\ v_d \in {"zero", "drive"}
  /\ run_n \in 0..RunTimeoutN + 1 /\ overcurrent_n \in 0..OvercurrentN
  /\ target_n \in 0..ServoTimeoutN /\ reached_n \in 0..ServoTimeoutN
  /\ hold_n \in Nat /\ reached \in BOOLEAN
  /\ align_step \in 0..5 /\ point \in 0..RPoints /\ avg_n \in 0..RAvgN
  /\ l_n \in 0..LTotal + 1 /\ increments \in 0..LTotal
  /\ rot_n \in 0..RotDirectionN /\ rot_backward \in BOOLEAN
  /\ rot_f \in 0..RotDirectionN /\ rot_b \in 0..RotDirectionN

(* Type correctness of the sequencer and of the ghost beside it.           *)
TypeOK == SequencerTypeOK /\ quiet_n \in Nat

(* motor_ident.h:51-54 - the run timeout is a second net only: the phases' *)
(* own timeouts end every run before it, whatever the current does.        *)
NeverRunTimeout == fail # "RUN_TIMEOUT"

(* motor_ident.c:455 - the angle is switched from park to park only after  *)
(* the voltage was removed and the current, sample by sample and without a *)
(* gap, stayed near zero for a full dwell, this sample the last of them.   *)
AngleSwitchesUnexcited ==
  [][(phase \in Running /\ theta' # theta /\ phase # "OFFSET_ROT")
       => v_d = "zero" /\ v_d' = "zero" /\ quiet_n' >= ReachedN]_vars

(* A completed run took every measurement its results are computed from,   *)
(* and divides each sum by the number of samples it holds.                 *)
DoneIsComplete ==
  phase = "DONE" =>
    /\ parks = Parks \ {"ALIGN_FIRST"}
    /\ point = RPoints
    /\ increments = LTotal - LDiscard
    /\ rot_f = RotDirectionN - RotSettleN
    /\ rot_b = RotDirectionN - RotSettleN

(* motor_ident.h:56 - terminal states remain latched until start: neither  *)
(* later steps nor leaving the mode changes a verdict.                     *)
TerminalIsLatched ==
  [][(phase \in {"DONE", "FAILED"} /\ phase' # "ALIGN_FIRST")
       => UNCHANGED <<phase, fail>>]_vars
=============================================================================

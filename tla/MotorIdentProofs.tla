-------------------------- MODULE MotorIdentProofs --------------------------
(***************************************************************************)
(* Proofs about MotorIdent, for every value of its constants: the phases'  *)
(* own timeouts keep every run below the run timeout, a completed run is   *)
(* complete, and the angle is only switched without excitation.            *)
(***************************************************************************)
EXTENDS MotorIdent, TLAPS

(* Periods of a park and the decay that follows it.                        *)
SwitchMax == ParkMax + ServoTimeoutN

Servoed == Aligning \cup {"RESISTANCE", "L_BIAS"}

(* The timers of the current target.                                       *)
Timers ==
  /\ reached_n <= target_n
  /\ phase \in Servoed =>
       /\ ~reached => target_n < ServoTimeoutN /\ hold_n = 0 /\ avg_n = 0
       /\ reached => phase # "ALIGN_DECAY" /\ hold_n >= 1
  /\ phase \in Parks => hold_n < AlignHoldN
  /\ phase = "RESISTANCE" =>
       /\ hold_n <= RSettleN /\ avg_n < RAvgN /\ point < RPoints
       /\ hold_n < RSettleN => avg_n = 0
  /\ phase = "L_BIAS" => hold_n < RSettleN

(* Which parks were visited and recorded.                                  *)
Visited ==
  /\ phase \in Parks =>
       /\ align_step = 0 => phase = "ALIGN_FIRST"
       /\ align_step > 0 => phase = ParkAt[align_step]
       /\ parks = {ParkAt[i] : i \in 1..align_step - 1}
  /\ phase = "ALIGN_DECAY" =>
       align_step <= 4 /\ parks = {ParkAt[i] : i \in 1..align_step}
  /\ phase \in (Running \cup {"DONE"}) \ Aligning =>
       parks = Parks \ {"ALIGN_FIRST"}

(* Samples taken so far.                                                   *)
Taken(n, skipped) == IF n <= skipped THEN 0 ELSE n - skipped

Counts ==
  /\ phase \in Aligning => point = 0 /\ avg_n = 0
  /\ phase \in {"L_BIAS", "INDUCTANCE", "OFFSET_ROT", "DONE"} => point = RPoints
  /\ phase \in Servoed => l_n = 0 /\ increments = 0
  /\ phase = "INDUCTANCE" => increments = Taken(l_n, LDiscard + 2)
  /\ phase \in {"OFFSET_ROT", "DONE"} => increments = LTotal - LDiscard
  /\ phase \in Servoed \cup {"INDUCTANCE"} =>
       rot_n = 0 /\ ~rot_backward /\ rot_f = 0 /\ rot_b = 0
  /\ phase = "OFFSET_ROT" =>
       /\ rot_n < RotDirectionN
       /\ rot_f = IF rot_backward THEN RotDirectionN - RotSettleN
                  ELSE Taken(rot_n, RotSettleN)
       /\ rot_b = IF rot_backward THEN Taken(rot_n, RotSettleN) ELSE 0
  /\ phase = "DONE" =>
       /\ rot_f = RotDirectionN - RotSettleN
       /\ rot_b = RotDirectionN - RotSettleN

(* The most periods the run can have taken when it is where it is.         *)
InTarget == IF reached THEN ServoTimeoutN - 1 + hold_n ELSE target_n

RMax == RPoints * PointMax

Budget ==
  /\ phase \in Parks => run_n <= align_step * SwitchMax + InTarget
  /\ phase = "ALIGN_DECAY" => run_n <= align_step * SwitchMax + ParkMax + target_n
  /\ phase = "RESISTANCE" =>
       run_n <= AlignMax + point * PointMax + InTarget + avg_n
  /\ phase = "L_BIAS" => run_n <= AlignMax + RMax + InTarget
  /\ phase = "INDUCTANCE" => run_n <= AlignMax + RMax + BiasMax + l_n
  /\ phase = "OFFSET_ROT" =>
       run_n <= AlignMax + RMax + BiasMax + (LTotal + 2) + rot_n
                  + (IF rot_backward THEN RotDirectionN ELSE 0)

Unexcited == phase = "ALIGN_DECAY" => v_d = "zero"

IdentInv ==
  SequencerTypeOK /\ Timers /\ Visited /\ Counts /\ Budget /\ Unexcited /\ NeverRunTimeout
-----------------------------------------------------------------------------
(* Arithmetic of the budget.                                               *)
LEMMA NextPoint ==
  ASSUME NEW p \in Nat, p < RPoints
  PROVE /\ (p + 1) * PointMax = p * PointMax + PointMax
        /\ p + 1 = RPoints => (p + 1) * PointMax = RMax
        /\ (p + 1) * PointMax <= RMax
        /\ p * PointMax \in Nat /\ RMax \in Nat /\ PointMax \in Nat
<1>1. PointMax \in Nat
  BY IdentAssumption DEF PointMax
<1>2. \A c \in Nat : (p + 1) * c = p * c + c /\ p * c \in Nat
  OBVIOUS
<1>3. \A q, c \in Nat : q * c \in Nat /\ (p + 1 + q) * c = (p + 1) * c + q * c
  OBVIOUS
<1>4. PICK q \in Nat : RPoints = p + 1 + q
  <2>1. RPoints - (p + 1) \in Nat /\ RPoints = p + 1 + (RPoints - (p + 1))
    BY IdentAssumption
  <2> QED
    BY <2>1
<1>5. RMax = (p + 1) * PointMax + q * PointMax /\ q * PointMax \in Nat
  BY <1>1, <1>3, <1>4 DEF RMax
<1>6. (p + 1) * PointMax = p * PointMax + PointMax /\ p * PointMax \in Nat
  BY <1>1, <1>2
<1>7. p + 1 = RPoints => (p + 1) * PointMax = RMax
  BY DEF RMax
<1> QED
  BY <1>1, <1>5, <1>6, <1>7

LEMMA NextSwitch ==
  ASSUME NEW a \in 0..5
  PROVE /\ a = 0 => a * SwitchMax = 0
        /\ (a + 1) * SwitchMax = a * SwitchMax + ParkMax + ServoTimeoutN
        /\ a = 5 => a * SwitchMax + ParkMax = AlignMax
        /\ a * SwitchMax \in Int /\ ParkMax \in Int /\ AlignMax \in Int
<1>1. SwitchMax \in Int /\ ParkMax \in Int
  BY IdentAssumption DEF SwitchMax, ParkMax
<1>2. \A c \in Int : (a + 1) * c = a * c + c /\ a * c \in Int
  OBVIOUS
<1> QED
  BY <1>1, <1>2, IdentAssumption DEF SwitchMax, AlignMax

LEMMA Longest == LongestRun = AlignMax + RMax + BiasMax + (LTotal + 2) + 2 * RotDirectionN
  BY DEF LongestRun, RMax

(* What servo() leaves in the timers.                                      *)
LEMMA ServoTimers ==
  ASSUME NEW in, Servo(in), SequencerTypeOK
  PROVE /\ Arrived(in) => reached' = TRUE
        /\ ~Arrived(in) => reached' = FALSE /\ reached = FALSE
  BY Zenon DEF Servo, Arrived, SequencerTypeOK

(* The budget leaves a period in every running phase.                      *)
LEMMA BelowLongest ==
  ASSUME SequencerTypeOK, Timers, Visited, Counts, Budget, phase \in Running
  PROVE run_n < LongestRun
<1> USE IdentAssumption DEF InTarget
<1>1. LongestRun = AlignMax + RMax + BiasMax + (LTotal + 2) + 2 * RotDirectionN
  BY Longest
<1>2. /\ RPoints * PointMax = RMax /\ RMax \in Nat
  <2>1. PointMax \in Nat
    BY DEF PointMax
  <2>2. \A c \in Nat : RPoints * c \in Nat
    OBVIOUS
  <2> QED
    BY <2>1, <2>2 DEF RMax
<1>3. AlignMax \in Nat /\ BiasMax \in Nat /\ ParkMax \in Nat
  BY DEF AlignMax, BiasMax, ParkMax
<1>4. align_step \in 0..5 /\ align_step * SwitchMax + ParkMax <= AlignMax
  <2>1. align_step \in 0..5
    BY DEF SequencerTypeOK
  <2> QED
    BY <2>1 DEF SwitchMax, AlignMax, ParkMax
<1>5. align_step <= 4 => align_step * SwitchMax + ParkMax + ServoTimeoutN <= AlignMax
  <2>1. align_step \in 0..5
    BY DEF SequencerTypeOK
  <2> QED
    BY <2>1 DEF SwitchMax, AlignMax, ParkMax
<1>6. CASE phase \in Parks
  <2>1. run_n <= align_step * SwitchMax + InTarget
    BY <1>6 DEF Budget
  <2>2. InTarget \in Int /\ InTarget <= ParkMax
    BY <1>6 DEF SequencerTypeOK, Timers, Aligning, Servoed, ParkMax
  <2>3. align_step * SwitchMax \in Int /\ run_n \in Int
    BY <1>4, NextSwitch DEF SequencerTypeOK
  <2> QED
    BY <1>1, <1>2, <1>3, <1>4, <2>1, <2>2, <2>3
<1>7. CASE phase = "ALIGN_DECAY"
  <2>1. run_n <= align_step * SwitchMax + ParkMax + target_n
    BY <1>7 DEF Budget
  <2>2. target_n < ServoTimeoutN /\ align_step <= 4
    BY <1>7 DEF SequencerTypeOK, Timers, Visited, Aligning, Servoed
  <2>3. align_step * SwitchMax \in Int /\ run_n \in Int /\ target_n \in Int
    BY <1>4, NextSwitch DEF SequencerTypeOK
  <2> QED
    BY <1>1, <1>2, <1>3, <1>5, <2>1, <2>2, <2>3
<1>8. CASE phase = "RESISTANCE"
  <2>1. point \in Nat /\ point < RPoints
    BY <1>8 DEF SequencerTypeOK, Timers
  <2>2. point * PointMax + PointMax <= RMax /\ point * PointMax \in Nat
    BY <2>1, NextPoint
  <2> QED
    BY <1>1, <1>2, <1>3, <1>8, <2>1, <2>2 DEF SequencerTypeOK, Timers, Budget, Servoed, PointMax
<1>9. CASE phase = "L_BIAS"
  BY <1>1, <1>2, <1>3, <1>9 DEF SequencerTypeOK, Timers, Budget, Servoed, BiasMax
<1>10. CASE phase = "INDUCTANCE"
  <2>1. run_n <= AlignMax + RMax + BiasMax + l_n
    BY <1>10 DEF Budget
  <2>2. l_n \in 0..LTotal + 1 /\ run_n \in Int
    BY DEF SequencerTypeOK
  <2> QED
    BY <1>1, <1>2, <1>3, <2>1, <2>2
<1>11. CASE phase = "OFFSET_ROT"
  <2>1. run_n <= AlignMax + RMax + BiasMax + (LTotal + 2) + rot_n
                    + (IF rot_backward THEN RotDirectionN ELSE 0)
    BY <1>11 DEF Budget
  <2>2. rot_n < RotDirectionN /\ rot_n \in Int /\ run_n \in Int
    BY <1>11 DEF SequencerTypeOK, Counts
  <2> QED
    BY <1>1, <1>2, <1>3, <2>1, <2>2
<1> QED
  BY <1>6, <1>7, <1>8, <1>9, <1>10, <1>11 DEF Running, Aligning

-----------------------------------------------------------------------------
(* Steps                                                                   *)

LEMMA InitIdent == Init => IdentInv
<1> SUFFICES ASSUME Init PROVE IdentInv
  OBVIOUS
<1> USE IdentAssumption DEF Init
<1>1. phase \notin Running /\ phase # "DONE" /\ phase \in Phases
  BY DEF Running, Aligning, Parks, Phases
<1>2. SequencerTypeOK
  <2>1. fail \in Reasons /\ parks \subseteq Parks /\ theta \in {0, 120, 240, 360}
        /\ v_d \in {"zero", "drive"}
    BY DEF Reasons
  <2>2. run_n \in 0..RunTimeoutN + 1 /\ overcurrent_n \in 0..OvercurrentN
    OBVIOUS
  <2>3. /\ target_n \in 0..ServoTimeoutN /\ reached_n \in 0..ServoTimeoutN
        /\ hold_n \in Nat
        /\ align_step \in 0..5 /\ point \in 0..RPoints /\ avg_n \in 0..RAvgN
    OBVIOUS
  <2>4. /\ l_n \in 0..LTotal + 1 /\ increments \in 0..LTotal
    OBVIOUS
  <2>5. /\ rot_n \in 0..RotDirectionN
        /\ rot_f \in 0..RotDirectionN /\ rot_b \in 0..RotDirectionN
    OBVIOUS
  <2>6. reached \in BOOLEAN /\ rot_backward \in BOOLEAN
    BY Zenon
  <2> QED
    BY <1>1, <2>1, <2>2, <2>3, <2>4, <2>5, <2>6 DEF SequencerTypeOK
<1> QED
  BY <1>1, <1>2 DEF IdentInv, Timers, Visited, Counts, Budget, Unexcited,
     NeverRunTimeout, Running, Aligning, Parks, Servoed

(* A failed run keeps the invariant, whatever the sequencer leaves behind. *)
LEMMA FailedKeeps ==
  ASSUME SequencerTypeOK', phase' = "FAILED", fail' # "RUN_TIMEOUT", (reached_n <= target_n)'
  PROVE IdentInv'
<1> QED
  BY DEF IdentInv, Timers, Visited, Counts, Budget, Unexcited, NeverRunTimeout,
     Running, Aligning, Parks, Servoed

LEMMA StartIdent ==
  ASSUME IdentInv, Start
  PROVE IdentInv'
<1> USE IdentAssumption DEF Start
<1>1. SequencerTypeOK'
  <2>1. /\ phase' \in Phases /\ fail' \in Reasons /\ parks' \subseteq Parks
        /\ theta' \in {0, 120, 240, 360} /\ v_d' \in {"zero", "drive"}
    BY DEF IdentInv, SequencerTypeOK, Reasons, Phases, Running, Aligning, Parks
  <2>2. run_n' \in 0..RunTimeoutN + 1 /\ overcurrent_n' \in 0..OvercurrentN
    OBVIOUS
  <2>3. /\ target_n' \in 0..ServoTimeoutN /\ reached_n' \in 0..ServoTimeoutN
        /\ hold_n' \in Nat
        /\ align_step' \in 0..5 /\ point' \in 0..RPoints /\ avg_n' \in 0..RAvgN
    OBVIOUS
  <2>4. /\ l_n' \in 0..LTotal + 1 /\ increments' \in 0..LTotal
    OBVIOUS
  <2>5. /\ rot_n' \in 0..RotDirectionN
        /\ rot_f' \in 0..RotDirectionN /\ rot_b' \in 0..RotDirectionN
    OBVIOUS
  <2>6. reached' \in BOOLEAN /\ rot_backward' \in BOOLEAN
    BY Zenon
  <2> QED
    BY <2>1, <2>2, <2>3, <2>4, <2>5, <2>6 DEF SequencerTypeOK
<1>2. Timers' /\ Counts' /\ Unexcited' /\ NeverRunTimeout'
  BY DEF Timers, Counts, Unexcited, NeverRunTimeout, Aligning, Parks, Servoed, Taken
<1>3. Visited'
  BY DEF Visited, Running, Aligning, Parks
<1>4. Budget'
  <2>1. 0 * SwitchMax = 0
    BY NextSwitch
  <2> QED
    BY <2>1 DEF Budget, InTarget, Parks
<1> QED
  BY <1>1, <1>2, <1>3, <1>4 DEF IdentInv

LEMMA CancelIdent ==
  ASSUME IdentInv, Cancel
  PROVE IdentInv'
<1>1. SequencerTypeOK' /\ phase' = "FAILED" /\ fail' = "CANCELLED"
  BY DEF IdentInv, Cancel, Fail, SequencerTypeOK, Reasons, Phases, target, resist, induct, rotate
<1>2. (reached_n <= target_n)'
  BY DEF IdentInv, Timers, Cancel, target
<1> QED
  BY <1>1, <1>2, FailedKeeps

(* The counters in front of every step.                                    *)
LEMMA Counted ==
  ASSUME IdentInv, NEW in \in Inputs, Count(in)
  PROVE /\ run_n' \in 0..RunTimeoutN + 1
        /\ overcurrent_n' \in 0..OvercurrentN
        /\ phase \in Running => Cause(in) # "RUN_TIMEOUT"
        /\ phase \in Running /\ Cause(in) = "NONE" => run_n' = run_n + 1
        /\ phase \notin Running => run_n' = run_n
<1> USE IdentAssumption, BudgetAssumption
<1>1. run_n \in 0..RunTimeoutN + 1 /\ overcurrent_n \in 0..OvercurrentN
  BY DEF IdentInv, SequencerTypeOK
<1>2. phase \in Running => run_n < LongestRun /\ LongestRun \in Int
  <2>1. LongestRun \in Int
    BY Longest, NextSwitch, NextPoint DEF BiasMax, LongestRun, AlignMax, ParkMax, PointMax
  <2> QED
    BY <2>1, BelowLongest DEF IdentInv
<1>3. overcurrent_n' \in 0..OvercurrentN
  BY <1>1 DEF Count, OverN, Inputs
<1>4. phase \in Running => Cause(in) # "RUN_TIMEOUT" /\ run_n + 1 <= RunTimeoutN
  BY <1>1, <1>2 DEF Cause
<1>5. run_n' \in 0..RunTimeoutN + 1
  BY <1>1, <1>4 DEF Count
<1> QED
  BY <1>1, <1>3, <1>4, <1>5 DEF Count

LEMMA AbortedIdent ==
  ASSUME IdentInv, NEW in \in Inputs, Count(in), Aborted(in)
  PROVE IdentInv'
<1>1. Cause(in) \in Reasons \ {"RUN_TIMEOUT"}
  BY Counted DEF Aborted, Cause, Reasons
<1>2. phase' = "FAILED" /\ fail' = Cause(in)
  BY DEF Aborted, Fail
<1>3. SequencerTypeOK'
  BY <1>1, <1>2, Counted DEF IdentInv, Aborted, Fail, SequencerTypeOK, Phases, target, resist, induct, rotate
<1>4. (reached_n <= target_n)'
  BY DEF IdentInv, Timers, Aborted, target
<1> QED
  BY <1>1, <1>2, <1>3, <1>4, FailedKeeps

LEMMA TerminalIdent ==
  ASSUME IdentInv, NEW in \in Inputs, Count(in), Terminal(in)
  PROVE IdentInv'
<1> USE DEF Terminal, target, resist, induct, rotate
<1>1. SequencerTypeOK'
  BY Counted DEF IdentInv, SequencerTypeOK
<1>2. Timers' /\ Visited' /\ Counts' /\ NeverRunTimeout'
  BY DEF IdentInv, Timers, Visited, Counts, NeverRunTimeout
<1>3. Budget' /\ Unexcited'
  BY DEF Budget, Unexcited, Running, Aligning
<1> QED
  BY <1>1, <1>2, <1>3 DEF IdentInv

(* A servoed phase that goes on, whether the target is reached or not.     *)
LEMMA ServoOnlyIdent ==
  ASSUME IdentInv, NEW in \in Inputs, Count(in), Cause(in) = "NONE",
         phase \in Servoed, ServoOnly(in),
         UNCHANGED <<parks, theta, align_step, resist, induct, rotate>>,
         phase = "ALIGN_DECAY" => v_d' = "zero"
  PROVE IdentInv'
<1> USE IdentAssumption DEF resist, induct, rotate
<1>0. phase \in Running
  BY DEF Servoed, Running
<1>1. ~reached /\ reached' = FALSE
  BY ServoTimers DEF ServoOnly, IdentInv, Arrived
<1>2. /\ target_n' = target_n + 1 /\ target_n < ServoTimeoutN
      /\ reached_n' \in 0..target_n' /\ hold_n' = 0
  BY <1>1 DEF ServoOnly, Servo, InBand, IdentInv, SequencerTypeOK, Timers, Inputs
<1>3. target_n' \in 0..ServoTimeoutN /\ target_n' \in Nat
  BY <1>2 DEF IdentInv, SequencerTypeOK
<1>4. phase' \in {phase, "FAILED"} /\ fail' \in {fail, "SERVO_TIMEOUT"}
      /\ v_d' \in {"zero", "drive"}
  BY DEF ServoOnly, Fail, Stay
<1>5. SequencerTypeOK'
  <2>1. reached_n' \in 0..ServoTimeoutN /\ hold_n' \in Nat
    BY <1>2, <1>3
  <2>2. phase' \in Phases /\ fail' \in Reasons
    BY <1>4 DEF IdentInv, SequencerTypeOK, Phases, Reasons
  <2>3. reached' \in BOOLEAN
    BY <1>1, Zenon
  <2> QED
    BY <1>3, <1>4, <2>1, <2>2, <2>3, Counted DEF IdentInv, SequencerTypeOK
<1>6. CASE TimedOut(in)
  <2>1. phase' = "FAILED" /\ fail' = "SERVO_TIMEOUT"
    BY <1>6 DEF ServoOnly, Fail
  <2> QED
    BY <1>2, <1>3, <1>5, <2>1, FailedKeeps
<1>7. CASE ~TimedOut(in)
  <2>1. phase' = phase /\ fail' = fail
    BY <1>7 DEF ServoOnly, Stay
  <2>2. target_n' < ServoTimeoutN
    BY <1>2, <1>7 DEF TimedOut, ServoOnly, IdentInv, SequencerTypeOK
  <2>3. Timers'
    BY <1>1, <1>2, <2>1, <2>2 DEF IdentInv, Timers, Parks
  <2>4. Visited' /\ Counts' /\ NeverRunTimeout'
    BY <2>1 DEF IdentInv, Visited, Counts, NeverRunTimeout
  <2>5. Unexcited'
    BY <2>1 DEF Unexcited
  <2>6. Budget'
    <3>1. run_n' = run_n + 1 /\ run_n \in Int /\ target_n \in Int
      BY <1>0, Counted DEF IdentInv, SequencerTypeOK
    <3>2. InTarget' = InTarget + 1 /\ InTarget \in Int
      BY <1>1, <1>2, <3>1 DEF InTarget
    <3>3. /\ align_step * SwitchMax \in Int /\ ParkMax \in Int /\ AlignMax \in Int
      BY NextSwitch DEF IdentInv, SequencerTypeOK
    <3>4. phase = "RESISTANCE" => point * PointMax \in Int
      BY NextPoint DEF IdentInv, SequencerTypeOK, Timers
    <3>5. RMax \in Int /\ avg_n \in Int
      BY NextPoint DEF IdentInv, SequencerTypeOK
    <3>6. CASE phase \in Parks
      <4>1. run_n <= align_step * SwitchMax + InTarget
        BY <3>6 DEF IdentInv, Budget
      <4>2. run_n' <= (align_step * SwitchMax + InTarget)'
        BY <3>1, <3>2, <3>3, <4>1
      <4> QED
        BY <2>1, <3>6, <4>2 DEF Budget, Parks
    <3>7. CASE phase = "ALIGN_DECAY"
      <4>1. run_n' <= align_step' * SwitchMax + ParkMax + target_n'
        BY <1>2, <3>1, <3>3, <3>7 DEF IdentInv, Budget
      <4> QED
        BY <2>1, <3>7, <4>1 DEF Budget, Parks
    <3>8. CASE phase = "RESISTANCE"
      <4>1. run_n' <= AlignMax + point' * PointMax + InTarget' + avg_n'
        BY <3>1, <3>2, <3>3, <3>4, <3>5, <3>8 DEF IdentInv, Budget
      <4> QED
        BY <2>1, <3>8, <4>1 DEF Budget, Parks
    <3>9. CASE phase = "L_BIAS"
      <4>1. run_n' <= AlignMax + RMax + InTarget'
        BY <3>1, <3>2, <3>3, <3>5, <3>9 DEF IdentInv, Budget
      <4> QED
        BY <2>1, <3>9, <4>1 DEF Budget, Parks
    <3> QED
      BY <3>6, <3>7, <3>8, <3>9 DEF Servoed, Aligning
  <2> QED
    BY <1>5, <2>3, <2>4, <2>5, <2>6 DEF IdentInv
<1> QED
  BY <1>6, <1>7

(* A period of holding a reached target.                                   *)
LEMMA HoldIdent ==
  ASSUME IdentInv, NEW in \in Inputs, Count(in), Cause(in) = "NONE", Hold(in),
         UNCHANGED <<parks, theta, align_step, resist, induct, rotate>>,
         \/ phase \in Parks /\ hold_n + 1 < AlignHoldN
         \/ phase = "RESISTANCE" /\ hold_n < RSettleN
         \/ phase = "L_BIAS" /\ hold_n + 1 < RSettleN
  PROVE IdentInv'
<1> USE IdentAssumption DEF resist, induct, rotate
<1>0. phase \in Running /\ phase \in Servoed /\ phase # "ALIGN_DECAY"
  BY DEF Servoed, Running, Aligning, Parks
<1>1. reached' = TRUE
  BY ServoTimers DEF Hold, IdentInv
<1>2. /\ target_n' \in 0..ServoTimeoutN /\ reached_n' \in 0..target_n'
      /\ target_n' \in Nat /\ hold_n' = hold_n + 1 /\ hold_n' \in Nat
  <2>1. target_n' \in 0..ServoTimeoutN /\ hold_n' = hold_n + 1 /\ hold_n' \in Nat
    BY <1>0 DEF Hold, Servo, IdentInv, SequencerTypeOK, Timers
  <2>2. reached_n' \in 0..target_n'
    BY <1>0 DEF Hold, Servo, InBand, IdentInv, SequencerTypeOK, Timers, Inputs
  <2> QED
    BY <2>1, <2>2
<1>3. phase' = phase /\ fail' = fail /\ v_d' \in {"zero", "drive"}
  BY DEF Hold, Stay
<1>4. SequencerTypeOK'
  <2>1. reached_n' \in 0..ServoTimeoutN
    BY <1>2
  <2>2. reached' \in BOOLEAN
    BY <1>1, Zenon
  <2> QED
    BY <1>2, <1>3, <2>1, <2>2, Counted DEF IdentInv, SequencerTypeOK
<1>5. Timers'
  <2>1. ~reached => hold_n = 0 /\ avg_n = 0
    BY <1>0 DEF IdentInv, Timers
  <2>2. hold_n' >= 1 /\ (reached_n <= target_n)'
    BY <1>2 DEF IdentInv, SequencerTypeOK
  <2> QED
    BY <1>0, <1>1, <1>2, <1>3, <2>1, <2>2 DEF IdentInv, SequencerTypeOK, Timers, Parks
<1>6. Visited' /\ Counts' /\ NeverRunTimeout' /\ Unexcited'
  BY <1>0, <1>3 DEF IdentInv, Visited, Counts, NeverRunTimeout, Unexcited
<1>7. Budget'
  <2>1. run_n' = run_n + 1 /\ run_n \in Int /\ InTarget \in Int
    BY <1>0, Counted DEF IdentInv, SequencerTypeOK, InTarget
  <2>2. InTarget' >= InTarget + 1 /\ InTarget' \in Int
    <3>1. InTarget' = ServoTimeoutN - 1 + hold_n + 1
      BY <1>1, <1>2 DEF InTarget, IdentInv, SequencerTypeOK
    <3>2. InTarget <= ServoTimeoutN - 1 + hold_n /\ hold_n \in Int
      BY <1>0 DEF InTarget, IdentInv, SequencerTypeOK, Timers
    <3> QED
      BY <2>1, <3>1, <3>2
  <2>3. /\ align_step * SwitchMax \in Int /\ ParkMax \in Int /\ AlignMax \in Int
    BY NextSwitch DEF IdentInv, SequencerTypeOK
  <2>4. phase = "RESISTANCE" => point * PointMax \in Int
    BY NextPoint DEF IdentInv, SequencerTypeOK, Timers
  <2>5. RMax \in Int /\ avg_n \in Int
    BY NextPoint DEF IdentInv, SequencerTypeOK
  <2>6. CASE phase \in Parks
    <3>1. run_n <= align_step * SwitchMax + InTarget
      BY <2>6 DEF IdentInv, Budget
    <3>2. run_n' <= (align_step * SwitchMax + InTarget)'
      BY <2>1, <2>2, <2>3, <3>1
    <3> QED
      BY <1>3, <2>6, <3>2 DEF Budget, Parks
  <2>7. CASE phase = "RESISTANCE"
    <3>1. run_n <= AlignMax + point * PointMax + InTarget + avg_n
      BY <2>7 DEF IdentInv, Budget
    <3>2. run_n' <= AlignMax + point' * PointMax + InTarget' + avg_n'
      BY <2>1, <2>2, <2>3, <2>4, <2>5, <2>7, <3>1
    <3> QED
      BY <1>3, <2>7, <3>2 DEF Budget, Parks
  <2>8. CASE phase = "L_BIAS"
    <3>1. run_n <= AlignMax + RMax + InTarget
      BY <2>8 DEF IdentInv, Budget
    <3>2. run_n' <= AlignMax + RMax + InTarget'
      <4>1. AlignMax \in Int /\ RMax \in Int
        BY <2>3, <2>5
      <4>2. run_n' = run_n + 1 /\ InTarget' >= InTarget + 1
            /\ run_n \in Int /\ InTarget \in Int /\ InTarget' \in Int
        BY <2>1, <2>2
      <4>3. \A a, r, i, j, n \in Int : n <= a + r + i /\ j >= i + 1 => n + 1 <= a + r + j
        OBVIOUS
      <4> QED
        BY <3>1, <4>1, <4>2, <4>3
    <3> QED
      BY <1>3, <2>8, <3>2 DEF Budget, Parks
  <2> QED
    BY <2>6, <2>7, <2>8
<1> QED
  BY <1>4, <1>5, <1>6, <1>7 DEF IdentInv

(* A new target.                                                           *)
LEMMA TargetTimers ==
  ASSUME NEW p, NextTarget(p), IdentInv
  PROVE /\ target_n' = 0 /\ reached_n' = 0 /\ hold_n' = 0 /\ reached' = FALSE
        /\ target_n' \in 0..ServoTimeoutN /\ reached_n' \in 0..ServoTimeoutN
        /\ hold_n' \in Nat /\ InTarget' = 0
<1>1. target_n' = 0 /\ reached_n' = 0 /\ hold_n' = 0 /\ reached' = FALSE
  BY DEF NextTarget
<1>2. InTarget' = 0
  BY <1>1 DEF InTarget
<1> QED
  BY <1>1, <1>2, IdentAssumption

LEMMA ParkDoneIdent ==
  ASSUME IdentInv, NEW in \in Inputs, Count(in), Cause(in) = "NONE",
         phase \in Parks, ParkDone(in),
         UNCHANGED <<theta, align_step, resist, induct, rotate>>
  PROVE IdentInv'
<1> USE IdentAssumption DEF resist, induct, rotate
<1>0. phase \in Running /\ phase \in Servoed /\ phase \in Aligning
  BY DEF Servoed, Running, Aligning
<1>1. parks' = parks \cup ({phase} \ {"ALIGN_FIRST"}) /\ parks' \subseteq Parks
  BY DEF ParkDone, IdentInv, SequencerTypeOK
<1>2. hold_n + 1 = AlignHoldN /\ hold_n \in Nat
  BY DEF ParkDone, IdentInv, SequencerTypeOK, Timers
<1>3. align_step \in 0..5
  BY DEF IdentInv, SequencerTypeOK
<1>4. CASE phase' = "FAILED"
  <2>1. fail' = "ALIGNMENT" /\ Servo(in) /\ hold_n' = hold_n + 1 /\ v_d' = "zero"
    BY <1>4 DEF ParkDone, Fail, NextTarget
  <2>2. Arrived(in) /\ reached' = TRUE
    BY <2>1, ServoTimers DEF ParkDone, IdentInv
  <2>3. reached_n' \in 0..target_n' /\ target_n' \in 0..ServoTimeoutN
    BY <1>0, <2>1 DEF Servo, InBand, IdentInv, SequencerTypeOK, Timers, Inputs, Aligning
  <2>4. SequencerTypeOK'
    <3>1. reached_n' \in 0..ServoTimeoutN /\ hold_n' \in Nat
      BY <1>2, <2>1, <2>3
    <3>2. reached' \in BOOLEAN
      BY <2>2, Zenon
    <3>3. phase' \in Phases /\ fail' \in Reasons
      BY <1>4, <2>1 DEF Phases, Reasons
    <3> QED
      BY <1>1, <2>1, <2>3, <3>1, <3>2, <3>3, Counted DEF IdentInv, SequencerTypeOK
  <2> QED
    BY <1>4, <2>1, <2>3, <2>4, FailedKeeps
<1>5. CASE phase' # "FAILED"
  <2>1. /\ fail' = fail /\ v_d' \in {"zero", "drive"}
        /\ phase = "ALIGN_BACK_ZERO" => NextTarget("RESISTANCE")
        /\ phase # "ALIGN_BACK_ZERO" => NextTarget("ALIGN_DECAY") /\ v_d' = "zero"
    BY <1>5 DEF ParkDone, Fail
  <2>2. /\ phase = "ALIGN_BACK_ZERO" => phase' = "RESISTANCE"
        /\ phase # "ALIGN_BACK_ZERO" => phase' = "ALIGN_DECAY"
    BY <2>1 DEF NextTarget
  <2>3. /\ target_n' = 0 /\ reached_n' = 0 /\ hold_n' = 0 /\ reached' = FALSE
        /\ target_n' \in 0..ServoTimeoutN /\ reached_n' \in 0..ServoTimeoutN
        /\ hold_n' \in Nat /\ InTarget' = 0
    BY <2>1, TargetTimers
  <2>4. phase' \in Phases /\ reached' \in BOOLEAN
    <3>1. reached' \in BOOLEAN
      BY <2>3, Zenon
    <3> QED
      BY <2>2, <3>1 DEF Phases, Running, Aligning
  <2>5. SequencerTypeOK'
    BY <1>1, <2>1, <2>3, <2>4, Counted DEF IdentInv, SequencerTypeOK
  <2>6. point = 0 /\ avg_n = 0
    BY <1>0 DEF IdentInv, Counts
  <2>7. Timers'
    <3>1. phase' \notin Parks /\ phase' # "L_BIAS"
      BY <2>2 DEF Parks
    <3>2. (reached_n <= target_n)' /\ target_n' < ServoTimeoutN
      BY <2>3
    <3> QED
      BY <2>3, <2>6, <3>1, <3>2 DEF Timers
  <2>8. /\ align_step = 0 => phase = "ALIGN_FIRST"
        /\ align_step > 0 => phase = ParkAt[align_step]
        /\ parks = {ParkAt[i] : i \in 1..align_step - 1}
    BY DEF IdentInv, Visited
  <2>9. phase = "ALIGN_BACK_ZERO" => align_step = 5
    BY <1>3, <2>8 DEF ParkAt
  <2>10. phase # "ALIGN_BACK_ZERO" => align_step <= 4
    BY <1>3, <2>8 DEF ParkAt
  <2>11. parks' = {ParkAt[i] : i \in 1..align_step}
    <3>1. CASE align_step = 0
      BY <1>1, <2>8, <3>1
    <3>2. CASE align_step > 0
      <4>1. phase # "ALIGN_FIRST" /\ parks' = parks \cup {ParkAt[align_step]}
        BY <1>1, <1>3, <2>8, <3>2 DEF ParkAt
      <4>2. 1..align_step = (1..align_step - 1) \cup {align_step}
        BY <1>3, <3>2
      <4> QED
        BY <2>8, <4>1, <4>2
    <3> QED
      BY <1>3, <3>1, <3>2
  <2>12. phase = "ALIGN_BACK_ZERO" => parks' = Parks \ {"ALIGN_FIRST"}
    <3>1. 1..5 = {1, 2, 3, 4, 5}
      OBVIOUS
    <3> QED
      BY <2>9, <2>11, <3>1 DEF Parks, ParkAt
  <2>13. Visited'
    BY <1>5, <2>2, <2>10, <2>11, <2>12 DEF Visited, Parks, Aligning
  <2>14. Counts' /\ NeverRunTimeout' /\ Unexcited'
    BY <1>0, <2>1, <2>2, <2>6 DEF IdentInv, Counts, NeverRunTimeout, Unexcited, Servoed, Aligning, Parks
  <2>15. Budget'
    <3>1. run_n' = run_n + 1 /\ run_n \in Int
      BY <1>0, Counted DEF IdentInv, SequencerTypeOK
    <3>2. run_n <= align_step * SwitchMax + InTarget
      BY DEF IdentInv, Budget
    <3>3. InTarget \in Int /\ InTarget + 1 <= ParkMax /\ ParkMax \in Int
      BY <1>0, <1>2 DEF InTarget, ParkMax, IdentInv, SequencerTypeOK, Timers
    <3>4. align_step * SwitchMax \in Int
      BY <1>3, NextSwitch
    <3>5. run_n' <= align_step * SwitchMax + ParkMax
      BY <3>1, <3>2, <3>3, <3>4
    <3>6. CASE phase = "ALIGN_BACK_ZERO"
      <4>1. align_step * SwitchMax + ParkMax = AlignMax /\ AlignMax \in Int
        BY <1>3, <2>9, <3>6, NextSwitch
      <4>2. point' * PointMax = 0
        BY <2>6 DEF PointMax
      <4>3. run_n' <= AlignMax + point' * PointMax + InTarget' + avg_n'
        BY <2>3, <2>6, <3>5, <4>1, <4>2
      <4> QED
        BY <2>2, <3>6, <4>3 DEF Budget, Parks
    <3>7. CASE phase # "ALIGN_BACK_ZERO"
      <4>1. run_n' <= (align_step * SwitchMax + ParkMax + target_n)'
        BY <2>3, <3>3, <3>4, <3>5
      <4> QED
        BY <2>2, <3>7, <4>1 DEF Budget, Parks
    <3> QED
      BY <3>6, <3>7
  <2> QED
    BY <2>5, <2>7, <2>13, <2>14, <2>15 DEF IdentInv
<1> QED
  BY <1>4, <1>5

(* The angle switch at the end of a decay.                                 *)
LEMMA SwitchIdent ==
  ASSUME IdentInv, NEW in \in Inputs, Count(in), Cause(in) = "NONE",
         phase = "ALIGN_DECAY", v_d' = "zero", Arrived(in),
         align_step' = align_step + 1,
         theta' = AngleAt[align_step + 1],
         NextTarget(ParkAt[align_step + 1]),
         UNCHANGED <<fail, parks, resist, induct, rotate>>
  PROVE IdentInv'
<1> USE IdentAssumption DEF resist, induct, rotate
<1>0. phase \in Running /\ phase \in Servoed /\ phase \in Aligning
  BY DEF Servoed, Running, Aligning
<1>1. align_step \in 0..4 /\ align_step' \in 1..5
  BY DEF IdentInv, SequencerTypeOK, Visited
<1>2. phase' = ParkAt[align_step'] /\ phase' \in Parks /\ phase' # "ALIGN_FIRST"
  <2>1. phase' = ParkAt[align_step']
    BY DEF NextTarget
  <2> QED
    BY <1>1, <2>1 DEF ParkAt, Parks
<1>3. theta' \in {0, 120, 240, 360}
  BY <1>1 DEF AngleAt
<1>4. /\ target_n' = 0 /\ reached_n' = 0 /\ hold_n' = 0 /\ reached' = FALSE
      /\ target_n' \in 0..ServoTimeoutN /\ reached_n' \in 0..ServoTimeoutN
      /\ hold_n' \in Nat /\ InTarget' = 0
  BY TargetTimers
<1>5. SequencerTypeOK'
  <2>1. reached' \in BOOLEAN
    BY <1>4, Zenon
  <2>2. phase' \in Phases
    BY <1>2 DEF Phases, Running, Aligning
  <2> QED
    BY <1>1, <1>3, <1>4, <2>1, <2>2, Counted DEF IdentInv, SequencerTypeOK
<1>6. Timers'
  <2>1. avg_n' = 0 /\ (reached_n <= target_n)' /\ target_n' < ServoTimeoutN
    BY <1>0, <1>4 DEF IdentInv, Counts
  <2>2. phase' \notin {"RESISTANCE", "L_BIAS"}
    BY <1>2 DEF Parks
  <2> QED
    BY <1>4, <2>1, <2>2 DEF Timers
<1>7. Visited'
  <2>1. parks' = {ParkAt[i] : i \in 1..align_step' - 1}
    BY <1>1 DEF IdentInv, Visited
  <2>2. phase' \notin (Running \cup {"DONE"}) \ Aligning /\ phase' # "ALIGN_DECAY"
    BY <1>2 DEF Aligning, Parks
  <2> QED
    BY <1>1, <1>2, <2>1, <2>2 DEF Visited
<1>8. Counts' /\ NeverRunTimeout' /\ Unexcited'
  <2>1. phase' \in Aligning /\ phase' \in Servoed /\ phase' \notin {"ALIGN_DECAY", "L_BIAS", "INDUCTANCE", "OFFSET_ROT", "DONE"}
    BY <1>2 DEF Aligning, Servoed, Parks
  <2> QED
    BY <1>0, <2>1 DEF IdentInv, Counts, NeverRunTimeout, Unexcited
<1>9. Budget'
  <2>1. run_n' = run_n + 1 /\ run_n \in Int
    BY <1>0, Counted DEF IdentInv, SequencerTypeOK
  <2>2. run_n <= align_step * SwitchMax + ParkMax + target_n /\ target_n < ServoTimeoutN
        /\ target_n \in Int
    BY <1>0 DEF IdentInv, SequencerTypeOK, Timers, Budget
  <2>3. /\ align_step' * SwitchMax = align_step * SwitchMax + ParkMax + ServoTimeoutN
        /\ align_step * SwitchMax \in Int /\ ParkMax \in Int
    BY <1>1, NextSwitch
  <2>4. run_n' <= (align_step * SwitchMax + InTarget)'
    BY <1>4, <2>1, <2>2, <2>3
  <2> QED
    BY <1>2, <2>4 DEF Budget, Parks
<1> QED
  BY <1>5, <1>6, <1>7, <1>8, <1>9 DEF IdentInv

LEMMA AlignIdent ==
  ASSUME IdentInv, NEW in \in Inputs, Count(in), Align(in)
  PROVE IdentInv'
<1> USE DEF Align
<1>1. phase \in Parks /\ phase \in Servoed /\ phase # "ALIGN_DECAY"
  BY DEF Servoed, Aligning, Parks
<1> QED
  BY <1>1, ServoOnlyIdent, HoldIdent, ParkDoneIdent

LEMMA DecayIdent ==
  ASSUME IdentInv, NEW in \in Inputs, Count(in), Decay(in)
  PROVE IdentInv'
<1> USE DEF Decay
<1>1. phase \in Servoed
  BY DEF Servoed, Aligning
<1> QED
  BY <1>1, ServoOnlyIdent, SwitchIdent

(* Averaging at a settled operating point, and the end of a point.         *)
(* What is known at a settled operating point.                             *)
Settled ==
  /\ reached = TRUE /\ hold_n = RSettleN
  /\ run_n' = run_n + 1 /\ run_n \in Nat
  /\ point \in Nat /\ point < RPoints /\ avg_n \in Nat /\ avg_n < RAvgN
  /\ AlignMax \in Nat /\ RMax \in Nat /\ point * PointMax \in Nat
  /\ run_n <= AlignMax + point * PointMax + (ServoTimeoutN - 1) + RSettleN + avg_n

LEMMA SettledPoint ==
  ASSUME IdentInv, NEW in \in Inputs, Count(in), Cause(in) = "NONE",
         phase = "RESISTANCE", hold_n >= RSettleN, Arrived(in)
  PROVE Settled
<1> USE IdentAssumption
<1>0. phase \in Running /\ phase \in Servoed
  BY DEF Servoed, Running
<1>1. hold_n = RSettleN
  BY DEF IdentInv, SequencerTypeOK, Timers
<1>2. reached = TRUE
  BY <1>0, <1>1 DEF IdentInv, SequencerTypeOK, Timers
<1>3. run_n' = run_n + 1 /\ run_n \in Nat
  BY <1>0, Counted DEF IdentInv, SequencerTypeOK
<1>4. point \in Nat /\ point < RPoints /\ avg_n \in Nat /\ avg_n < RAvgN
  BY DEF IdentInv, SequencerTypeOK, Timers
<1>5. AlignMax \in Nat /\ RMax \in Nat /\ point * PointMax \in Nat
  BY <1>4, NextPoint DEF AlignMax, ParkMax
<1>6. run_n <= AlignMax + point * PointMax + InTarget + avg_n
  BY DEF IdentInv, Budget
<1>7. InTarget = (ServoTimeoutN - 1) + RSettleN
  BY <1>1, <1>2 DEF InTarget
<1>8. run_n <= AlignMax + point * PointMax + (ServoTimeoutN - 1) + RSettleN + avg_n
  <2>1. \A a, p, t, s, v, n \in Int : n <= a + p + (t + s) + v => n <= a + p + t + s + v
    OBVIOUS
  <2> QED
    BY <1>3, <1>4, <1>5, <1>6, <1>7, <2>1
<1> QED
  BY <1>1, <1>2, <1>3, <1>4, <1>5, <1>8 DEF Settled

LEMMA AverageIdent ==
  ASSUME IdentInv, NEW in \in Inputs, Count(in), Cause(in) = "NONE",
         phase = "RESISTANCE", hold_n >= RSettleN, Arrived(in), Average(in),
         UNCHANGED <<parks, theta, align_step, induct, rotate>>
  PROVE IdentInv'
<1>0. Settled
  BY SettledPoint
<1> USE IdentAssumption DEF induct, rotate, Average
<1>1. /\ phase' = phase /\ fail' = fail /\ v_d' \in {"zero", "drive"}
      /\ avg_n' = avg_n + 1 /\ avg_n' < RAvgN /\ point' = point /\ hold_n' = hold_n
  BY DEF Stay
<1>2. reached' = TRUE /\ target_n' = target_n /\ reached_n' = reached_n
  BY <1>0, ServoTimers DEF Settled, Servo, IdentInv
<1>3. SequencerTypeOK'
  <2>1. reached' \in BOOLEAN
    BY <1>2, Zenon
  <2>2. avg_n' \in 0..RAvgN
    BY <1>1, <1>0 DEF Settled
  <2> QED
    BY <1>1, <1>2, <2>1, <2>2, Counted DEF IdentInv, SequencerTypeOK
<1>4. Timers'
  <2>1. hold_n' >= 1 /\ hold_n' = RSettleN
    BY <1>1, <1>0 DEF Settled
  <2>2. phase' = "RESISTANCE" /\ phase' \notin Parks
    BY <1>1 DEF Parks
  <2> QED
    BY <1>1, <1>2, <2>1, <2>2, <1>0 DEF Settled, IdentInv, Timers
<1>5. Visited' /\ Counts' /\ NeverRunTimeout' /\ Unexcited'
  BY <1>1 DEF IdentInv, Visited, Counts, NeverRunTimeout, Unexcited, Aligning, Parks
<1>6. Budget'
  <2>1. InTarget' = (ServoTimeoutN - 1) + RSettleN
    BY <1>1, <1>2, <1>0 DEF Settled, InTarget
  <2>2. \A a, p, t, s, v, n \in Int : n <= a + p + t + s + v => n + 1 <= a + p + (t + s) + (v + 1)
    OBVIOUS
  <2>3. run_n' <= AlignMax + point' * PointMax + InTarget' + avg_n'
    BY <1>1, <2>1, <2>2, <1>0 DEF Settled
  <2> QED
    BY <1>1, <2>3 DEF Budget, Parks
<1> QED
  BY <1>3, <1>4, <1>5, <1>6 DEF IdentInv

LEMMA PointDoneIdent ==
  ASSUME IdentInv, NEW in \in Inputs, Count(in), Cause(in) = "NONE",
         phase = "RESISTANCE", hold_n >= RSettleN, Arrived(in), PointDone(in),
         UNCHANGED <<parks, theta, align_step, induct, rotate>>
  PROVE IdentInv'
<1>0. Settled
  BY SettledPoint
<1> USE IdentAssumption DEF induct, rotate
<1>1. /\ avg_n + 1 = RAvgN /\ point' = point + 1 /\ avg_n' = 0
      /\ point' \in 0..RPoints /\ avg_n' \in 0..RAvgN
  BY <1>0 DEF Settled, PointDone
<1>2. CASE phase' = "FAILED"
  <2>1. fail' = "RESISTANCE" /\ Servo(in) /\ hold_n' = hold_n /\ v_d' = "zero"
    BY <1>2 DEF PointDone, Fail, NextTarget
  <2>2. reached' = TRUE /\ target_n' = target_n /\ reached_n' = reached_n
    BY <2>1, <1>0, ServoTimers DEF Settled, Servo, IdentInv
  <2>3. SequencerTypeOK'
    <3>1. reached' \in BOOLEAN
      BY <2>2, Zenon
    <3>2. phase' \in Phases /\ fail' \in Reasons
      BY <1>2, <2>1 DEF Phases, Reasons
    <3> QED
      BY <1>1, <2>1, <2>2, <3>1, <3>2, Counted DEF IdentInv, SequencerTypeOK
  <2>4. (reached_n <= target_n)'
    BY <2>2 DEF IdentInv, Timers
  <2> QED
    BY <1>2, <2>1, <2>3, <2>4, FailedKeeps
<1>3. CASE phase' # "FAILED"
  <2>1. /\ fail' = fail /\ v_d' \in {"zero", "drive"}
        /\ \/ point + 1 < RPoints /\ NextTarget("RESISTANCE")
           \/ point + 1 = RPoints /\ NextTarget("L_BIAS")
    BY <1>3, <1>0 DEF Settled, PointDone, Fail
  <2>2. \/ point' < RPoints /\ phase' = "RESISTANCE"
        \/ point' = RPoints /\ phase' = "L_BIAS"
    BY <1>1, <2>1 DEF NextTarget
  <2>3. /\ target_n' = 0 /\ reached_n' = 0 /\ hold_n' = 0 /\ reached' = FALSE
        /\ target_n' \in 0..ServoTimeoutN /\ reached_n' \in 0..ServoTimeoutN
        /\ hold_n' \in Nat /\ InTarget' = 0
    BY <2>1, TargetTimers
  <2>4. SequencerTypeOK'
    <3>1. reached' \in BOOLEAN
      BY <2>3, Zenon
    <3>2. phase' \in Phases
      BY <2>2 DEF Phases, Running
    <3> QED
      BY <1>1, <2>1, <2>3, <3>1, <3>2, Counted DEF IdentInv, SequencerTypeOK
  <2>5. phase' \notin Parks /\ phase' # "ALIGN_DECAY" /\ phase' \notin Aligning
    BY <2>2 DEF Parks, Aligning
  <2>6. Timers'
    <3>1. (reached_n <= target_n)' /\ target_n' < ServoTimeoutN
      BY <2>3
    <3>2. hold_n' <= RSettleN /\ hold_n' < RSettleN /\ avg_n' < RAvgN
      BY <1>1, <2>3
    <3> QED
      BY <1>1, <2>2, <2>3, <2>5, <3>1, <3>2 DEF Timers
  <2>7. Visited'
    <3>1. parks = Parks \ {"ALIGN_FIRST"}
      BY DEF IdentInv, Visited, Running, Aligning, Parks
    <3> QED
      BY <2>5, <3>1 DEF Visited
  <2>8. Counts' /\ NeverRunTimeout' /\ Unexcited'
    BY <2>1, <2>2, <2>5 DEF IdentInv, Counts, NeverRunTimeout, Unexcited, Servoed
  <2>9. Budget'
    <3>1. run_n' <= AlignMax + (point * PointMax + PointMax)
      <4>1. \A a, p, t, s, v, n, w \in Int :
              n <= a + p + t + s + v /\ v + 1 = w => n + 1 <= a + (p + (t + s + w))
        OBVIOUS
      <4>2. PointMax = (ServoTimeoutN - 1) + RSettleN + RAvgN
        BY DEF PointMax
      <4> QED
        BY <1>1, <4>1, <4>2, <1>0 DEF Settled
    <3>2. (point + 1) * PointMax = point * PointMax + PointMax
          /\ (point + 1 = RPoints => (point + 1) * PointMax = RMax)
      BY <1>0, NextPoint DEF Settled
    <3>3. run_n' <= AlignMax + point' * PointMax /\ point' * PointMax \in Int
      BY <1>1, <3>1, <3>2, <1>0 DEF Settled, PointMax
    <3>4. CASE phase' = "RESISTANCE"
      <4>1. run_n' <= AlignMax + point' * PointMax + InTarget' + avg_n'
        BY <1>1, <2>3, <3>3, <1>0 DEF Settled
      <4> QED
        BY <2>5, <3>4, <4>1 DEF Budget
    <3>5. CASE phase' = "L_BIAS"
      <4>1. point' * PointMax = RMax
        BY <1>1, <2>2, <3>2, <3>5
      <4>2. run_n' <= AlignMax + RMax + InTarget'
        BY <2>3, <3>3, <4>1, <1>0 DEF Settled
      <4> QED
        BY <2>5, <3>5, <4>2 DEF Budget
    <3> QED
      BY <2>2, <3>4, <3>5
  <2> QED
    BY <2>4, <2>6, <2>7, <2>8, <2>9 DEF IdentInv
<1> QED
  BY <1>2, <1>3

LEMMA ResistanceIdent ==
  ASSUME IdentInv, NEW in \in Inputs, Count(in), Resistance(in)
  PROVE IdentInv'
<1> USE DEF Resistance
<1>1. phase \in Servoed
  BY DEF Servoed
<1> QED
  BY <1>1, ServoOnlyIdent, HoldIdent, AverageIdent, PointDoneIdent

(* The current for the injection is settled.                               *)
LEMMA BiasDoneIdent ==
  ASSUME IdentInv, NEW in \in Inputs, Count(in), Cause(in) = "NONE",
         phase = "L_BIAS", Arrived(in), hold_n + 1 >= RSettleN,
         NextTarget("INDUCTANCE"), v_d' \in {"zero", "drive"},
         UNCHANGED <<fail, parks, theta, align_step, resist, induct, rotate>>
  PROVE IdentInv'
<1> USE IdentAssumption DEF resist, induct, rotate
<1>0. phase \in Running /\ phase \in Servoed
  BY DEF Servoed, Running
<1>1. phase' = "INDUCTANCE"
  BY DEF NextTarget
<1>2. /\ target_n' = 0 /\ reached_n' = 0 /\ hold_n' = 0 /\ reached' = FALSE
      /\ target_n' \in 0..ServoTimeoutN /\ reached_n' \in 0..ServoTimeoutN
      /\ hold_n' \in Nat
  BY TargetTimers
<1>3. SequencerTypeOK'
  <2>1. reached' \in BOOLEAN
    BY <1>2, Zenon
  <2>2. phase' \in Phases
    BY <1>1 DEF Phases, Running
  <2> QED
    BY <1>2, <2>1, <2>2, Counted DEF IdentInv, SequencerTypeOK
<1>4. /\ phase' \notin Servoed /\ phase' \notin Parks /\ phase' \notin Aligning
      /\ phase' \in Running
  BY <1>1 DEF Servoed, Parks, Aligning, Running
<1>5. Timers' /\ Unexcited' /\ NeverRunTimeout'
  BY <1>1, <1>2, <1>4 DEF IdentInv, Timers, Unexcited, NeverRunTimeout
<1>6. Visited'
  <2>1. parks = Parks \ {"ALIGN_FIRST"}
    BY DEF IdentInv, Visited, Running, Aligning, Parks
  <2> QED
    BY <1>1, <1>4, <2>1 DEF Visited
<1>7. Counts'
  BY <1>0, <1>1, <1>4 DEF IdentInv, Counts, Taken
<1>8. Budget'
  <2>1. run_n' = run_n + 1 /\ run_n \in Int /\ l_n = 0
    BY <1>0, Counted DEF IdentInv, SequencerTypeOK, Counts
  <2>2. run_n <= AlignMax + RMax + InTarget
    BY DEF IdentInv, Budget
  <2>3. InTarget + 1 <= BiasMax /\ InTarget \in Int /\ BiasMax \in Int
    BY <1>0 DEF InTarget, BiasMax, IdentInv, SequencerTypeOK, Timers
  <2>4. AlignMax \in Int /\ RMax \in Int
    BY NextSwitch, NextPoint DEF IdentInv, SequencerTypeOK
  <2>5. \A a, r, i, b, n \in Int : n <= a + r + i /\ i + 1 <= b => n + 1 <= a + r + b + 0
    OBVIOUS
  <2>6. run_n' <= AlignMax + RMax + BiasMax + l_n'
    BY <2>1, <2>2, <2>3, <2>4, <2>5
  <2> QED
    BY <1>1, <1>4, <2>6 DEF Budget
<1> QED
  BY <1>3, <1>5, <1>6, <1>7, <1>8 DEF IdentInv

LEMMA LBiasIdent ==
  ASSUME IdentInv, NEW in \in Inputs, Count(in), LBias(in)
  PROVE IdentInv'
<1> USE DEF LBias
<1>1. phase \in Servoed
  BY DEF Servoed
<1> QED
  BY <1>1, ServoOnlyIdent, HoldIdent, BiasDoneIdent

(* What is known during the injection.                                     *)
Injecting ==
  /\ run_n' = run_n + 1 /\ run_n \in Int /\ l_n \in 0..LTotal + 1
  /\ AlignMax \in Int /\ RMax \in Int /\ BiasMax \in Int
  /\ run_n <= AlignMax + RMax + BiasMax + l_n
  /\ increments = Taken(l_n, LDiscard + 2)
  /\ rot_n = 0 /\ ~rot_backward /\ rot_f = 0 /\ rot_b = 0
  /\ point = RPoints /\ parks = Parks \ {"ALIGN_FIRST"}

LEMMA InjectingNow ==
  ASSUME IdentInv, NEW in \in Inputs, Count(in), Cause(in) = "NONE",
         phase = "INDUCTANCE"
  PROVE Injecting
<1> USE IdentAssumption
<1>1. phase \in Running /\ phase \notin Aligning /\ phase \notin Parks
  BY DEF Running, Aligning, Parks
<1>2. run_n' = run_n + 1 /\ run_n \in Int /\ l_n \in 0..LTotal + 1
  BY <1>1, Counted DEF IdentInv, SequencerTypeOK
<1>3. AlignMax \in Int /\ RMax \in Int /\ BiasMax \in Int
  BY NextSwitch, NextPoint DEF IdentInv, SequencerTypeOK, BiasMax
<1>4. run_n <= AlignMax + RMax + BiasMax + l_n
  BY DEF IdentInv, Budget
<1>5. /\ increments = Taken(l_n, LDiscard + 2)
      /\ rot_n = 0 /\ ~rot_backward /\ rot_f = 0 /\ rot_b = 0 /\ point = RPoints
  BY DEF IdentInv, Counts
<1>6. parks = Parks \ {"ALIGN_FIRST"}
  BY <1>1 DEF IdentInv, Visited
<1> QED
  BY <1>2, <1>3, <1>4, <1>5, <1>6 DEF Injecting

LEMMA InductanceIdent ==
  ASSUME IdentInv, NEW in \in Inputs, Count(in), Inductance(in)
  PROVE IdentInv'
<1> USE IdentAssumption DEF target, resist, rotate, Inductance
<1>0. Injecting
  BY InjectingNow
<1>1. phase = "INDUCTANCE" /\ phase \in Running
  BY DEF Running
<1>2. /\ l_n < LTotal + 1 => increments' = Taken(l_n + 1, LDiscard + 2)
      /\ l_n = LTotal + 1 => increments' = LTotal - LDiscard
      /\ increments' \in 0..LTotal
  BY <1>0 DEF Injecting, Taken, Answers
<1>3. l_n' \in 0..LTotal + 1
  BY <1>0 DEF Injecting
<1>4. phase' \in {"INDUCTANCE", "OFFSET_ROT", "FAILED"}
      /\ fail' \in {fail, "INDUCTANCE", "RIPPLE"} /\ theta' \in {theta, 0}
      /\ v_d' \in {"zero", "drive"}
  BY <1>1 DEF Stay, Fail
<1>5. SequencerTypeOK'
  <2>1. phase' \in Phases /\ fail' \in Reasons /\ theta' \in {0, 120, 240, 360}
    BY <1>4 DEF IdentInv, SequencerTypeOK, Phases, Running, Reasons
  <2> QED
    BY <1>2, <1>3, <1>4, <2>1, Counted DEF IdentInv, SequencerTypeOK
<1>6. (reached_n <= target_n)' /\ NeverRunTimeout'
  BY <1>4 DEF IdentInv, Timers, NeverRunTimeout
<1>7. CASE phase' = "FAILED"
  BY <1>5, <1>6, <1>7, FailedKeeps DEF NeverRunTimeout
<1>8. CASE phase' = "INDUCTANCE"
  <2>1. l_n < LTotal + 1 /\ l_n' = l_n + 1
    BY <1>8 DEF Fail
  <2>2. phase' \notin Servoed /\ phase' \notin Parks /\ phase' \notin Aligning
    BY <1>8 DEF Servoed, Parks, Aligning
  <2>3. Timers' /\ Visited' /\ Unexcited'
    BY <1>0, <1>6, <1>8, <2>2 DEF Injecting, Timers, Visited, Unexcited
  <2>4. Counts'
    BY <1>0, <1>2, <1>8, <2>1, <2>2 DEF Injecting, Counts
  <2>5. Budget'
    <3>1. \A a, r, b, l, n \in Int : n <= a + r + b + l => n + 1 <= a + r + b + (l + 1)
      OBVIOUS
    <3>2. run_n' <= AlignMax + RMax + BiasMax + l_n'
      BY <1>0, <2>1, <3>1 DEF Injecting
    <3> QED
      BY <1>8, <2>2, <3>2 DEF Budget
  <2> QED
    BY <1>5, <1>6, <2>3, <2>4, <2>5 DEF IdentInv
<1>9. CASE phase' = "OFFSET_ROT"
  <2>1. l_n = LTotal + 1 /\ l_n' = l_n
    BY <1>0, <1>9 DEF Injecting, Stay
  <2>2. phase' \notin Servoed /\ phase' \notin Parks /\ phase' \notin Aligning
    BY <1>9 DEF Servoed, Parks, Aligning
  <2>3. Timers' /\ Visited' /\ Unexcited'
    BY <1>0, <1>6, <1>9, <2>2 DEF Injecting, Timers, Visited, Unexcited
  <2>4. Counts'
    BY <1>0, <1>2, <1>9, <2>1, <2>2 DEF Injecting, Counts, Taken
  <2>5. Budget'
    <3>1. \A a, r, b, l, n \in Int :
            n <= a + r + b + (l + 1) => n + 1 <= a + r + b + (l + 2) + 0 + 0
      OBVIOUS
    <3>2. run_n' <= AlignMax + RMax + BiasMax + (LTotal + 2) + rot_n' + 0
      BY <1>0, <2>1, <3>1 DEF Injecting
    <3> QED
      BY <1>0, <1>9, <2>2, <3>2 DEF Budget, Injecting
  <2> QED
    BY <1>5, <1>6, <2>3, <2>4, <2>5 DEF IdentInv
<1> QED
  BY <1>4, <1>7, <1>8, <1>9

(* What is known during the rotation.                                      *)
Turning ==
  /\ run_n' = run_n + 1 /\ run_n \in Int
  /\ AlignMax \in Int /\ RMax \in Int /\ BiasMax \in Int
  /\ run_n <= AlignMax + RMax + BiasMax + (LTotal + 2) + rot_n
                + (IF rot_backward THEN RotDirectionN ELSE 0)
  /\ rot_n \in Nat /\ rot_n < RotDirectionN /\ rot_backward \in BOOLEAN
  /\ rot_f = IF rot_backward THEN RotDirectionN - RotSettleN
             ELSE Taken(rot_n, RotSettleN)
  /\ rot_b = IF rot_backward THEN Taken(rot_n, RotSettleN) ELSE 0
  /\ increments = LTotal - LDiscard
  /\ point = RPoints /\ parks = Parks \ {"ALIGN_FIRST"}

LEMMA TurningNow ==
  ASSUME IdentInv, NEW in \in Inputs, Count(in), Cause(in) = "NONE",
         phase = "OFFSET_ROT"
  PROVE Turning
<1> USE IdentAssumption
<1>1. phase \in Running /\ phase \notin Aligning /\ phase \notin Parks
  BY DEF Running, Aligning, Parks
<1>2. run_n' = run_n + 1 /\ run_n \in Int
  BY <1>1, Counted DEF IdentInv, SequencerTypeOK
<1>3. AlignMax \in Int /\ RMax \in Int /\ BiasMax \in Int
  BY NextSwitch, NextPoint DEF IdentInv, SequencerTypeOK, BiasMax
<1>4. run_n <= AlignMax + RMax + BiasMax + (LTotal + 2) + rot_n
                 + (IF rot_backward THEN RotDirectionN ELSE 0)
  BY DEF IdentInv, Budget
<1>5. /\ rot_n \in Nat /\ rot_n < RotDirectionN
      /\ rot_f = IF rot_backward THEN RotDirectionN - RotSettleN
                 ELSE Taken(rot_n, RotSettleN)
      /\ rot_b = IF rot_backward THEN Taken(rot_n, RotSettleN) ELSE 0
      /\ increments = LTotal - LDiscard /\ point = RPoints
  BY DEF IdentInv, SequencerTypeOK, Counts
<1>6. parks = Parks \ {"ALIGN_FIRST"} /\ rot_backward \in BOOLEAN
  BY <1>1 DEF IdentInv, Visited, SequencerTypeOK
<1> QED
  BY <1>2, <1>3, <1>4, <1>5, <1>6 DEF Turning

LEMMA RotationIdent ==
  ASSUME IdentInv, NEW in \in Inputs, Count(in), Rotation(in)
  PROVE IdentInv'
<1> USE IdentAssumption DEF target, resist, induct
<1>0. Turning /\ phase = "OFFSET_ROT"
  BY TurningNow DEF Rotation
<1>1. /\ target_n' = target_n /\ reached_n' = reached_n /\ hold_n' = hold_n
      /\ reached' = reached /\ point' = point /\ avg_n' = avg_n /\ l_n' = l_n
      /\ increments' = increments /\ parks' = parks /\ align_step' = align_step
  BY DEF Rotation
<1>2. /\ phase' \in {"OFFSET_ROT", "DONE", "FAILED"}
      /\ fail' \in {fail, "ALIGNMENT"} /\ theta' \in {theta, 360}
      /\ v_d' \in {"zero", "drive"}
  BY DEF Rotation, RotationGoesOn, RotationEnds, Stay, Fail
<1>3. rot_n' \in 0..RotDirectionN /\ rot_f' \in 0..RotDirectionN
      /\ rot_b' \in 0..RotDirectionN
  BY <1>0 DEF Rotation, RotationGoesOn, RotationEnds, Turning, Taken, Sampled, rotate
<1>4. rot_backward' \in BOOLEAN
  BY <1>0, Zenon DEF Rotation, RotationGoesOn, RotationEnds, Turning, rotate
<1>5. SequencerTypeOK'
  <2>1. phase' \in Phases /\ fail' \in Reasons /\ theta' \in {0, 120, 240, 360}
    BY <1>2 DEF IdentInv, SequencerTypeOK, Phases, Running, Reasons
  <2> QED
    BY <1>1, <1>2, <1>3, <1>4, <2>1, Counted DEF IdentInv, SequencerTypeOK
<1>6. (reached_n <= target_n)' /\ NeverRunTimeout'
  BY <1>1, <1>2 DEF IdentInv, Timers, NeverRunTimeout
<1>7. CASE phase' = "FAILED"
  BY <1>5, <1>6, <1>7, FailedKeeps DEF NeverRunTimeout
<1>8. CASE phase' # "FAILED"
  <2>1. /\ rot_f' = IF Sampled /\ ~rot_backward THEN rot_f + 1 ELSE rot_f
        /\ rot_b' = IF Sampled /\ rot_backward THEN rot_b + 1 ELSE rot_b
        /\ RotationGoesOn \/ RotationEnds(in)
    BY <1>8 DEF Rotation, Fail
  <2>2. phase' \notin Servoed /\ phase' \notin Parks /\ phase' \notin Aligning
    BY <1>2, <1>8 DEF Servoed, Parks, Aligning
  <2>3. Timers' /\ Visited' /\ Unexcited'
    BY <1>0, <1>1, <1>2, <1>6, <1>8, <2>2 DEF Turning, Timers, Visited, Unexcited
  <2>4. Counts' /\ Budget'
    <3>1. CASE RotationGoesOn
      <4>1. /\ phase' = "OFFSET_ROT" /\ rot_n' = rot_n + 1 /\ rot_n' < RotDirectionN
            /\ rot_backward' = rot_backward
        BY <1>0, <3>1 DEF RotationGoesOn, Stay
      <4>2. /\ rot_f' = IF rot_backward' THEN RotDirectionN - RotSettleN
                        ELSE Taken(rot_n', RotSettleN)
            /\ rot_b' = IF rot_backward' THEN Taken(rot_n', RotSettleN) ELSE 0
        BY <1>0, <2>1, <4>1 DEF Turning, Taken, Sampled
      <4>3. \A a, r, b, t, l, d, n \in Int :
              n <= a + r + b + t + l + d => n + 1 <= a + r + b + t + (l + 1) + d
        OBVIOUS
      <4>4. run_n' <= AlignMax + RMax + BiasMax + (LTotal + 2) + rot_n'
                        + (IF rot_backward' THEN RotDirectionN ELSE 0)
        BY <1>0, <4>1, <4>3 DEF Turning
      <4>5. Budget'
        BY <2>2, <4>1, <4>4 DEF Budget
      <4>6. Counts'
        BY <1>0, <1>1, <2>2, <4>1, <4>2 DEF Turning, Counts
      <4> QED
        BY <4>5, <4>6
    <3>2. CASE RotationEnds(in) /\ ~rot_backward
      <4>1. /\ phase' = "OFFSET_ROT" /\ rot_n' = 0 /\ rot_n + 1 = RotDirectionN
            /\ rot_backward'
        BY <1>0, <3>2 DEF RotationEnds, Stay
      <4>2. rot_f' = RotDirectionN - RotSettleN /\ rot_b' = 0
        BY <1>0, <2>1, <3>2, <4>1 DEF Turning, Taken, Sampled
      <4>3. \A a, r, b, t, l, d, n \in Int :
              n <= a + r + b + t + l + 0 /\ l + 1 = d => n + 1 <= a + r + b + t + 0 + d
        OBVIOUS
      <4>4. run_n' <= AlignMax + RMax + BiasMax + (LTotal + 2) + 0 + RotDirectionN
        BY <1>0, <3>2, <4>1, <4>3 DEF Turning
      <4>5. Budget'
        BY <2>2, <4>1, <4>4 DEF Budget
      <4>6. Taken(0, RotSettleN) = 0
        BY DEF Taken
      <4>7. Counts'
        BY <1>0, <1>1, <2>2, <4>1, <4>2, <4>6 DEF Turning, Counts
      <4> QED
        BY <4>5, <4>7
    <3>3. CASE RotationEnds(in) /\ rot_backward
      <4>1. phase' = "DONE" /\ rot_n + 1 = RotDirectionN
        BY <1>8, <3>3 DEF RotationEnds, Fail
      <4>2. rot_f' = RotDirectionN - RotSettleN /\ rot_b' = RotDirectionN - RotSettleN
        BY <1>0, <2>1, <3>3, <4>1 DEF Turning, Taken, Sampled
      <4>3. Counts'
        BY <1>0, <1>1, <2>2, <4>1, <4>2 DEF Turning, Counts
      <4>4. Budget'
        BY <2>2, <4>1 DEF Budget
      <4> QED
        BY <4>3, <4>4
    <3> QED
      BY <2>1, <3>1, <3>2, <3>3
  <2> QED
    BY <1>5, <1>6, <2>3, <2>4 DEF IdentInv
<1> QED
  BY <1>7, <1>8

LEMMA NextIdent ==
  ASSUME IdentInv, [Next]_vars
  PROVE IdentInv'
<1>1. CASE Start
  BY <1>1, StartIdent
<1>2. CASE Cancel
  BY <1>2, CancelIdent
<1>3. ASSUME NEW in \in Inputs, Step(in) PROVE IdentInv'
  BY <1>3, AbortedIdent, TerminalIdent, AlignIdent, DecayIdent, ResistanceIdent,
     LBiasIdent, InductanceIdent, RotationIdent DEF Step
<1>4. CASE UNCHANGED vars
  BY <1>4 DEF vars, target, resist, induct, rotate, IdentInv, SequencerTypeOK, Timers, Visited,
     Counts, Budget, InTarget, Unexcited, NeverRunTimeout
<1> QED
  BY <1>1, <1>2, <1>3, <1>4 DEF Next
-----------------------------------------------------------------------------
(* The inductive invariant of the sequencer.                               *)
THEOREM IdentInvariant == Spec => []IdentInv
<1> QED
  BY InitIdent, NextIdent, PTL DEF Spec

(* The ghost is the servo's own counter for as long as the current decays. *)
Dwelled ==
  /\ quiet_n \in Nat
  /\ phase = "ALIGN_DECAY" => quiet_n = reached_n

LEMMA DwellKept ==
  ASSUME IdentInv, Dwelled, [Next]_vars
  PROVE Dwelled'
<1>1. CASE Start
  BY <1>1 DEF Start, Dwelled
<1>2. CASE Cancel
  BY <1>2 DEF Cancel, Fail, Dwelled
<1>3. ASSUME NEW in \in Inputs, Step(in) PROVE Dwelled'
  <2>1. quiet_n' = (IF Quiet(in) THEN quiet_n + 1 ELSE 0) /\ quiet_n' \in Nat
    BY <1>3 DEF Step, Dwelled
  <2>2. CASE phase' # "ALIGN_DECAY"
    BY <2>1, <2>2 DEF Dwelled
  <2>3. CASE phase' = "ALIGN_DECAY" /\ phase = "ALIGN_DECAY"
    <3>1. Decay(in)
      BY <1>3, <2>3 DEF Step, Aborted, Fail, Terminal, Running, Aligning, Align,
         Parks, Resistance, LBias, Inductance, Rotation
    <3>2. align_step + 1 \in 1..5
      BY <2>3 DEF IdentInv, SequencerTypeOK, Visited
    <3>3. ServoOnly(in)
      BY <2>3, <3>1, <3>2 DEF Decay, NextTarget, ParkAt
    <3>4. ~reached /\ reached_n' = InBand(in)
      BY <3>3, Zenon DEF ServoOnly, Servo, Arrived
    <3>5. Quiet(in) <=> in.in_band
      BY <2>3 DEF Quiet, IdentInv, Unexcited
    <3> QED
      BY <2>1, <2>3, <3>4, <3>5 DEF Dwelled, InBand
  <2>4. CASE phase' = "ALIGN_DECAY" /\ phase # "ALIGN_DECAY"
    <3>1. quiet_n' = 0
      BY <2>1, <2>4 DEF Quiet
    <3>2. Align(in)
      BY <1>3, <2>4 DEF Step, Aborted, Fail, Terminal, Decay, Resistance, ServoOnly,
         Hold, Average, PointDone, LBias, Inductance, Rotation, RotationGoesOn,
         RotationEnds, NextTarget, Stay
    <3>3. reached_n' = 0
      BY <2>4, <3>2 DEF Align, ServoOnly, Hold, ParkDone, Fail, Stay, NextTarget
    <3> QED
      BY <3>1, <3>3 DEF Dwelled
  <2> QED
    BY <2>2, <2>3, <2>4
<1>4. CASE UNCHANGED vars
  BY <1>4 DEF vars, target, Dwelled
<1> QED
  BY <1>1, <1>2, <1>3, <1>4 DEF Next

LEMMA IdentDwells == Spec => []Dwelled
<1>1. Init => Dwelled
  BY DEF Init, Dwelled
<1>2. IdentInv /\ Dwelled /\ [Next]_vars => Dwelled'
  BY DwellKept
<1> QED
  BY <1>1, <1>2, IdentInvariant, PTL DEF Spec

(* Type correctness of the sequencer, for every value of its constants.    *)
THEOREM IdentTypes == Spec => []TypeOK
<1>1. IdentInv /\ Dwelled => TypeOK
  BY DEF IdentInv, Dwelled, TypeOK
<1> QED
  BY IdentInvariant, IdentDwells, <1>1, PTL

(* The run timeout of motor_ident.h:54 leaves room for every run: it never *)
(* fires, whatever the current does.                                       *)
THEOREM IdentNeverRunTimeout == Spec => []NeverRunTimeout
<1>1. IdentInv => NeverRunTimeout
  BY DEF IdentInv
<1> QED
  BY IdentInvariant, <1>1, PTL

(* A completed run took every measurement, and every sum holds the number  *)
(* of samples motor_ident.c divides it by.                                 *)
THEOREM IdentDoneIsComplete == Spec => []DoneIsComplete
<1>1. IdentInv => DoneIsComplete
  BY DEF IdentInv, Visited, Counts, DoneIsComplete, Running, Aligning, Parks
<1> QED
  BY IdentInvariant, <1>1, PTL

(* The commanded angle follows from the place in the run.                  *)
Angle ==
  /\ phase \in Aligning =>
       /\ align_step = 0 => theta = 0
       /\ align_step > 0 => theta = AngleAt[align_step]
  /\ phase \in {"RESISTANCE", "L_BIAS", "INDUCTANCE"} => theta = 0

LEMMA AngleKept ==
  ASSUME IdentInv, Angle, [Next]_vars
  PROVE Angle'
<1> USE DEF Angle
<1>1. CASE Start
  BY <1>1 DEF Start, Aligning, Parks
<1>2. CASE Cancel
  BY <1>2 DEF Cancel, Fail, Aligning, Parks
<1>3. ASSUME NEW in \in Inputs, Step(in) PROVE Angle'
  <2>1. CASE Aborted(in)
    BY <2>1 DEF Aborted, Fail, Aligning, Parks
  <2>2. CASE Terminal(in)
    BY <2>2 DEF Terminal, Running
  <2>3. CASE Align(in)
    <3>1. theta' = theta /\ align_step' = align_step /\ phase \in Parks /\ phase \in Aligning
      BY <2>3 DEF Align, Aligning
    <3>2. CASE phase' = "RESISTANCE"
      <4>1. phase = "ALIGN_BACK_ZERO"
        BY <2>3, <3>2 DEF Align, ParkDone, NextTarget, Fail, ServoOnly, Hold, Stay, Parks
      <4>2. align_step = 5
        BY <4>1 DEF IdentInv, SequencerTypeOK, Visited, Parks, ParkAt
      <4> QED
        BY <3>1, <3>2, <4>2 DEF AngleAt, Aligning, Parks
    <3>3. phase' \in Aligning \cup {"FAILED", "RESISTANCE"}
      BY <2>3, <3>1 DEF Align, ParkDone, NextTarget, Fail, ServoOnly, Hold, Stay, Aligning
    <3> QED
      BY <3>1, <3>2, <3>3 DEF Aligning, Parks
  <2>4. CASE Decay(in)
    <3>1. phase = "ALIGN_DECAY" /\ align_step \in 0..4
      BY <2>4 DEF Decay, IdentInv, SequencerTypeOK, Visited
    <3>2. CASE ServoOnly(in) /\ UNCHANGED <<theta, align_step>>
      BY <3>1, <3>2 DEF ServoOnly, Fail, Stay, Aligning, Parks
    <3>3. CASE align_step' = align_step + 1 /\ theta' = AngleAt[align_step + 1]
               /\ NextTarget(ParkAt[align_step + 1])
      <4>1. phase' \in Parks
        BY <3>1, <3>3 DEF NextTarget, ParkAt, Parks
      <4> QED
        BY <3>1, <3>3, <4>1 DEF Parks
    <3> QED
      BY <2>4, <3>2, <3>3 DEF Decay
  <2>5. CASE Resistance(in)
    BY <2>5 DEF Resistance, ServoOnly, Hold, Average, PointDone, NextTarget, Fail, Stay,
       Aligning, Parks
  <2>6. CASE LBias(in)
    BY <2>6 DEF LBias, ServoOnly, Hold, NextTarget, Fail, Stay, Aligning, Parks
  <2>7. CASE Inductance(in)
    BY <2>7 DEF Inductance, Fail, Stay, Aligning, Parks
  <2>8. CASE Rotation(in)
    BY <2>8 DEF Rotation, RotationGoesOn, RotationEnds, Fail, Stay, Aligning, Parks
  <2> QED
    BY <1>3, <2>1, <2>2, <2>3, <2>4, <2>5, <2>6, <2>7, <2>8 DEF Step
<1>4. CASE UNCHANGED vars
  BY <1>4 DEF vars
<1> QED
  BY <1>1, <1>2, <1>3, <1>4 DEF Next

(* The angle is switched only without voltage, after a full dwell of the   *)
(* current near zero, without a gap, up to the sample that switches it.    *)
THEOREM IdentSwitchesUnexcited == Spec => AngleSwitchesUnexcited
<1> DEFINE Switches ==
      (phase \in Running /\ theta' # theta /\ phase # "OFFSET_ROT")
        => v_d = "zero" /\ v_d' = "zero" /\ quiet_n' >= ReachedN
<1>1. IdentInv /\ Angle /\ Dwelled /\ [Next]_vars => [Switches]_vars
  <2> SUFFICES ASSUME IdentInv, Angle, Dwelled, Next,
                      phase \in Running, theta' # theta, phase # "OFFSET_ROT"
               PROVE v_d = "zero" /\ v_d' = "zero" /\ quiet_n' >= ReachedN
    OBVIOUS
  <2>1. ~Start /\ ~Cancel
    BY DEF Start, Cancel
  <2>2. PICK in \in Inputs : Step(in)
    BY <2>1 DEF Next
  <2>3. CASE Decay(in)
    <3>1. Arrived(in) /\ ~reached
      BY <2>3, Zenon DEF Decay, ServoOnly, IdentInv, Timers, Servoed, Aligning
    <3>2. /\ phase = "ALIGN_DECAY" /\ v_d = "zero" /\ v_d' = "zero"
          /\ quiet_n = reached_n /\ reached_n \in Nat
      BY <2>3 DEF Decay, IdentInv, Unexcited, Dwelled
    <3>3. InBand(in) >= ReachedN
      BY <3>1, Zenon DEF Arrived
    <3>4. in.in_band /\ reached_n + 1 >= ReachedN
      BY <3>2, <3>3, IdentAssumption DEF InBand
    <3>5. quiet_n' = quiet_n + 1
      BY <2>2, <3>2, <3>4 DEF Step, Quiet
    <3> QED
      BY <3>2, <3>4, <3>5
  <2>4. CASE Inductance(in)
    BY <2>4 DEF Inductance, Angle, Fail
  <2>5. ~Aborted(in) /\ ~Terminal(in) /\ ~Align(in) /\ ~Resistance(in) /\ ~LBias(in)
        /\ ~Rotation(in)
    BY DEF Aborted, Terminal, Align, Resistance, LBias, Rotation
  <2> QED
    BY <2>2, <2>3, <2>4, <2>5 DEF Step
<1>2. Init => Angle
  BY DEF Init, Angle
<1>3. IdentInv /\ Angle /\ [Next]_vars => Angle'
  BY AngleKept
<1> QED
  BY IdentInvariant, IdentDwells, <1>1, <1>2, <1>3, PTL DEF Spec, AngleSwitchesUnexcited

(* A verdict stands until the next start.                                  *)
THEOREM IdentTerminalIsLatched == Spec => TerminalIsLatched
<1> DEFINE Latches ==
      (phase \in {"DONE", "FAILED"} /\ phase' # "ALIGN_FIRST")
        => UNCHANGED <<phase, fail>>
<1>1. [Next]_vars => [Latches]_vars
  <2> SUFFICES ASSUME Next, phase \in {"DONE", "FAILED"}, phase' # "ALIGN_FIRST"
               PROVE UNCHANGED <<phase, fail>>
    OBVIOUS
  <2>1. phase \notin Running
    BY DEF Running, Aligning, Parks
  <2>2. ~Start /\ ~Cancel
    BY <2>1 DEF Start, Cancel, CancelRuns
  <2>3. PICK in \in Inputs : Step(in)
    BY <2>2 DEF Next
  <2>4. Terminal(in)
    BY <2>1, <2>3 DEF Step, Aborted, Align, Decay, Resistance, LBias, Inductance, Rotation, Running, Aligning
  <2> QED
    BY <2>4 DEF Terminal
<1> QED
  BY <1>1, PTL DEF Spec, TerminalIsLatched
=============================================================================

-------------------------- MODULE PowerStageProofs --------------------------
(***************************************************************************)
(* Proofs about the power guard, that its counters keep the contract of    *)
(* GuardContract for every length of the three streaks and every Horizon   *)
(* that covers them, and about the power stage built on it, for every      *)
(* value of the counters' limits and every set of commands and events of   *)
(* PowerStage.  Both rest on the same facts about one step of the guard.   *)
(*                                                                         *)
(* The argument.  The duty the timer outputs was computed up to two        *)
(* periods earlier, so the vector bound is no invariant by itself: it      *)
(* needs the pipeline (Pipeline: between a counter top and the interrupt,  *)
(* active = preload), the idle streak (a counted idle step preloaded the   *)
(* zero vector) and the fact that a request without power never meets the  *)
(* control step again (RequestPowersOrEnds).  That a shutdown is final     *)
(* needs the order in which pwm_adc_stop() works (StopsMasked).            *)
(***************************************************************************)
EXTENDS PowerStage, GuardContract, TLAPS

-----------------------------------------------------------------------------
(* One step of the guard                                                   *)

(* Streak() stays between 0 and its limit.                                 *)
LEMMA StreakBounded ==
  ASSUME NEW limit \in Nat, NEW n \in 0..limit, NEW holds \in BOOLEAN
  PROVE  Streak(n, limit, holds) \in 0..limit
  BY DEF Streak

(* One step of the guard keeps the types of its four counters.             *)
LEMMA GuardStepType ==
  ASSUME GuardTypeOK, NEW in \in GuardInputs, PowerGuardStep(in)
  PROVE  GuardTypeOK'
<1>1. vbus_ok_n' \in 0..ArmPeriods
  BY StreakBounded, GuardAssumption DEF PowerGuardStep, OkCount, GuardTypeOK
<1>2. idle_n' \in 0..IdlePeriods
  BY StreakBounded, GuardAssumption
     DEF PowerGuardStep, IdleCount, GuardTypeOK, GuardInputs
<1>3. vbus_bad_n' \in Nat
  BY DEF PowerGuardStep, BadCount, GuardTypeOK
<1>4. request' \in BOOLEAN
  BY DEF PowerGuardStep, Request
<1> QED
  BY <1>1, <1>2, <1>3, <1>4 DEF GuardTypeOK

(* A reset guard is well typed.                                            *)
LEMMA GuardResetType == PowerGuardReset => GuardTypeOK
<1> SUFFICES ASSUME PowerGuardReset PROVE GuardTypeOK
  OBVIOUS
<1>1. request \in BOOLEAN
  BY DEF PowerGuardReset
<1>2. vbus_ok_n \in 0..ArmPeriods /\ vbus_bad_n \in Nat /\ idle_n \in 0..IdlePeriods
  BY GuardAssumption DEF PowerGuardReset
<1> QED
  BY <1>1, <1>2 DEF GuardTypeOK

(* The request rises only in a step in which every arming condition holds. *)
LEMMA RiseIsArming ==
  ASSUME NEW in, Request(in), ~request
  PROVE  MayArm(in) /\ in.arm_key /\ Trip(in) = {}
  BY DEF Request

(* Arming needs the previous step to have been idle already, when the idle *)
(* streak is at least two steps long.                                      *)
LEMMA ArmingFollowsIdle ==
  ASSUME GuardTypeOK, IdlePeriods >= 2, NEW in, MayArm(in)
  PROVE  idle_n > 0 /\ in.idle /\ in.calibrated
  BY GuardAssumption DEF MayArm, IdleCount, Streak, GuardTypeOK

(* The idle count is positive only after an idle step.                     *)
LEMMA IdleCountMeansIdle ==
  ASSUME NEW in, IdleCount(in) > 0
  PROVE  in.idle
  BY DEF IdleCount, Streak

-----------------------------------------------------------------------------
(* The contract of the guard                                               *)

(* A sample that counts towards the VBUS trip.                             *)
Bad(s) == s.power_on /\ s.vbus = "outside"

(* What the counters know of the samples: each counts the latest samples   *)
(* that satisfied its condition without a break, and vbus_bad_n counts all *)
(* of them.                                                                *)
Counted ==
  /\ \A i \in 1..vbus_ok_n : window[i].vbus = "arm"
  /\ \A i \in 1..idle_n : window[i].idle
  /\ \A i \in 1..Horizon : i <= vbus_bad_n => Bad(window[i])
  /\ \A k \in 1..Horizon : (\A i \in 1..k : Bad(window[i])) => k <= vbus_bad_n

GuardInv == ContractTypeOK /\ Counted /\ TripsOnBadStreak

-----------------------------------------------------------------------------
(* Every step keeps the types.                                             *)
LEMMA ContractTypeStep == ContractTypeOK /\ [ContractNext]_contractVars => ContractTypeOK'
<1> SUFFICES ASSUME ContractTypeOK, [ContractNext]_contractVars PROVE ContractTypeOK'
  OBVIOUS
<1>1. CASE UNCHANGED contractVars
  BY <1>1 DEF ContractTypeOK, GuardTypeOK, contractVars, guardVars
<1>2. ASSUME NEW in \in GuardInputs, Step(in) PROVE ContractTypeOK'
  <2>1. GuardTypeOK'
    BY <1>2, GuardStepType DEF Step, ContractTypeOK
  <2>5. Seen(in) \in Samples
    BY DEF Seen, Samples, GuardInputs
  <2>6. window' \in [1..Horizon -> Samples]
    BY <1>2, <2>5, HorizonAssumption DEF Step, ContractTypeOK
  <2>7. last' \in GuardInputs
    BY <1>2 DEF Step
  <2> QED
    BY <2>1, <2>6, <2>7 DEF ContractTypeOK
<1> QED
  BY <1>1, <1>2 DEF ContractNext

(* One step moves every sample one place further and counts the new one.   *)
LEMMA CountedStep ==
  ASSUME ContractTypeOK, Counted, NEW in \in GuardInputs, Step(in)
  PROVE  Counted'
<1>1. window' = [i \in 1..Horizon |-> IF i = 1 THEN Seen(in) ELSE window[i - 1]]
  BY DEF Step
<1>2. /\ window'[1] = Seen(in)
      /\ \A i \in 2..Horizon : i - 1 \in 1..Horizon /\ window'[i] = window[i - 1]
  BY <1>1, HorizonAssumption, GuardAssumption
<1>3. \A i \in 1..vbus_ok_n' : window'[i].vbus = "arm"
  <2> SUFFICES ASSUME NEW i \in 1..vbus_ok_n' PROVE window'[i].vbus = "arm"
    OBVIOUS
  <2>1. /\ vbus_ok_n' = Streak(vbus_ok_n, ArmPeriods, in.vbus = "arm")
        /\ vbus_ok_n \in 0..ArmPeriods
    BY DEF Step, PowerGuardStep, OkCount, ContractTypeOK, GuardTypeOK
  <2>2. in.vbus = "arm" /\ i <= vbus_ok_n + 1 /\ i <= Horizon
    BY <2>1, GuardAssumption, HorizonAssumption DEF Streak
  <2> QED
    BY <1>2, <2>1, <2>2, GuardAssumption, HorizonAssumption DEF Seen, Counted
<1>4. \A i \in 1..idle_n' : window'[i].idle
  <2> SUFFICES ASSUME NEW i \in 1..idle_n' PROVE window'[i].idle
    OBVIOUS
  <2>1. /\ idle_n' = Streak(idle_n, IdlePeriods, in.idle)
        /\ idle_n \in 0..IdlePeriods
    BY DEF Step, PowerGuardStep, IdleCount, ContractTypeOK, GuardTypeOK
  <2>2. in.idle /\ i <= idle_n + 1 /\ i <= Horizon
    BY <2>1, GuardAssumption, HorizonAssumption DEF Streak
  <2> QED
    BY <1>2, <2>1, <2>2, GuardAssumption, HorizonAssumption DEF Seen, Counted
<1>5. /\ vbus_bad_n' = IF Bad(Seen(in)) THEN vbus_bad_n + 1 ELSE 0
      /\ vbus_bad_n \in Nat
  BY DEF Step, PowerGuardStep, BadCount, ContractTypeOK, GuardTypeOK, Bad, Seen
<1>6. \A i \in 1..Horizon : i <= vbus_bad_n' => Bad(window'[i])
  <2> SUFFICES ASSUME NEW i \in 1..Horizon, i <= vbus_bad_n'
               PROVE  Bad(window'[i])
    OBVIOUS
  <2>1. Bad(Seen(in)) /\ i <= vbus_bad_n + 1
    BY <1>5
  <2>2. CASE i = 1
    BY <1>2, <2>1, <2>2
  <2>3. CASE i \in 2..Horizon
    BY <1>2, <1>5, <2>1, <2>3, HorizonAssumption DEF Counted
  <2> QED
    BY <2>2, <2>3, HorizonAssumption
<1>7. ASSUME NEW k \in 1..Horizon, \A i \in 1..k : Bad(window'[i])
      PROVE  k <= vbus_bad_n'
  <2>1. Bad(Seen(in))
    BY <1>2, <1>7, HorizonAssumption
  <2>2. CASE k = 1
    BY <1>5, <2>1, <2>2
  <2>3. CASE k \in 2..Horizon
    <3>1. k - 1 \in 1..Horizon
      BY <2>3, HorizonAssumption
    <3>2. ASSUME NEW i \in 1..(k - 1) PROVE Bad(window[i])
      <4>1. i + 1 \in 1..k /\ i + 1 \in 2..Horizon /\ (i + 1) - 1 = i
        BY <2>3, HorizonAssumption
      <4>2. Bad(window'[i + 1]) /\ window'[i + 1] = window[(i + 1) - 1]
        BY <1>2, <1>7, <4>1
      <4> QED
        BY <4>1, <4>2
    <3>3. k - 1 <= vbus_bad_n
      BY <3>1, <3>2 DEF Counted
    <3> QED
      BY <1>5, <2>1, <3>3, HorizonAssumption
  <2> QED
    BY <2>2, <2>3, HorizonAssumption
<1> QED
  BY <1>3, <1>4, <1>6, <1>7 DEF Counted

(* A complete streak of bad samples is a VBUS trip, so the step that       *)
(* completes it withdraws the request.                                     *)
LEMMA TripStep ==
  ASSUME ContractTypeOK, Counted', NEW in \in GuardInputs, Step(in)
  PROVE  TripsOnBadStreak'
<1> SUFFICES ASSUME BadStreak' PROVE ~request'
  BY DEF TripsOnBadStreak
<1>1. TripPeriods \in 1..Horizon
  BY GuardAssumption, HorizonAssumption
<1>2. TripPeriods <= vbus_bad_n'
  BY <1>1 DEF BadStreak, Counted, Bad
<1>3. VbusTrip(in)
  BY <1>2, GuardAssumption DEF VbusTrip, Step, PowerGuardStep, BadCount, ContractTypeOK, GuardTypeOK
<1> QED
  BY <1>3 DEF Step, PowerGuardStep, Request, Trip

(* The invariant holds in every reachable state.                           *)
THEOREM GuardInvariant == ContractSpec => []GuardInv
<1>1. ContractInit => GuardInv
  <2> SUFFICES ASSUME ContractInit PROVE GuardInv
    OBVIOUS
  <2>1. ContractTypeOK
    <3>1. Boot \in GuardInputs /\ Seen(Boot) \in Samples
      BY DEF Boot, Seen, Samples, GuardInputs, Currents, Voltages
    <3>2. window \in [1..Horizon -> Samples] /\ last \in GuardInputs
      BY <3>1 DEF ContractInit
    <3>3. GuardTypeOK
      BY GuardResetType DEF ContractInit
    <3> QED
      BY <3>2, <3>3 DEF ContractTypeOK
  <2>2. \A i \in 1..Horizon : ~Bad(window[i])
    BY DEF ContractInit, Seen, Boot, Bad
  <2>3. Counted
    BY <2>2, HorizonAssumption DEF ContractInit, PowerGuardReset, Counted
  <2>4. TripsOnBadStreak
    BY DEF ContractInit, PowerGuardReset, TripsOnBadStreak
  <2> QED
    BY <2>1, <2>3, <2>4 DEF GuardInv
<1>2. GuardInv /\ [ContractNext]_contractVars => GuardInv'
  <2> SUFFICES ASSUME GuardInv, [ContractNext]_contractVars PROVE GuardInv'
    OBVIOUS
  <2>1. ContractTypeOK'
    BY ContractTypeStep DEF GuardInv
  <2>2. CASE UNCHANGED contractVars
    BY <2>1, <2>2 DEF GuardInv, Counted, TripsOnBadStreak, BadStreak, contractVars, guardVars
  <2>3. ASSUME NEW in \in GuardInputs, Step(in) PROVE Counted' /\ TripsOnBadStreak'
    BY <2>3, CountedStep, TripStep DEF GuardInv
  <2> QED
    BY <2>1, <2>2, <2>3 DEF GuardInv, ContractNext
<1> QED
  BY <1>1, <1>2, PTL DEF ContractSpec

(* power_guard.h:24-25 - TripsOnBadStreak holds for every trip length.     *)
THEOREM GuardTrips == ContractSpec => []TripsOnBadStreak
<1>1. GuardInv => TripsOnBadStreak
  BY DEF GuardInv
<1> QED
  BY <1>1, GuardInvariant, PTL

(* power_guard.h:13-19 - the request rises only after complete streaks of  *)
(* arm-window VBUS samples and of idle steps, for every streak length.     *)
THEOREM GuardArms == ContractSpec => ArmsAfterStreaks
<1> DEFINE A == ~request /\ request' =>
                  /\ \A i \in 1..ArmPeriods : window'[i].vbus = "arm"
                  /\ \A i \in 1..IdlePeriods : window'[i].idle
<1>1. GuardInv /\ GuardInv' /\ [ContractNext]_contractVars => [A]_contractVars
  <2> SUFFICES ASSUME GuardInv, GuardInv', NEW in \in GuardInputs, Step(in),
                      ~request, request'
               PROVE  A
    BY DEF ContractNext
  <2>1. MayArm(in)
    BY DEF Step, PowerGuardStep, Request
  <2>2. vbus_ok_n' = ArmPeriods /\ idle_n' = IdlePeriods
    BY <2>1, GuardAssumption
       DEF MayArm, Step, PowerGuardStep, GuardInv, ContractTypeOK, GuardTypeOK
  <2> QED
    BY <2>2 DEF GuardInv, Counted
<1> QED
  BY <1>1, GuardInvariant, PTL DEF ContractSpec, ArmsAfterStreaks

(* The request falls only for the key, a calibrated overcurrent or a       *)
(* complete streak of bad VBUS samples.                                    *)
THEOREM GuardFalls == ContractSpec => FallsOnlyForCause
<1> DEFINE A == request /\ ~request' =>
                  \/ ~last'.arm_key
                  \/ last'.calibrated /\ last'.current = "outside"
                  \/ BadStreak'
<1>1. GuardInv /\ GuardInv' /\ [ContractNext]_contractVars => [A]_contractVars
  <2> SUFFICES ASSUME GuardInv, GuardInv', NEW in \in GuardInputs, Step(in),
                      request, ~request', in.arm_key, ~OvercurrentTrip(in)
               PROVE  BadStreak'
    BY DEF ContractNext, Step, OvercurrentTrip
  <2>1. VbusTrip(in)
    BY DEF Step, PowerGuardStep, Request, Trip
  <2>2. TripPeriods <= vbus_bad_n'
    BY <2>1 DEF VbusTrip, Step, PowerGuardStep
  <2>3. \A i \in 1..TripPeriods : i \in 1..Horizon /\ i <= vbus_bad_n'
    BY <2>2, GuardAssumption, HorizonAssumption DEF GuardInv, ContractTypeOK, GuardTypeOK
  <2> QED
    BY <2>3 DEF GuardInv, Counted, Bad, BadStreak
<1> QED
  BY <1>1, GuardInvariant, PTL DEF ContractSpec, FallsOnlyForCause

-----------------------------------------------------------------------------
(* The stage                                                               *)


(* No control step can run any more.                                       *)
NoMoreSteps == fault # {} \/ ~dma_irq \/ cpu = "halted"

RequestPowersOrEnds == request => Calibrated /\ (powered \/ NoMoreSteps)

StopsMasked ==
  /\ sup_pc = "off" \/ thr_pc = "off" => ~dma_irq
  /\ ~counting => ~sd /\ (~dma_irq \/ cpu = "halted")

Pipeline ==
  /\ tops > 0 => active = preload
  /\ idle_n > 0 => preload = "zero"
  /\ sd => active \in {"zero", "capped"} /\ preload \in {"zero", "capped"}

StageInv ==
  /\ TypeOK
  /\ LatchedMeansOff
  /\ PoweredMeansArmed
  /\ PoweredModePermitted
  /\ MapNeverOutlivesPower
  /\ RequestPowersOrEnds
  /\ StopsMasked
  /\ Pipeline
-----------------------------------------------------------------------------
(* Type correctness                                                        *)

(* A group of variables that a step leaves alone keeps its types.          *)
LEMMA UnchangedTypes ==
  /\ CtrlTypeOK /\ UNCHANGED <<guardVars, ctrlVars>> => CtrlTypeOK'
  /\ PinTypeOK /\ UNCHANGED pinVars => PinTypeOK'
  /\ TimerTypeOK /\ UNCHANGED timerVars => TimerTypeOK'
  /\ IsrTypeOK /\ UNCHANGED isrVars => IsrTypeOK'
  /\ IrqTypeOK /\ UNCHANGED irqVars => IrqTypeOK'
  /\ ActorTypeOK /\ UNCHANGED actorVars => ActorTypeOK'
<1>1. CtrlTypeOK /\ UNCHANGED <<guardVars, ctrlVars>> => CtrlTypeOK'
  BY DEF CtrlTypeOK, GuardTypeOK, guardVars, ctrlVars
<1>2. PinTypeOK /\ UNCHANGED pinVars => PinTypeOK'
  BY DEF PinTypeOK, pinVars
<1>3. TimerTypeOK /\ UNCHANGED timerVars => TimerTypeOK'
  BY DEF TimerTypeOK, timerVars
<1>4. IsrTypeOK /\ UNCHANGED isrVars => IsrTypeOK'
  BY DEF IsrTypeOK, isrVars
<1>5. IrqTypeOK /\ UNCHANGED irqVars => IrqTypeOK'
  BY DEF IrqTypeOK, irqVars
<1>6. ActorTypeOK /\ UNCHANGED actorVars => ActorTypeOK'
  BY DEF ActorTypeOK, actorVars
<1> QED
  BY <1>1, <1>2, <1>3, <1>4, <1>5, <1>6

(* power_off() leaves well-typed pins.                                     *)
LEMMA PowerOffType == PowerOff => PinTypeOK'
  BY DEF PowerOff, PinTypeOK

(* A saturating count stays within its limit.                              *)
LEMMA IncrementBounded ==
  ASSUME NEW limit \in Nat, NEW n \in 0..limit
  PROVE  Increment(n, limit) \in 0..limit
  BY DEF Increment

(* The control step sees well-typed guard inputs.                          *)
LEMMA GuardInType ==
  ASSUME NEW in \in StepInputs, NEW on \in BOOLEAN
  PROVE  GuardIn(in, on) \in GuardInputs
<1>1. Calibrated \in BOOLEAN
  BY DEF Calibrated
<1>2. (Chosen(in, on) = "IDLE" /\ ~Refused(in, on)) \in BOOLEAN
  OBVIOUS
<1>3. in.current \in Currents /\ in.vbus \in Voltages /\ in.arm_key \in BOOLEAN
  BY DEF StepInputs
<1> QED
  BY <1>1, <1>2, <1>3 DEF GuardIn, GuardInputs

(* The mode a step runs is a mode of the program, whatever was commanded.  *)
LEMMA ChosenType ==
  ASSUME NEW in \in StepInputs, NEW on \in BOOLEAN
  PROVE  Chosen(in, on) \in Modes
  BY DEF Chosen, Refused, Modes, StepInputs

(* The outcomes of the identification and of the map are well typed.       *)
LEMMA OutcomeTypes ==
  ASSUME TypeOK, NEW in \in StepInputs, NEW on \in BOOLEAN,
         NEW ident2 \in IdentAfter(in, on),
         NEW calib2 \in CalibAfter(in, on, ident2),
         NEW map2 \in MapAfter(in, on),
         NEW vec \in VectorAfter(in, on, ident2, map2)
  PROVE  /\ ident2 \in {"idle", "running", "done", "failed"}
         /\ calib2 \in {"none", "implausible", "plausible"}
         /\ map2 \in {"inactive", "gain", "sweep"}
         /\ vec \in Vectors
<1>1. ident2 \in {"idle", "running", "done", "failed"}
  BY DEF TypeOK, CtrlTypeOK, IdentAfter
<1>2. calib2 \in {"none", "implausible", "plausible"}
  BY DEF TypeOK, CtrlTypeOK, CalibAfter
<1>3. map2 \in {"inactive", "gain", "sweep"}
  BY DEF TypeOK, CtrlTypeOK, MapAfter
<1>4. vec \in Vectors
  BY DEF VectorAfter, Limit, Vectors
<1> QED
  BY <1>1, <1>2, <1>3, <1>4

(* The control step keeps the types of everything but the map.             *)
LEMMA FocStepType ==
  ASSUME TypeOK, NEW in \in StepInputs, NEW on \in BOOLEAN,
         NEW ident2 \in IdentAfter(in, on),
         NEW calib2 \in CalibAfter(in, on, ident2),
         FocStep(in, on, ident2, calib2),
         map' \in {"inactive", "gain", "sweep"}
  PROVE  CtrlTypeOK'
<1>1. GuardTypeOK'
  BY GuardInType, GuardStepType DEF FocStep, TypeOK, CtrlTypeOK
<1>2. cal_n' \in 0..CalSamples
  BY CalAssumption DEF FocStep, Calibrate, TypeOK, CtrlTypeOK
<1>3. cal_failed' \in BOOLEAN
  <2>1. CASE cal_n < CalSamples
    BY <2>1 DEF FocStep, Calibrate
  <2>2. CASE ~(cal_n < CalSamples)
    BY <2>2 DEF FocStep, Calibrate, TypeOK, CtrlTypeOK
  <2> QED
    BY <2>1, <2>2
<1>4. mode' \in Modes
  BY ChosenType DEF FocStep
<1>5. /\ ident' \in {"idle", "running", "done", "failed"}
      /\ calib' \in {"none", "implausible", "plausible"}
  BY DEF FocStep, TypeOK, CtrlTypeOK, IdentAfter, CalibAfter
<1> QED
  BY <1>1, <1>2, <1>3, <1>4, <1>5 DEF CtrlTypeOK

(* What every interrupt does besides the control step keeps its types.     *)
LEMMA IsrFrameType ==
  ASSUME TypeOK, NEW hw \in IsrInputs, IsrFrame(hw)
  PROVE  /\ counting' \in BOOLEAN /\ active' \in Vectors
         /\ overruns_in_a_row' \in 0..OverrunFaultCount
         /\ tops' \in 0..GapTops /\ have_last_entry' \in BOOLEAN
         /\ IrqTypeOK' /\ ActorTypeOK'
<1>1. counting' \in BOOLEAN /\ active' \in Vectors
  BY DEF IsrFrame, TypeOK, TimerTypeOK
<1>2. overruns_in_a_row' \in 0..OverrunFaultCount
  BY IncrementBounded, StageAssumption DEF IsrFrame, InARow, TypeOK, IsrTypeOK
<1>3. tops' \in 0..GapTops /\ have_last_entry' \in BOOLEAN
  BY StageAssumption DEF IsrFrame
<1>4. isrs' \in 0..SuperviseMinIsrs
  BY IncrementBounded, StageAssumption DEF IsrFrame, TypeOK, ActorTypeOK
<1>5. IrqTypeOK' /\ ActorTypeOK'
  BY <1>4, UnchangedTypes DEF IsrFrame, TypeOK, ActorTypeOK
<1> QED
  BY <1>1, <1>2, <1>3, <1>5

(* fault_latch() leaves well-typed pins, outputs and map.                  *)
LEMMA FaultLatchType ==
  FaultLatch => /\ PinTypeOK' /\ moe' \in BOOLEAN /\ preload' \in Vectors
                /\ map' \in {"inactive", "gain", "sweep"}
  BY PowerOffType DEF FaultLatch, Vectors

(* The faults an interrupt can latch are fault reasons of the BSP.         *)
LEMMA FaultTypes ==
  ASSUME NEW in \in StepInputs, NEW hw \in IsrInputs, NEW map2, NEW vec
  PROVE  /\ DataFaults(hw) \subseteq Faults
         /\ OverrunFault(hw) \subseteq Faults
         /\ StepFaults(in, map2, vec) \subseteq Faults
<1>1. DataFaults(hw) \subseteq Faults
  BY DEF DataFaults, Faults
<1>2. OverrunFault(hw) \subseteq Faults
  BY DEF OverrunFault, Faults
<1>3. CmdTrip(in, powered, map2) \subseteq Faults
  BY DEF CmdTrip, Trips, Trip, Faults
<1>4. StepFaults(in, map2, vec) \subseteq Faults
  BY <1>3 DEF StepFaults, Faults
<1> QED
  BY <1>1, <1>2, <1>4

(* An interrupt with a latched fault keeps the types.                      *)
LEMMA IsrLatchedType ==
  ASSUME TypeOK, NEW hw \in IsrInputs, IsrLatched(hw)
  PROVE  TypeOK'
<1>1. fault' \subseteq Faults
  <2>1. DataFaults(hw) \subseteq Faults /\ OverrunFault(hw) \subseteq Faults
    BY DEF DataFaults, OverrunFault, Faults
  <2> QED
    BY <2>1 DEF IsrLatched, TypeOK, IsrTypeOK
<1>2. /\ PinTypeOK' /\ moe' \in BOOLEAN /\ preload' \in Vectors
      /\ map' \in {"inactive", "gain", "sweep"}
  <2>1. CASE FaultLatch
    BY <2>1, FaultLatchType
  <2>2. CASE UNCHANGED <<pinVars, moe, preload, map>>
    BY <2>2, UnchangedTypes DEF TypeOK, CtrlTypeOK, TimerTypeOK
  <2> QED
    BY <2>1, <2>2 DEF IsrLatched
<1>3. CtrlTypeOK'
  BY <1>2 DEF IsrLatched, TypeOK, CtrlTypeOK, GuardTypeOK, guardVars
<1>4. IsrFrame(hw)
  BY DEF IsrLatched
<1> QED
  BY <1>1, <1>2, <1>3, <1>4, IsrFrameType DEF TypeOK, TimerTypeOK, IsrTypeOK

(* An interrupt that runs the control step keeps the types.                *)
LEMMA IsrStepType ==
  ASSUME TypeOK, NEW in \in StepInputs, NEW hw \in IsrInputs, IsrStep(in, hw)
  PROVE  TypeOK'
<1>1. powered \in BOOLEAN
  BY DEF TypeOK, PinTypeOK
<1> PICK ident2, calib2, map2, vec :
       /\ ident2 \in IdentAfter(in, powered)
       /\ calib2 \in CalibAfter(in, powered, ident2)
       /\ map2 \in MapAfter(in, powered)
       /\ vec \in VectorAfter(in, powered, ident2, map2)
       /\ LET new == StepFaults(in, map2, vec) \cup OverrunFault(hw)
          IN  /\ FocStep(in, powered, ident2, calib2)
              /\ fault' = new
              /\ IF new # {} THEN FaultLatch
                 ELSE Apply(in, vec) /\ map' = map2 /\ UNCHANGED moe
  BY DEF IsrStep
<1>2. fault' \subseteq Faults
  BY FaultTypes
<1>3. map2 \in {"inactive", "gain", "sweep"} /\ vec \in Vectors
  BY <1>1, OutcomeTypes
<1>4. /\ PinTypeOK' /\ moe' \in BOOLEAN /\ preload' \in Vectors
      /\ map' \in {"inactive", "gain", "sweep"}
  <2>1. CASE FaultLatch
    BY <2>1, FaultLatchType
  <2>2. CASE Apply(in, vec) /\ map' = map2 /\ UNCHANGED moe
    <3>1. PowerOn \/ PowerOff \/ UNCHANGED pinVars
      BY <2>2 DEF Apply
    <3>2. PinTypeOK'
      BY <3>1, PowerOffType, UnchangedTypes DEF PowerOn, PinTypeOK, TypeOK
    <3> QED
      BY <1>3, <2>2, <3>2 DEF Apply, TypeOK, TimerTypeOK
  <2> QED
    BY <2>1, <2>2
<1>5. CtrlTypeOK'
  BY <1>1, <1>4, FocStepType
<1>6. IsrFrame(hw)
  BY DEF IsrStep
<1> QED
  BY <1>2, <1>4, <1>5, <1>6, IsrFrameType DEF TypeOK, TimerTypeOK, IsrTypeOK

(* The inputs Next enumerates are inputs of the interrupt.                 *)
LEMMA InputsNow ==
  /\ IsrInputsNow \subseteq IsrInputs
  /\ StepInputsNow \subseteq StepInputs
  BY DEF IsrInputsNow, StepInputsNow

(* pwm_adc_stop()'s last steps keep the types of all they touch.           *)
LEMMA StopOffType ==
  ASSUME TypeOK, StopOff
  PROVE  CtrlTypeOK' /\ PinTypeOK' /\ TimerTypeOK' /\ IsrTypeOK' /\ IrqTypeOK'
<1>1. CtrlTypeOK'
  BY DEF StopOff, TypeOK, CtrlTypeOK, GuardTypeOK, guardVars
<1>2. PinTypeOK'
  BY PowerOffType DEF StopOff
<1>3. TimerTypeOK'
  BY DEF StopOff, TypeOK, TimerTypeOK
<1>4. IsrTypeOK' /\ IrqTypeOK'
  BY UnchangedTypes DEF StopOff, TypeOK
<1> QED
  BY <1>1, <1>2, <1>3, <1>4

(* Every step of every actor keeps the types.                              *)
LEMMA TypeStep == TypeOK /\ [Next]_vars => TypeOK'
<1> SUFFICES ASSUME TypeOK, [Next]_vars PROVE TypeOK'
  OBVIOUS
<1>1. CASE UNCHANGED vars
  BY <1>1, UnchangedTypes DEF vars, TypeOK, ctrlVars, guardVars
<1>2. CASE CounterTop
  <2>1. CtrlTypeOK' /\ PinTypeOK' /\ IrqTypeOK' /\ ActorTypeOK'
    BY <1>2, UnchangedTypes DEF CounterTop, TypeOK
  <2>2. TimerTypeOK'
    BY <1>2 DEF CounterTop, TypeOK, TimerTypeOK
  <2>3. IsrTypeOK'
    BY <1>2, IncrementBounded, StageAssumption DEF CounterTop, TypeOK, IsrTypeOK
  <2> QED
    BY <2>1, <2>2, <2>3 DEF TypeOK
<1>3. CASE Isr
  BY <1>3, IsrLatchedType, IsrStepType, InputsNow DEF Isr
<1>4. CASE SuperviseRead
  <2>1. ActorTypeOK'
    BY <1>4, StageAssumption DEF SuperviseRead, TypeOK, ActorTypeOK
  <2> QED
    BY <1>4, <2>1, UnchangedTypes DEF SuperviseRead, TypeOK
<1>5. CASE SuperviseCheck
  <2>1. ActorTypeOK'
    BY <1>5 DEF SuperviseCheck, TypeOK, ActorTypeOK
  <2> QED
    BY <1>5, <2>1, UnchangedTypes DEF SuperviseCheck, TypeOK
<1>6. CASE SuperviseIrqOff
  <2>1. ActorTypeOK'
    BY <1>6 DEF SuperviseIrqOff, TypeOK, ActorTypeOK
  <2>2. IrqTypeOK'
    BY <1>6 DEF SuperviseIrqOff, IrqDisable, TypeOK, IrqTypeOK
  <2> QED
    BY <1>6, <2>1, <2>2, UnchangedTypes DEF SuperviseIrqOff, TypeOK
<1>7. CASE SuperviseOff
  <2>1. ActorTypeOK'
    BY <1>7 DEF SuperviseOff, TypeOK, ActorTypeOK
  <2> QED
    BY <1>7, <2>1, StopOffType DEF SuperviseOff, TypeOK
<1>8. CASE ThreadIrqOff
  <2>1. ActorTypeOK'
    BY <1>8 DEF ThreadIrqOff, TypeOK, ActorTypeOK
  <2>2. IrqTypeOK'
    BY <1>8 DEF ThreadIrqOff, IrqDisable, TypeOK, IrqTypeOK
  <2> QED
    BY <1>8, <2>1, <2>2, UnchangedTypes DEF ThreadIrqOff, TypeOK
<1>9. CASE ThreadOff
  <2>1. ActorTypeOK'
    BY <1>9 DEF ThreadOff, TypeOK, ActorTypeOK
  <2> QED
    BY <1>9, <2>1, StopOffType DEF ThreadOff, TypeOK
<1>10. CASE FatalEnter
  <2>1. ActorTypeOK'
    BY <1>10 DEF FatalEnter, TypeOK, ActorTypeOK
  <2> QED
    BY <1>10, <2>1, UnchangedTypes DEF FatalEnter, TypeOK
<1>11. CASE FatalOff
  <2>1. ActorTypeOK'
    BY <1>11 DEF FatalOff, FatalCpu, TypeOK, ActorTypeOK
  <2>2. PinTypeOK'
    BY <1>11, PowerOffType DEF FatalOff
  <2>3. TimerTypeOK'
    BY <1>11 DEF FatalOff, TypeOK, TimerTypeOK
  <2> QED
    BY <1>11, <2>1, <2>2, <2>3, UnchangedTypes DEF FatalOff, TypeOK
<1>12. CASE Silence
  <2>1. IrqTypeOK'
    BY <1>12 DEF Silence, TypeOK, IrqTypeOK
  <2> QED
    BY <1>12, <2>1, UnchangedTypes DEF Silence, TypeOK
<1>13. CASE CorruptPins
  <2>1. IrqTypeOK'
    BY <1>13 DEF CorruptPins, TypeOK, IrqTypeOK
  <2> QED
    BY <1>13, <2>1, UnchangedTypes DEF CorruptPins, TypeOK
<1> QED
  BY <1>1, <1>2, <1>3, <1>4, <1>5, <1>6, <1>7, <1>8, <1>9, <1>10, <1>11, <1>12,
     <1>13 DEF Next, Supervise, ReportThread
-----------------------------------------------------------------------------
(* The control step as seen by the power stage                             *)

(* What one interrupt that runs the control step leaves behind: either a   *)
(* latched fault with everything off, or pins that agree with the request  *)
(* and the vector and map the step chose.                                  *)
LEMMA IsrStepOutcome ==
  ASSUME TypeOK, PoweredMeansArmed,
         NEW in \in StepInputs, NEW hw \in IsrInputs, IsrStep(in, hw)
  PROVE  /\ fault' # {} => /\ ~sd' /\ gate' = "analog" /\ ~moe' /\ ~powered'
                           /\ preload' = "zero" /\ map' = "inactive"
         /\ fault' = {} => /\ sd' <=> Wanted(in, powered)
                           /\ powered' = sd' /\ (gate' = "af") = sd'
                           /\ \E ident2 : \E map2 \in MapAfter(in, powered) :
                                /\ map' = map2
                                /\ preload' \in VectorAfter(in, powered, ident2, map2)
<1>1. powered \in BOOLEAN /\ sd \in BOOLEAN /\ powered = sd /\ (gate = "af") = sd
  BY DEF TypeOK, PinTypeOK, PoweredMeansArmed
<1> PICK ident2, calib2, map2, vec :
       /\ ident2 \in IdentAfter(in, powered)
       /\ calib2 \in CalibAfter(in, powered, ident2)
       /\ map2 \in MapAfter(in, powered)
       /\ vec \in VectorAfter(in, powered, ident2, map2)
       /\ LET new == StepFaults(in, map2, vec) \cup OverrunFault(hw)
          IN  /\ FocStep(in, powered, ident2, calib2)
              /\ fault' = new
              /\ IF new # {} THEN FaultLatch
                 ELSE Apply(in, vec) /\ map' = map2 /\ UNCHANGED moe
  BY DEF IsrStep
<1>2. ASSUME fault' # {}
      PROVE  /\ ~sd' /\ gate' = "analog" /\ ~moe' /\ ~powered'
             /\ preload' = "zero" /\ map' = "inactive"
  BY <1>2 DEF FaultLatch, PowerOff
<1>3. ASSUME fault' = {}
      PROVE  /\ sd' <=> Wanted(in, powered)
             /\ powered' = sd' /\ (gate' = "af") = sd'
             /\ map' = map2 /\ preload' = vec
  <2>1. Apply(in, vec) /\ map' = map2
    BY <1>3
  <2>2. CASE Wanted(in, powered) /\ ~powered
    BY <2>1, <2>2 DEF Apply, PowerOn
  <2>3. CASE ~Wanted(in, powered) /\ powered
    BY <2>1, <2>3 DEF Apply, PowerOff
  <2>4. CASE Wanted(in, powered) <=> powered
    <3>1. UNCHANGED pinVars
      BY <2>1, <2>4 DEF Apply
    <3> QED
      BY <1>1, <2>1, <2>4, <3>1 DEF Apply, pinVars
  <2> QED
    BY <2>2, <2>3, <2>4
<1> QED
  BY <1>2, <1>3

(* The parts of the control state an interrupt assigns.                    *)
LEMMA IsrStepControl ==
  ASSUME NEW in, NEW hw, IsrStep(in, hw)
  PROVE  /\ request' = Wanted(in, powered)
         /\ mode' = Chosen(in, powered)
         /\ idle_n' = IdleCount(GuardIn(in, powered))
         /\ Calibrate(in)
         /\ Chosen(in, powered) # "IDENT" => calib' = calib
         /\ UNCHANGED <<counting, active, dma_irq, cpu, sup_pc, thr_pc>>
         /\ tops' = 0
         /\ IsrEnabled /\ fault = {}
<1> PICK ident2, calib2 :
       /\ calib2 \in CalibAfter(in, powered, ident2)
       /\ FocStep(in, powered, ident2, calib2)
  BY DEF IsrStep
<1>1. Chosen(in, powered) # "IDENT" => calib2 = calib
  BY DEF CalibAfter
<1>2. /\ request' = Wanted(in, powered)
      /\ mode' = Chosen(in, powered)
      /\ idle_n' = IdleCount(GuardIn(in, powered))
      /\ Calibrate(in)
      /\ calib' = calib2
  BY DEF FocStep, PowerGuardStep, Wanted
<1>3. IsrFrame(hw) /\ IsrEnabled /\ fault = {}
  BY DEF IsrStep
<1> QED
  BY <1>1, <1>2, <1>3 DEF IsrFrame, irqVars

(* A step that runs with a request from the previous step runs powered.    *)
LEMMA RequestedIsPowered ==
  ASSUME RequestPowersOrEnds, IsrEnabled, fault = {}, request
  PROVE  powered
  BY DEF RequestPowersOrEnds, NoMoreSteps, IsrEnabled

(* A step that wants an unpowered stage on arms it: it is idle, it follows *)
(* an idle step, and the offsets are calibrated.                           *)
LEMMA ArmingStep ==
  ASSUME StageInv, NEW in \in StepInputs, IsrEnabled, fault = {},
         Wanted(in, powered), ~powered
  PROVE  Calibrated /\ idle_n > 0 /\ Chosen(in, powered) = "IDLE"
<1>1. ~request
  BY RequestedIsPowered DEF StageInv
<1>2. MayArm(GuardIn(in, powered))
  BY <1>1, RiseIsArming DEF Wanted
<1>3. /\ idle_n > 0 /\ GuardIn(in, powered).idle
      /\ GuardIn(in, powered).calibrated
  BY <1>2, ArmingFollowsIdle, PipelineAssumption
     DEF StageInv, TypeOK, CtrlTypeOK
<1> QED
  BY <1>3 DEF GuardIn

(* The idle mode preloads the zero vector.                                 *)
LEMMA IdleIsSilent ==
  ASSUME NEW in, NEW on, NEW ident2, NEW map2, Chosen(in, on) = "IDLE"
  PROVE  VectorAfter(in, on, ident2, map2) = {"zero"}
  BY DEF VectorAfter, Silent

(* A powered step never computes an unbounded vector.                      *)
LEMMA PoweredIsCapped ==
  ASSUME NEW in, NEW ident2, NEW map2, NEW on, on
  PROVE  VectorAfter(in, on, ident2, map2) \subseteq {"zero", "capped"}
  BY DEF VectorAfter, Limit, Powered

(* Calibration, once complete and plausible, stays so.                     *)
LEMMA CalibratedStays ==
  ASSUME NEW in, Calibrate(in), Calibrated, cal_n \in Nat, CalSamples \in Nat
  PROVE  Calibrated'
  BY DEF Calibrate, Calibrated
-----------------------------------------------------------------------------
(* The inductive invariant                                                 *)

(* An interrupt that runs the control step keeps the invariant.            *)
LEMMA IsrStepInv ==
  ASSUME StageInv, NEW in \in StepInputs, NEW hw \in IsrInputs, IsrStep(in, hw)
  PROVE  StageInv'
<1> USE DEF StageInv
<1>1. TypeOK'
  BY IsrStepType
<1>2. /\ powered \in BOOLEAN /\ sd \in BOOLEAN /\ powered = sd
      /\ sd' \in BOOLEAN /\ powered' \in BOOLEAN
  BY <1>1 DEF TypeOK, PinTypeOK, PoweredMeansArmed
<1>3. LatchedMeansOff'
  BY IsrStepOutcome DEF LatchedMeansOff
<1>4. sd' => fault' = {} /\ Wanted(in, powered)
  BY IsrStepOutcome
<1>5. Wanted(in, powered) => Calibrated
  BY ArmingStep, IsrStepControl DEF PoweredMeansArmed
<1>6. Calibrated => Calibrated'
  BY IsrStepControl, CalibratedStays, CalAssumption DEF TypeOK, CtrlTypeOK
<1>7. PoweredMeansArmed'
  <2>1. powered' = sd' /\ (gate' = "af") = sd'
    BY <1>1, <1>2, IsrStepOutcome DEF TypeOK, PinTypeOK
  <2>2. sd' => Calibrated' /\ request'
    BY <1>4, <1>5, <1>6, IsrStepControl
  <2> QED
    BY <2>1, <2>2 DEF PoweredMeansArmed
<1>8. PoweredModePermitted'
  <2> SUFFICES ASSUME sd' PROVE /\ mode' # "VOLTAGE"
                                /\ mode' \in CurrentModes => calib' = "plausible"
    BY DEF PoweredModePermitted
  <2>1. /\ mode' = Chosen(in, powered)
        /\ Chosen(in, powered) # "IDENT" => calib' = calib
    BY IsrStepControl
  <2>2. CASE ~powered
    <3>1. Chosen(in, powered) = "IDLE"
      BY <1>4, <2>2, ArmingStep, IsrStepControl
    <3> QED
      BY <2>1, <3>1 DEF CurrentModes
  <2>3. CASE powered
    <3>1. Powered(powered)
      BY <2>3 DEF Powered
    <3>2. Chosen(in, powered) \in {"MAP", "IDLE"} \/ ~Forbidden(Chosen(in, powered))
      BY <3>1 DEF Chosen, Refused
    <3>3. Chosen(in, powered) # "VOLTAGE"
      BY <3>2 DEF Forbidden
    <3>4. Chosen(in, powered) \in CurrentModes => calib = "plausible"
      BY <3>2 DEF Forbidden, CurrentModes
    <3> QED
      BY <2>1, <3>3, <3>4 DEF CurrentModes
  <2> QED
    BY <2>2, <2>3
<1>9. MapNeverOutlivesPower'
  <2> SUFFICES ASSUME map' # "inactive" PROVE sd'
    BY DEF MapNeverOutlivesPower
  <2>1. fault' = {}
    BY IsrStepOutcome
  <2>2. PICK map2 \in MapAfter(in, powered) : map' = map2
    BY <2>1, IsrStepOutcome
  <2>3. powered /\ Wanted(in, powered)
    BY <2>2 DEF MapAfter
  <2> QED
    BY <2>1, <2>3, IsrStepOutcome
<1>10. RequestPowersOrEnds'
  <2> SUFFICES ASSUME request' PROVE Calibrated' /\ (powered' \/ fault' # {})
    BY DEF RequestPowersOrEnds, NoMoreSteps
  <2>1. Wanted(in, powered)
    BY IsrStepControl
  <2>2. fault' = {} => powered'
    BY <1>2, <2>1, IsrStepOutcome
  <2> QED
    BY <1>5, <1>6, <2>1, <2>2
<1>11. StopsMasked'
  BY IsrStepControl DEF StopsMasked, IsrEnabled
<1>12. Pipeline'
  <2>1. tops' = 0
    BY IsrStepControl
  <2>2. idle_n' > 0 => preload' = "zero"
    <3> SUFFICES ASSUME IdleCount(GuardIn(in, powered)) > 0, fault' = {}
                 PROVE  preload' = "zero"
      BY IsrStepControl, IsrStepOutcome
    <3>1. GuardIn(in, powered).idle
      BY IdleCountMeansIdle
    <3>2. Chosen(in, powered) = "IDLE"
      BY <3>1 DEF GuardIn
    <3> QED
      BY <3>2, IdleIsSilent, IsrStepOutcome
  <2>3. ASSUME sd' PROVE active' \in {"zero", "capped"} /\ preload' \in {"zero", "capped"}
    <3>1. fault' = {} /\ active' = active
      BY <1>4, <2>3, IsrStepControl
    <3>2. CASE powered
      BY <1>2, <3>1, <3>2, PoweredIsCapped, IsrStepOutcome DEF Pipeline
    <3>3. CASE ~powered
      <4>1. Chosen(in, powered) = "IDLE" /\ idle_n > 0
        BY <1>4, <2>3, <3>3, ArmingStep, IsrStepControl
      <4>2. active = "zero"
        BY <4>1, IsrStepControl DEF Pipeline, IsrEnabled
      <4>3. preload' = "zero"
        BY <3>1, <4>1, IdleIsSilent, IsrStepOutcome
      <4> QED
        BY <3>1, <4>2, <4>3
    <3> QED
      BY <3>2, <3>3
  <2>4. ~(tops' > 0)
    BY <2>1
  <2> QED
    BY <2>2, <2>3, <2>4 DEF Pipeline
<1> QED
  BY <1>1, <1>3, <1>7, <1>8, <1>9, <1>10, <1>11, <1>12

(* An interrupt that finds a latched fault, or latches one before the      *)
(* control step, keeps the invariant.                                      *)
LEMMA IsrLatchedInv ==
  ASSUME StageInv, NEW hw \in IsrInputs, IsrLatched(hw)
  PROVE  StageInv'
<1> USE DEF StageInv
<1>1. TypeOK'
  BY IsrLatchedType
<1>2. /\ UNCHANGED <<guardVars, cal_n, cal_failed, mode, calib, counting, active,
                     dma_irq, cpu, sup_pc, thr_pc>>
      /\ tops' = 0 /\ fault' # {}
      /\ IsrEnabled
  BY DEF IsrLatched, IsrFrame, irqVars
<1>3. /\ ~sd' /\ gate' = "analog" /\ ~moe' /\ ~powered'
      /\ map' = "inactive"
      /\ preload' = "zero" \/ preload' = preload
  <2>1. CASE FaultLatch
    BY <2>1 DEF FaultLatch, PowerOff
  <2>2. CASE UNCHANGED <<pinVars, moe, preload, map>> /\ fault # {}
    <3>1. ~sd /\ gate = "analog" /\ ~moe /\ ~powered
      BY <2>2 DEF LatchedMeansOff
    <3>2. cpu # "halted"
      BY <1>2 DEF IsrEnabled
    <3>3. map = "inactive"
      BY <3>1, <3>2 DEF MapNeverOutlivesPower
    <3> QED
      BY <2>2, <3>1, <3>3 DEF pinVars
  <2>3. FaultLatch \/ (UNCHANGED <<pinVars, moe, preload, map>> /\ fault # {})
    BY DEF IsrLatched
  <2> QED
    BY <2>1, <2>2, <2>3
<1>4. Calibrated' <=> Calibrated
  BY <1>2 DEF Calibrated
<1>5. LatchedMeansOff' /\ PoweredModePermitted' /\ MapNeverOutlivesPower'
  BY <1>3 DEF LatchedMeansOff, PoweredModePermitted, MapNeverOutlivesPower
<1>6. PoweredMeansArmed'
  BY <1>1, <1>3 DEF PoweredMeansArmed, TypeOK, PinTypeOK
<1>7. RequestPowersOrEnds'
  BY <1>2, <1>4 DEF RequestPowersOrEnds, NoMoreSteps, guardVars
<1>8. StopsMasked'
  BY <1>2, <1>3 DEF StopsMasked, IsrEnabled
<1>9. Pipeline'
  BY <1>2, <1>3 DEF Pipeline, guardVars
<1> QED
  BY <1>1, <1>5, <1>6, <1>7, <1>8, <1>9

(* pwm_adc_stop() after its first step keeps the invariant.                *)
LEMMA StopOffInv ==
  ASSUME StageInv, TypeOK', StopOff, ~dma_irq, UNCHANGED cpu
  PROVE  StageInv'
<1>1. /\ UNCHANGED <<guardVars, cal_n, cal_failed, mode, calib, active, preload,
                     isrVars, irqVars>>
      /\ ~sd' /\ gate' = "analog" /\ ~moe' /\ ~powered' /\ map' = "inactive"
  BY DEF StopOff, PowerOff
<1>2. Calibrated' <=> Calibrated
  BY <1>1 DEF Calibrated
<1>3. LatchedMeansOff' /\ PoweredModePermitted' /\ MapNeverOutlivesPower'
  BY <1>1 DEF LatchedMeansOff, PoweredModePermitted, MapNeverOutlivesPower
<1>4. PoweredMeansArmed'
  BY <1>1 DEF PoweredMeansArmed, TypeOK, PinTypeOK
<1>5. RequestPowersOrEnds'
  BY <1>1, <1>2 DEF StageInv, RequestPowersOrEnds, NoMoreSteps, guardVars, irqVars
<1>6. StopsMasked'
  BY <1>1 DEF StopsMasked, irqVars
<1>7. Pipeline'
  BY <1>1 DEF StageInv, Pipeline, guardVars, isrVars
<1> QED
  BY <1>3, <1>4, <1>5, <1>6, <1>7 DEF StageInv

(* Steps that touch neither the control state nor the pins nor the timer   *)
(* keep the invariant, provided they never enable the interrupt or revive  *)
(* the CPU.                                                                *)
LEMMA QuietInv ==
  ASSUME StageInv, TypeOK',
         UNCHANGED <<guardVars, ctrlVars, pinVars, timerVars, isrVars>>,
         dma_irq' => dma_irq, cpu = "halted" => cpu' = "halted",
         sup_pc' = "off" \/ thr_pc' = "off" => ~dma_irq'
  PROVE  StageInv'
<1>1. Calibrated' <=> Calibrated
  BY DEF Calibrated, ctrlVars
<1>2. LatchedMeansOff' /\ PoweredMeansArmed' /\ PoweredModePermitted'
  BY <1>1 DEF StageInv, LatchedMeansOff, PoweredMeansArmed, PoweredModePermitted,
              guardVars, ctrlVars, pinVars, timerVars, isrVars
<1>3. MapNeverOutlivesPower'
  BY DEF StageInv, MapNeverOutlivesPower, ctrlVars, pinVars
<1>4. RequestPowersOrEnds'
  BY <1>1 DEF StageInv, RequestPowersOrEnds, NoMoreSteps, guardVars, pinVars, isrVars
<1>5. StopsMasked'
  BY DEF StageInv, StopsMasked, pinVars, timerVars
<1>6. Pipeline'
  BY DEF StageInv, Pipeline, guardVars, pinVars, timerVars, isrVars
<1> QED
  BY <1>2, <1>3, <1>4, <1>5, <1>6 DEF StageInv

(* Every step of every actor keeps the invariant.                          *)
LEMMA StageInvStep == StageInv /\ [Next]_vars => StageInv'
<1> SUFFICES ASSUME StageInv, [Next]_vars PROVE StageInv'
  OBVIOUS
<1>0. TypeOK'
  BY TypeStep DEF StageInv
<1>1. CASE UNCHANGED vars
  BY <1>0, <1>1, QuietInv DEF vars, irqVars, actorVars, StageInv, StopsMasked
<1>2. CASE CounterTop
  <2>1. /\ UNCHANGED <<guardVars, ctrlVars, pinVars, moe, counting, preload, fault,
                       dma_irq, cpu, sup_pc, thr_pc>>
        /\ active' = preload
    BY <1>2 DEF CounterTop, irqVars, actorVars
  <2>2. Calibrated' <=> Calibrated
    BY <2>1 DEF Calibrated, ctrlVars
  <2>3. LatchedMeansOff' /\ PoweredMeansArmed' /\ PoweredModePermitted'
    BY <2>1, <2>2 DEF StageInv, LatchedMeansOff, PoweredMeansArmed,
                      PoweredModePermitted, guardVars, ctrlVars, pinVars
  <2>4. MapNeverOutlivesPower'
    BY <2>1 DEF StageInv, MapNeverOutlivesPower, ctrlVars, pinVars
  <2>5. RequestPowersOrEnds'
    BY <2>1, <2>2 DEF StageInv, RequestPowersOrEnds, NoMoreSteps, guardVars, pinVars
  <2>6. StopsMasked'
    BY <2>1 DEF StageInv, StopsMasked, pinVars
  <2>7. Pipeline'
    BY <2>1 DEF StageInv, Pipeline, guardVars, pinVars
  <2> QED
    BY <1>0, <2>3, <2>4, <2>5, <2>6, <2>7 DEF StageInv
<1>3. CASE Isr
  BY <1>3, IsrLatchedInv, IsrStepInv, InputsNow DEF Isr
<1>4. CASE SuperviseRead
  BY <1>0, <1>4, QuietInv DEF SuperviseRead, irqVars, StageInv, StopsMasked
<1>5. CASE SuperviseCheck
  BY <1>0, <1>5, QuietInv DEF SuperviseCheck, irqVars, StageInv, StopsMasked
<1>6. CASE SuperviseIrqOff
  BY <1>0, <1>6, QuietInv DEF SuperviseIrqOff, IrqDisable
<1>7. CASE SuperviseOff
  BY <1>0, <1>7, StopOffInv DEF SuperviseOff, StageInv, StopsMasked
<1>8. CASE ThreadIrqOff
  BY <1>0, <1>8, QuietInv DEF ThreadIrqOff, IrqDisable
<1>9. CASE ThreadOff
  BY <1>0, <1>9, StopOffInv DEF ThreadOff, StageInv, StopsMasked
<1>10. CASE FatalEnter
  BY <1>0, <1>10, QuietInv DEF FatalEnter, irqVars, StageInv, StopsMasked
<1>11. CASE FatalOff
  <2>1. /\ UNCHANGED <<guardVars, ctrlVars, active, preload, isrVars, irqVars,
                       sup_pc, thr_pc>>
        /\ ~sd' /\ gate' = "analog" /\ ~moe' /\ ~powered' /\ cpu' = "halted"
    BY <1>11 DEF FatalOff, PowerOff, FatalCpu
  <2>2. Calibrated' <=> Calibrated
    BY <2>1 DEF Calibrated, ctrlVars
  <2>3. LatchedMeansOff' /\ PoweredModePermitted' /\ MapNeverOutlivesPower'
    BY <2>1 DEF LatchedMeansOff, PoweredModePermitted, MapNeverOutlivesPower
  <2>4. PoweredMeansArmed'
    BY <1>0, <2>1 DEF PoweredMeansArmed, TypeOK, PinTypeOK
  <2>5. RequestPowersOrEnds'
    BY <2>1, <2>2 DEF StageInv, RequestPowersOrEnds, NoMoreSteps, guardVars
  <2>6. StopsMasked'
    BY <2>1 DEF StageInv, StopsMasked, irqVars
  <2>7. Pipeline'
    BY <2>1 DEF StageInv, Pipeline, guardVars, isrVars
  <2> QED
    BY <1>0, <2>3, <2>4, <2>5, <2>6, <2>7 DEF StageInv
<1>12. CASE Silence
  BY <1>0, <1>12, QuietInv DEF Silence, actorVars, StageInv, StopsMasked
<1>13. CASE CorruptPins
  BY <1>0, <1>13, QuietInv DEF CorruptPins, actorVars, StageInv, StopsMasked
<1> QED
  BY <1>1, <1>2, <1>3, <1>4, <1>5, <1>6, <1>7, <1>8, <1>9, <1>10, <1>11, <1>12,
     <1>13 DEF Next, Supervise, ReportThread

(* pwm_adc_init() establishes the invariant.                               *)
LEMMA StageInvInit == Init => StageInv
<1> SUFFICES ASSUME Init PROVE StageInv
  OBVIOUS
<1> USE DEF Init, CtrlInit
<1>1. CtrlTypeOK
  <2>1. GuardTypeOK
    BY GuardResetType
  <2>2. cal_n \in 0..CalSamples /\ mode \in Modes
    BY CalAssumption DEF Modes
  <2>3. cal_failed \in BOOLEAN
    OBVIOUS
  <2> QED
    BY <2>1, <2>2, <2>3 DEF CtrlTypeOK
<1>2. PinTypeOK /\ IrqTypeOK
  BY DEF PinTypeOK, IrqTypeOK
<1>3. TimerTypeOK
  BY DEF TimerTypeOK, Vectors
<1>4. IsrTypeOK
  <2>1. overruns_in_a_row \in 0..OverrunFaultCount /\ tops \in 0..GapTops
    BY StageAssumption
  <2>2. fault \subseteq Faults /\ have_last_entry \in BOOLEAN
    OBVIOUS
  <2> QED
    BY <2>1, <2>2 DEF IsrTypeOK
<1>5. ActorTypeOK
  <2>1. isrs \in 0..SuperviseMinIsrs /\ sup_ran \in 0..SuperviseMinIsrs
    BY StageAssumption
  <2>2. supervisor_trip \in BOOLEAN
    OBVIOUS
  <2> QED
    BY <2>1, <2>2 DEF ActorTypeOK
<1>6. LatchedMeansOff /\ PoweredMeansArmed /\ PoweredModePermitted
  BY DEF LatchedMeansOff, PoweredMeansArmed, PoweredModePermitted
<1>7. MapNeverOutlivesPower /\ StopsMasked
  BY DEF MapNeverOutlivesPower, StopsMasked
<1>8. RequestPowersOrEnds /\ Pipeline
  BY DEF RequestPowersOrEnds, Pipeline, PowerGuardReset
<1> QED
  BY <1>1, <1>2, <1>3, <1>4, <1>5, <1>6, <1>7, <1>8 DEF StageInv, TypeOK

(* The inductive invariant holds in every reachable state.                 *)
THEOREM StageInvariant == Spec => []StageInv
<1> QED
  BY StageInvInit, StageInvStep, PTL DEF Spec
-----------------------------------------------------------------------------
(* The properties                                                          *)

(* Type correctness for every value of the limits.                         *)
THEOREM StageTypes == Spec => []TypeOK
<1>1. StageInv => TypeOK
  BY DEF StageInv
<1> QED
  BY <1>1, StageInvariant, PTL

(* power_guard.h:44 - no unbounded vector reaches the motor.               *)
THEOREM StageBounded == Spec => []OnlyBoundedVectorDrives
<1>1. StageInv => OnlyBoundedVectorDrives
  BY DEF StageInv, Pipeline, OnlyBoundedVectorDrives
<1> QED
  BY <1>1, StageInvariant, PTL

(* A latched fault means drivers, gate inputs and outputs off.             *)
THEOREM StageLatched == Spec => []LatchedMeansOff
<1>1. StageInv => LatchedMeansOff
  BY DEF StageInv
<1> QED
  BY <1>1, StageInvariant, PTL

(* The power flag, the SD pins and the gate inputs agree, and a powered    *)
(* stage is calibrated and requested.                                      *)
THEOREM StageArmed == Spec => []PoweredMeansArmed
<1>1. StageInv => PoweredMeansArmed
  BY DEF StageInv
<1> QED
  BY <1>1, StageInvariant, PTL

(* foc_ctrl.h:31-33 - no forbidden mode runs while the drivers are on.     *)
THEOREM StageModes == Spec => []PoweredModePermitted
<1>1. StageInv => PoweredModePermitted
  BY DEF StageInv
<1> QED
  BY <1>1, StageInvariant, PTL

(* No map is left running by a fault or a stop.                            *)
THEOREM StageMap == Spec => []MapNeverOutlivesPower
<1>1. StageInv => MapNeverOutlivesPower
  BY DEF StageInv
<1> QED
  BY <1>1, StageInvariant, PTL

(* Only an interrupt that runs the control step switches the drivers on.   *)
LEMMA OnlyStepsSwitchOn ==
  ASSUME StageInv, [Next]_vars, ~sd, sd'
  PROVE  \E in \in StepInputs, hw \in IsrInputs : IsrStep(in, hw)
<1>1. ~UNCHANGED pinVars
  BY DEF pinVars
<1>2. ~PowerOff
  BY DEF PowerOff
<1>3. CASE Isr
  <2> SUFFICES ASSUME NEW hw \in IsrInputs, IsrLatched(hw) PROVE FALSE
    BY <1>3, InputsNow DEF Isr
  <2> QED
    BY <1>1, <1>2 DEF IsrLatched, FaultLatch
<1> QED
  BY <1>1, <1>2, <1>3
     DEF Next, vars, CounterTop, Supervise, SuperviseRead, SuperviseCheck,
         SuperviseIrqOff, SuperviseOff, StopOff, ReportThread, ThreadIrqOff,
         ThreadOff, FatalEnter, FatalOff, Silence, CorruptPins

(* foc_ctrl.h:59-61 - when the drivers are switched on, the duty that is   *)
(* active and the one in the preload register are the zero vector.         *)
THEOREM StageArmsSilent == Spec => ArmsWithZeroVector
<1> DEFINE A == ~sd /\ sd' => active' = "zero" /\ preload' = "zero"
<1>1. StageInv /\ StageInv' /\ [Next]_vars => [A]_vars
  <2> SUFFICES ASSUME StageInv, StageInv', [Next]_vars, ~sd, sd'
               PROVE  active' = "zero" /\ preload' = "zero"
    OBVIOUS
  <2> PICK in \in StepInputs, hw \in IsrInputs : IsrStep(in, hw)
    BY OnlyStepsSwitchOn
  <2>1. fault' = {} /\ ~powered /\ active' = active
    BY IsrStepOutcome, IsrStepControl DEF StageInv, PoweredMeansArmed
  <2>2. Wanted(in, powered)
    BY <2>1, IsrStepOutcome DEF StageInv
  <2>3. Chosen(in, powered) = "IDLE" /\ idle_n > 0
    BY <2>1, <2>2, ArmingStep, IsrStepControl
  <2>4. active = "zero"
    BY <2>3, IsrStepControl DEF StageInv, Pipeline, IsrEnabled
  <2>5. preload' = "zero"
    <3>1. PICK ident2, map2 : preload' \in VectorAfter(in, powered, ident2, map2)
      BY <2>1, IsrStepOutcome DEF StageInv
    <3> QED
      BY <2>3, <3>1, IdleIsSilent
  <2> QED
    BY <2>1, <2>4, <2>5
<1> QED
  BY <1>1, StageInvariant, PTL DEF Spec, ArmsWithZeroVector

(* pwm_adc.h:145,151 - after a latched fault, a stop or a fatal shutdown   *)
(* no step of anybody switches the drivers on again.                       *)
THEOREM StageFinal == Spec => ShutdownIsFinal
<1>1. StageInv /\ StageInv' /\ [Next]_vars => [fault # {} \/ ~counting => ~sd']_vars
  <2> SUFFICES ASSUME StageInv, [Next]_vars, fault # {} \/ ~counting, sd'
               PROVE  FALSE
    OBVIOUS
  <2>1. ~sd
    BY DEF StageInv, LatchedMeansOff, StopsMasked
  <2> PICK in \in StepInputs, hw \in IsrInputs : IsrStep(in, hw)
    BY <2>1, OnlyStepsSwitchOn
  <2>2. fault = {} /\ IsrEnabled
    BY IsrStepControl
  <2>3. ~dma_irq \/ cpu = "halted"
    BY <2>2 DEF StageInv, StopsMasked
  <2> QED
    BY <2>2, <2>3 DEF IsrEnabled
<1> QED
  BY <1>1, StageInvariant, PTL DEF Spec, ShutdownIsFinal

(* pwm_adc.c:185-189 - the drivers are never switched on while a pin       *)
(* register is wrong.                                                      *)
THEOREM StagePinsChecked == Spec => NeverArmsOnBrokenPins
<1>1. StageInv /\ StageInv' /\ [Next]_vars => [~sd /\ sd' => pins_ok]_vars
  <2> SUFFICES ASSUME StageInv, [Next]_vars, ~sd, sd', ~pins_ok PROVE FALSE
    OBVIOUS
  <2> PICK in \in StepInputs, hw \in IsrInputs : IsrStep(in, hw)
    BY OnlyStepsSwitchOn
  <2>1. fault' = {} /\ ~powered
    BY IsrStepOutcome DEF StageInv, PoweredMeansArmed
  <2>2. Wanted(in, powered)
    BY <2>1, IsrStepOutcome DEF StageInv
  <2>3. \E map2, vec : StepFaults(in, map2, vec) = {}
    BY <2>1 DEF IsrStep
  <2> QED
    BY <2>1, <2>2, <2>3 DEF StepFaults
<1> QED
  BY <1>1, StageInvariant, PTL DEF Spec, NeverArmsOnBrokenPins
=============================================================================

----------------------------- MODULE PowerStage -----------------------------
(***************************************************************************)
(* The power stage of src/pwm_adc.c driven by the control step: the FOC    *)
(* DMA interrupt, the CCR preload pipeline, the fault latch, and the four  *)
(* ways of switching off for good - the latch, pwm_adc_stop() called by    *)
(* the report thread, the 10 ms supervisor, and the fatal-error handler.   *)
(*                                                                         *)
(* Who preempts whom on the single core.  The FOC interrupt is atomic for  *)
(* everything below it, so it is one step.  The timer interrupt preempts   *)
(* the thread, and the FOC interrupt may come between any two of their     *)
(* steps.  A hardware exception blocks all interrupts; a software oops is  *)
(* an SVC, which the zero-latency FOC interrupt still preempts until the   *)
(* handler sets PRIMASK.  The PWM counter never stops for anybody.         *)
(***************************************************************************)
EXTENDS FocControl

CONSTANTS
  OverrunFaultCount, (* PWM_ADC_OVERRUN_FAULT_COUNT, 3                       *)
  GapTops,           (* counter tops that make PWM_ADC_GAP_FAULT_CYCLES, 3   *)
  SuperviseMinIsrs,  (* PWM_ADC_SUPERVISE_MIN_ISRS, 150                      *)
  Commands,          (* the modes the debugger commands in this instance     *)
  Events             (* the external events that happen in this instance     *)

ASSUME StageAssumption ==
  /\ OverrunFaultCount \in Nat \ {0}
  /\ GapTops \in Nat \ {0}
  /\ SuperviseMinIsrs \in Nat \ {0}
  /\ Commands \subseteq Modes \cup {"UNKNOWN"}
  /\ Events \subseteq {"exception", "oops", "silence", "pins", "data", "slow",
                     "tick"}

(* POWER_GUARD_IDLE_PERIODS leaves one counter top between the first idle  *)
(* step and the arming one.                                                *)
ASSUME PipelineAssumption == IdlePeriods >= 2

VARIABLES
  sd,         (* SD1-SD3 high: the gate drivers switch                       *)
  gate,       (* PC0-PC2: "analog" or "af", driving the gate inputs          *)
  moe,        (* TIM1 main output enable                                     *)
  counting,   (* TIM1 counter enabled                                        *)
  active,     (* the vector the timer outputs in this period                 *)
  preload,    (* the vector waiting in the CCR preload registers             *)
  pins_ok,    (* what fixed_pins_safe() would read                           *)
  powered,    (* the atomic flag `powered'                                   *)
  fault,      (* stats.fault                                                 *)
  overruns_in_a_row,
  tops,       (* counter tops since the last interrupt entry, saturating     *)
  have_last_entry,
  dma_irq,    (* the DMA interrupt is enabled                                *)
  adc_alive,  (* the ADC still triggers the DMA interrupt                    *)
  isrs,       (* isr_total - supervise_last_total, saturating                *)
  sup_ran,    (* local `ran' of pwm_adc_supervise()                          *)
  sup_pc,     (* the timer interrupt: "out", "check", "trip" or "off"        *)
  thr_pc,     (* the report thread: "run", "off" or "stopped"                *)
  supervisor_trip,
  cpu         (* "running", "exception", "oops" or "halted"                  *)

pinVars == <<sd, gate, powered>>
timerVars == <<moe, counting, active, preload>>
isrVars == <<fault, overruns_in_a_row, tops, have_last_entry>>
irqVars == <<dma_irq, adc_alive, pins_ok>>
actorVars == <<isrs, sup_ran, sup_pc, thr_pc, supervisor_trip, cpu>>

vars == <<guardVars, ctrlVars, pinVars, timerVars, isrVars, irqVars, actorVars>>

Faults == {"OVERRUN", "DMA_ERROR", "ADC_OVERRUN", "ISR_GAP", "OVERCURRENT",
           "VBUS", "PINS", "NUMERIC", "OVERSPEED"}

Increment(n, limit) == IF n < limit THEN n + 1 ELSE n

(* After pwm_adc_init() succeeded: outputs at 50 %, power stage off.       *)
Init ==
  /\ CtrlInit
  /\ sd = FALSE /\ gate = "analog" /\ powered = FALSE
  /\ moe = TRUE /\ counting = TRUE
  /\ active = "zero" /\ preload = "zero"
  /\ fault = {} /\ overruns_in_a_row = 0
  /\ tops = 0 /\ have_last_entry = FALSE
  /\ dma_irq = TRUE /\ adc_alive = TRUE /\ pins_ok = TRUE
  /\ isrs = 0 /\ sup_ran = 0 /\ sup_pc = "out"
  /\ thr_pc = "run" /\ supervisor_trip = FALSE
  /\ cpu = "running"

-----------------------------------------------------------------------------
(* Pins                                                                    *)

PowerOffFlagKept ==
  sd' = FALSE /\ gate' = "analog" /\ UNCHANGED powered

PowerOffSdKept == UNCHANGED sd /\ gate' = "analog" /\ powered' = FALSE

PowerOff == sd' = FALSE /\ gate' = "analog" /\ powered' = FALSE

PowerOn == sd' = TRUE /\ gate' = "af" /\ powered' = TRUE

(* fault_latch(): off, outputs off, 50 % duty, and foc_ctrl_fault(), which *)
(* aborts an active map.                                                   *)
FaultLatchKeepsMap ==
  /\ PowerOff
  /\ moe' = FALSE
  /\ preload' = "zero"
  /\ UNCHANGED map

FaultLatch ==
  /\ PowerOff
  /\ moe' = FALSE
  /\ preload' = "zero"
  /\ map' = "inactive"

-----------------------------------------------------------------------------
(* The PWM counter reaches its top: the preloaded duties become active and *)
(* the ADC is triggered.  tops saturates; beyond GapTops nothing changes.  *)
CounterTop ==
  /\ counting
  /\ active' = preload
  /\ tops' = Increment(tops, GapTops)
  /\ UNCHANGED <<guardVars, ctrlVars, pinVars, moe, counting, preload, fault,
                 overruns_in_a_row, have_last_entry, irqVars, actorVars>>

-----------------------------------------------------------------------------
(* dma_isr()                                                               *)

IsrInputs ==
  [dma_error : BOOLEAN, overrun : BOOLEAN, slow : BOOLEAN]

IsrInputsNow ==
  {hw \in IsrInputs :
     /\ hw.dma_error \/ hw.overrun => "data" \in Events
     /\ ~(hw.dma_error /\ hw.overrun)
     /\ hw.slow => "slow" \in Events}

IsrEnabled ==
  /\ dma_irq /\ adc_alive /\ tops > 0
  /\ cpu \in {"running", "oops"}

DataFaults(hw) ==
  {r \in {"DMA_ERROR", "ADC_OVERRUN", "ISR_GAP"} :
     \/ r = "DMA_ERROR" /\ hw.dma_error
     \/ r = "ADC_OVERRUN" /\ hw.overrun
     \/ r = "ISR_GAP" /\ have_last_entry /\ powered /\ tops >= GapTops}

(* Overruns in a row after this interrupt; the model stops counting at the *)
(* fault threshold, which every later comparison has reached as well.      *)
InARow(hw) ==
  IF hw.slow THEN Increment(overruns_in_a_row, OverrunFaultCount) ELSE 0

OverrunFault(hw) ==
  {r \in {"OVERRUN"} : hw.slow /\ InARow(hw) >= OverrunFaultCount}

IsrFrame(hw) ==
  /\ overruns_in_a_row' = InARow(hw)
  /\ tops' = 0
  /\ have_last_entry' = TRUE
  /\ isrs' = Increment(isrs, SuperviseMinIsrs)
  /\ UNCHANGED <<counting, active, irqVars, sup_ran, sup_pc, thr_pc,
                 supervisor_trip, cpu>>

(* A latched fault, old or found by this entry, skips the control step.    *)
IsrLatched(hw) ==
  LET new == DataFaults(hw) \cup OverrunFault(hw)
  IN  /\ IsrEnabled
      /\ fault # {} \/ DataFaults(hw) # {}
      /\ fault' = fault \cup new
      /\ IF new # {} THEN FaultLatch
         ELSE UNCHANGED <<pinVars, moe, preload, map>>
      /\ IsrFrame(hw)
      /\ UNCHANGED <<guardVars, cal_n, cal_failed, mode, calib, ident>>

(* What the BSP makes of the command: a trip, an invalid duty, or a pin    *)
(* check that fails when switching on.                                     *)
StepFaults(in, map2, vec) ==
  LET trip == CmdTrip(in, powered, map2)
      bad == in.invalid /\ vec # "zero"
  IN  IF trip # {} THEN trip
      ELSE IF bad THEN {"NUMERIC"}
      ELSE IF Wanted(in, powered) /\ ~powered /\ ~pins_ok THEN {"PINS"}
      ELSE {}

(* set_ccr() and then the requested power transition.                      *)
Apply(in, vec) ==
  /\ preload' = vec
  /\ CASE Wanted(in, powered) /\ ~powered -> PowerOn
       [] ~Wanted(in, powered) /\ powered -> PowerOff
       [] OTHER -> UNCHANGED pinVars

(* An interrupt that runs the control step.                                *)
IsrStep(in, hw) ==
  /\ IsrEnabled
  /\ fault = {} /\ DataFaults(hw) = {}
  /\ \E ident2 \in IdentAfter(in, powered) :
     \E calib2 \in CalibAfter(in, powered, ident2) :
     \E map2 \in MapAfter(in, powered) :
     \E vec \in VectorAfter(in, powered, ident2, map2) :
       LET new == StepFaults(in, map2, vec) \cup OverrunFault(hw)
       IN  /\ FocStep(in, powered, ident2, calib2)
           /\ fault' = new
           /\ IF new # {} THEN FaultLatch
              ELSE Apply(in, vec) /\ map' = map2 /\ UNCHANGED moe
  /\ IsrFrame(hw)

(* Inputs that can matter now: the calibration verdict only at its last    *)
(* sample, and one cause of a latch per step besides the guard's trips.    *)
StepInputsNow ==
  {in \in StepInputs :
     /\ in.cmd_mode \in Commands
     /\ in.cal_bad => cal_n + 1 = CalSamples
     /\ in.overspeed => in.cmd_mode \in CurrentModes \cup {"MAP"}
     /\ ~(in.overspeed /\ in.invalid)}

Isr ==
  \E hw \in IsrInputsNow :
     \/ IsrLatched(hw)
     \/ \E in \in StepInputsNow : IsrStep(in, hw)

-----------------------------------------------------------------------------
(* The last steps of pwm_adc_stop(): power off, outputs and counter off,   *)
(* and the fault callback.                                                 *)
StopOff ==
  /\ PowerOff
  /\ moe' = FALSE /\ counting' = FALSE
  /\ map' = "inactive"
  /\ UNCHANGED <<guardVars, cal_n, cal_failed, mode, calib, ident, active,
                 preload, isrVars, irqVars>>

(* pwm_adc_supervise(), the 10 ms timer interrupt: read the progress, ...  *)
SuperviseRead ==
  /\ "tick" \in Events
  /\ cpu = "running" /\ sup_pc = "out"
  /\ sup_ran' = isrs
  /\ isrs' = 0
  /\ sup_pc' = "check"
  /\ UNCHANGED <<guardVars, ctrlVars, pinVars, timerVars, isrVars, irqVars,
                 thr_pc, supervisor_trip, cpu>>

SuperviseLowOffByOne == powered /\ sup_ran + 1 < SuperviseMinIsrs

(* ... decide on the flag as it is now, ...                                *)
SuperviseLow == powered /\ sup_ran < SuperviseMinIsrs

SuperviseCheck ==
  /\ cpu = "running" /\ sup_pc = "check"
  /\ sup_pc' = IF SuperviseLow THEN "trip" ELSE "out"
  /\ UNCHANGED <<guardVars, ctrlVars, pinVars, timerVars, isrVars, irqVars,
                 isrs, sup_ran, thr_pc, supervisor_trip, cpu>>

(* ... disable the FOC interrupt, which could otherwise switch on again, . *)
IrqDisableForgotten == dma_irq' = dma_irq

IrqDisable == dma_irq' = FALSE

SuperviseIrqOff ==
  /\ cpu = "running" /\ sup_pc = "trip"
  /\ IrqDisable
  /\ sup_pc' = "off"
  /\ UNCHANGED <<guardVars, ctrlVars, pinVars, timerVars, isrVars, adc_alive,
                 pins_ok, isrs, sup_ran, thr_pc, supervisor_trip, cpu>>

(* ... and stop.                                                           *)
SuperviseOff ==
  /\ cpu = "running" /\ sup_pc = "off"
  /\ StopOff
  /\ sup_pc' = "out"
  /\ supervisor_trip' = TRUE
  /\ UNCHANGED <<isrs, sup_ran, thr_pc, cpu>>

-----------------------------------------------------------------------------
(* The report thread found the pins unsafe and calls pwm_adc_stop().  It   *)
(* runs only while the timer interrupt does not.                           *)
ThreadIrqOff ==
  /\ cpu = "running" /\ sup_pc = "out"
  /\ thr_pc = "run" /\ ~pins_ok
  /\ IrqDisable
  /\ thr_pc' = "off"
  /\ UNCHANGED <<guardVars, ctrlVars, pinVars, timerVars, isrVars, adc_alive,
                 pins_ok, isrs, sup_ran, sup_pc, supervisor_trip, cpu>>

ThreadOff ==
  /\ cpu = "running" /\ sup_pc = "out"
  /\ thr_pc = "off"
  /\ StopOff
  /\ thr_pc' = "stopped"
  /\ UNCHANGED <<isrs, sup_ran, sup_pc, supervisor_trip, cpu>>

-----------------------------------------------------------------------------
(* A fatal error in whatever runs: diagnostics of unbounded length, ...    *)
FatalEnter ==
  /\ cpu = "running"
  /\ cpu' \in {"exception", "oops"} \cap Events
  /\ UNCHANGED <<guardVars, ctrlVars, pinVars, timerVars, isrVars, irqVars,
                 isrs, sup_ran, sup_pc, thr_pc, supervisor_trip>>

(* ... then pwm_adc_fatal_off() with PRIMASK set, and the CPU halts.       *)
FatalCpuUnmasked == cpu' = cpu

FatalCpu == cpu' = "halted"

FatalOff ==
  /\ cpu \in {"exception", "oops"}
  /\ PowerOff
  /\ moe' = FALSE /\ counting' = FALSE
  /\ FatalCpu
  /\ UNCHANGED <<guardVars, ctrlVars, active, preload, isrVars, irqVars,
                 isrs, sup_ran, sup_pc, thr_pc, supervisor_trip>>

-----------------------------------------------------------------------------
(* External: the ADC trigger or its DMA stops for good; a pin register is  *)
(* overwritten by something else.                                          *)
Silence ==
  /\ "silence" \in Events
  /\ adc_alive' = FALSE
  /\ UNCHANGED <<guardVars, ctrlVars, pinVars, timerVars, isrVars, dma_irq,
                 pins_ok, actorVars>>

CorruptPins ==
  /\ "pins" \in Events
  /\ pins_ok' = FALSE
  /\ UNCHANGED <<guardVars, ctrlVars, pinVars, timerVars, isrVars, dma_irq,
                 adc_alive, actorVars>>

Supervise == SuperviseRead \/ SuperviseCheck \/ SuperviseIrqOff \/ SuperviseOff
ReportThread == ThreadIrqOff \/ ThreadOff

Next ==
  \/ CounterTop
  \/ Isr
  \/ Supervise
  \/ ReportThread
  \/ FatalEnter
  \/ FatalOff
  \/ Silence
  \/ CorruptPins

Spec == Init /\ [][Next]_vars

(* The hardware and the interrupts run; the thread gets the CPU when the   *)
(* timer interrupt is done; the fatal handler ends its diagnostics.        *)
Fairness ==
  /\ WF_vars(CounterTop)
  /\ WF_vars(Isr)
  /\ WF_vars(Supervise)
  /\ SF_vars(ReportThread)
  /\ WF_vars(FatalOff)

FairSpec == Spec /\ Fairness
-----------------------------------------------------------------------------
(* Type correctness of the whole power stage, group by group.              *)
PinTypeOK == sd \in BOOLEAN /\ gate \in {"analog", "af"} /\ powered \in BOOLEAN

TimerTypeOK ==
  /\ moe \in BOOLEAN /\ counting \in BOOLEAN
  /\ active \in Vectors /\ preload \in Vectors

IsrTypeOK ==
  /\ fault \subseteq Faults
  /\ overruns_in_a_row \in 0..OverrunFaultCount
  /\ tops \in 0..GapTops /\ have_last_entry \in BOOLEAN

IrqTypeOK == dma_irq \in BOOLEAN /\ adc_alive \in BOOLEAN /\ pins_ok \in BOOLEAN

ActorTypeOK ==
  /\ isrs \in 0..SuperviseMinIsrs /\ sup_ran \in 0..SuperviseMinIsrs
  /\ sup_pc \in {"out", "check", "trip", "off"}
  /\ thr_pc \in {"run", "off", "stopped"}
  /\ supervisor_trip \in BOOLEAN
  /\ cpu \in {"running", "exception", "oops", "halted"}

TypeOK ==
  /\ CtrlTypeOK
  /\ PinTypeOK
  /\ TimerTypeOK
  /\ IsrTypeOK
  /\ IrqTypeOK
  /\ ActorTypeOK

(* power_guard.h:44 - the vector the timer outputs while the gate drivers  *)
(* switch is the zero vector or one bounded by POWER_GUARD_V_MAX: a duty   *)
(* computed without the cap before the stage came on never reaches the     *)
(* motor through the preload register.                                     *)
OnlyBoundedVectorDrives == sd => active \in {"zero", "capped"}

(* foc_ctrl.h:59-61 - when the gate drivers are switched on, the active    *)
(* duty and the preloaded one are both the zero vector.                    *)
ArmsWithZeroVector ==
  [][~sd /\ sd' => active' = "zero" /\ preload' = "zero"]_vars

(* pwm_adc.h:116 - a latched fault means drivers off, gate inputs analog   *)
(* and outputs disabled, as seen by everyone outside the interrupt.        *)
LatchedMeansOff ==
  fault # {} => ~sd /\ gate = "analog" /\ ~moe /\ ~powered

(* pwm_adc.h:145,151 - a latched fault, pwm_adc_stop() and the fatal       *)
(* shutdown (both stop the counter) are final: no later step of anybody,   *)
(* a pending FOC interrupt included, switches the drivers on again.        *)
ShutdownIsFinal == [][fault # {} \/ ~counting => ~sd']_vars

(* pwm_adc.c:185-189 - the drivers are never switched on while a pin       *)
(* register is wrong, whenever it was corrupted.                           *)
NeverArmsOnBrokenPins == [][~sd /\ sd' => pins_ok]_vars

(* What a thread or the timer may rely on when it reads `powered': the     *)
(* flag, the SD pins and the gate inputs agree, and a powered stage was    *)
(* calibrated and is still requested.                                      *)
PoweredMeansArmed ==
  /\ powered = sd
  /\ (gate = "af") = sd
  /\ sd => Calibrated /\ request

(* foc_ctrl.h:31-33 - while the drivers are on, the last step never ran    *)
(* VOLTAGE, and ran CURRENT or SPEED only with a plausible identification, *)
(* whatever sequence of commands and identifications led there.            *)
PoweredModePermitted ==
  sd => /\ mode # "VOLTAGE"
        /\ mode \in CurrentModes => calib = "plausible"

(* foc_ctrl.c:813 - no map is left running by a fault or a stop: outside a *)
(* fatal halt, a running map means a powered stage.                        *)
MapNeverOutlivesPower == map # "inactive" => sd \/ cpu = "halted"

(* foc_ctrl.h:28-30, pwm_adc.h:122 - the same claim for an identification: *)
(* a fault ends it with a terminal result.                                 *)
IdentNeverOutlivesFault == fault # {} => ident # "running"

(* stage8 fatal-off - from any fatal error the drivers end up off for      *)
(* good, even when the FOC interrupt preempts the handler.                 *)
FatalSwitchesOff == cpu \in {"exception", "oops"} ~> [](~sd)

(* pwm_adc.h:156-160 - when the FOC interrupt stops coming, the drivers    *)
(* end up off for good although no control step will ask for it.           *)
SilenceSwitchesOff == ~adc_alive ~> [](~sd)

(* pwm_adc.h:132-136, main.c:376 - once a pin register is corrupted, the   *)
(* drivers end up off for good.                                            *)
BrokenPinsSwitchOff == ~pins_ok ~> [](~sd)
=============================================================================

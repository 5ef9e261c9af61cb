----------------------------- MODULE ReportLoop -----------------------------
(***************************************************************************)
(* The report thread of src/main.c from reset to its end: it brings the    *)
(* BSP up (pwm_adc_init() of src/pwm_adc.c, with every error return), then *)
(* goes round: crash hook, pin check, snapshot of the control step,        *)
(* statistics, dumps.  The FOC interrupt, the supervising timer and        *)
(* whatever overwrites a register come between any two of its steps.       *)
(*                                                                         *)
(* Composes PinCheck (the check, read by read) and StatsWindow (the        *)
(* statistics, word by word): both belong to this one thread, and one      *)
(* interrupt moves the state of both.                                      *)
(*                                                                         *)
(* Abstraction: a word of the snapshot is the control step that wrote it;  *)
(* a dump is one step, the exchange modules have its hand-over; waiting,   *)
(* cadences and log lines are left out, so the thread may be as slow or as *)
(* fast as it likes.                                                       *)
(***************************************************************************)
EXTENDS PinCheck, StatsWindow

CONSTANTS
  SnapWords,    (* words of the snapshot                                   *)
  ReportEvery   (* REPORT_EVERY, 10: rounds per report of the statistics   *)

ASSUME LoopAssumption == SnapWords \in Nat \ {0} /\ ReportEvery \in Nat \ {0}

VARIABLES
  at,           (* where the thread is                                     *)
  control_ready,(* foc_ctrl_init() ran                                     *)
  handlers,     (* step_fn and fault_fn are set                            *)
  dma_on,       (* ADC2 and DMA2 are set up                                *)
  irq_enabled,  (* irq_enable(DMA2_Channel1_IRQn)                          *)
  moe,          (* TIM1 main output enable                                 *)
  counter_on,   (* TIM1 counts, so the ADC is triggered                    *)
  supervised,   (* supervise_timer runs                                    *)
  latched,      (* stats.fault # 0                                         *)
  snap,         (* the control step in the snapshot                        *)
  fc,           (* the thread's copy of the snapshot                       *)
  snap_copied, snap_before,  (* locals of foc_ctrl_snapshot()              *)
  round,        (* n % REPORT_EVERY                                        *)
  passed        (* history: what was set up when a check called the pins   *)
                (* safe, until the counter runs                            *)

boot == <<control_ready, handlers, dma_on, irq_enabled, supervised>>
timer == <<moe, counter_on>>
snapCopy == <<fc, snap_copied, snap_before>>
step == <<latched, snap>>
loopVars == <<vars, pinVars, at, boot, timer, step, snapCopy, round, passed>>

LoopInit ==
  /\ PinInit /\ Init
  /\ at = "encoder_init"
  /\ control_ready = FALSE /\ handlers = FALSE /\ dma_on = FALSE
  /\ irq_enabled = FALSE /\ supervised = FALSE
  /\ moe = FALSE /\ counter_on = FALSE
  /\ latched = FALSE /\ snap = 0
  /\ fc = [w \in 1..SnapWords |-> 0] /\ snap_copied = 0 /\ snap_before = 0
  /\ round = 0 /\ passed = {}

Goes(from, to) == at = from /\ at' \in to

-----------------------------------------------------------------------------
(* The FOC interrupt: it comes once the DMA moves what the counter         *)
(* triggered, and pwm_adc_stop() has not masked it.                        *)
Triggered == counter_on /\ dma_on /\ irq_enabled

(* An entry either runs the control step, which moves the stage and writes *)
(* the snapshot, or latches a fault, or finds one latched.                 *)
ControlStep ==
  /\ ~latched
  /\ PowerOn \/ (powered /\ PowerOff) \/ StayOff \/ StayOn
  /\ snap' = isr_total'
  /\ UNCHANGED <<latched, moe>>

(* The step may have run and tripped (snapshot written), or not at all.    *)
FaultLatch ==
  /\ PowerOff
  /\ latched' = TRUE /\ moe' = FALSE
  /\ snap' \in (IF latched THEN {snap} ELSE {snap, isr_total'})

Latched == latched /\ UNCHANGED <<pinVars, step, moe>>

Interrupt ==
  /\ Triggered /\ Isr
  /\ ControlStep \/ FaultLatch \/ Latched
  /\ UNCHANGED <<at, boot, counter_on, snapCopy, round>>

-----------------------------------------------------------------------------
(* pwm_adc_stop() after its irq_disable().                                 *)
Off ==
  /\ PowerOff
  /\ moe' = FALSE /\ counter_on' = FALSE

(* The supervising timer interrupt stops the stage; the thread sees it     *)
(* done.  PowerStage says when it does, and checks every step of it.       *)
Supervise ==
  /\ supervised /\ powered /\ Stop /\ Off
  /\ UNCHANGED <<at, boot, step, snapCopy, round>>

Overwrite ==
  /\ Corrupt
  /\ UNCHANGED <<vars, at, boot, timer, step, snapCopy, round>>

-----------------------------------------------------------------------------
(* From reset to the first interrupt.  A set-up function that fails ends   *)
(* the thread.                                                             *)
OrFail(next) == {next, "returned"}

quiet == <<vars, pinVars, timer, step, snapCopy, round>>

(* encoder_init() fails: main() creates no report thread.                  *)
EncoderInit ==
  /\ Goes("encoder_init", OrFail("foc_ctrl_init"))
  /\ UNCHANGED <<quiet, boot>>

FocCtrlInit ==
  /\ Goes("foc_ctrl_init", {"clocks_on"})
  /\ control_ready' = TRUE
  /\ UNCHANGED <<quiet, handlers, dma_on, irq_enabled, supervised>>

(* pwm_adc_init() stores its callbacks, then switches the clocks on.       *)
ClocksOn ==
  /\ Goes("clocks_on", OrFail("tim1_setup"))
  /\ handlers' = TRUE
  /\ UNCHANGED <<quiet, control_ready, dma_on, irq_enabled, supervised>>

(* The timer as the set-up leaves it: counter stopped, CCER 0, MOE 0.      *)
Tim1Setup ==
  /\ Goes("tim1_setup", {"check_before"})
  /\ moe' = FALSE /\ counter_on' = FALSE
  /\ UNCHANGED <<vars, pinVars, boot, step, snapCopy, round>>

(* probe_pins_setup() and adc2_setup(), whose two loops may time out.      *)
Adc2Setup ==
  /\ Goes("adc2_setup", OrFail("dma2_setup"))
  /\ UNCHANGED <<quiet, boot>>

(* dma2_setup(), stats_reset_locked(), irq_enable(), the ADC armed.        *)
Dma2SetupUnchecked ==
  /\ Goes("dma2_setup", {"start"})
  /\ dma_on' = TRUE /\ irq_enabled' = TRUE
  /\ UNCHANGED <<quiet, control_ready, handlers, supervised>>

Dma2Setup ==
  /\ Goes("dma2_setup", {"check_after"})
  /\ dma_on' = TRUE /\ irq_enabled' = TRUE
  /\ UNCHANGED <<quiet, control_ready, handlers, supervised>>

(* The last two writes of pwm_adc_init(): the counter runs.                *)
StartCounter ==
  /\ Goes("start", {"timer_start"})
  /\ moe' = TRUE /\ counter_on' = TRUE
  /\ UNCHANGED <<vars, pinVars, boot, step, snapCopy, round>>

TimerStart ==
  /\ Goes("timer_start", {"stats"})
  /\ supervised' = TRUE
  /\ UNCHANGED <<quiet, control_ready, handlers, dma_on, irq_enabled>>

Boot ==
  \/ EncoderInit \/ FocCtrlInit \/ ClocksOn \/ Tim1Setup
  \/ Adc2Setup \/ Dma2Setup \/ StartCounter \/ TimerStart

-----------------------------------------------------------------------------
(* The pin check of the two places of pwm_adc_init() and of every round.   *)
(* Before the pins are set up a broken one only fails pwm_adc_init().      *)
AfterCheck(place) ==
  CASE place = "check_before" -> [safe |-> "adc2_setup", unsafe |-> "returned"]
    [] place = "check_after" -> [safe |-> "start", unsafe |-> "stop"]
    [] place = "check" -> [safe |-> "snapshot", unsafe |-> "stop"]

CheckPins ==
  /\ at \in {"check_before", "check_after", "check"}
  /\ CheckRead
  /\ at' = IF reading = "after" /\ verdict' # "none"
           THEN AfterCheck(at)[verdict'] ELSE at
  /\ UNCHANGED <<vars, boot, timer, step, snapCopy, round>>

StopUnmasked ==
  /\ Goes("stop", {"stop_off"})
  /\ UNCHANGED <<quiet, boot>>

(* pwm_adc_stop(), called by the thread: first the interrupt is masked.    *)
StopMask ==
  /\ Goes("stop", {"stop_off"})
  /\ isr_on' = FALSE
  /\ UNCHANGED <<isr_total, start, seq, reset_req, threadVars>>
  /\ UNCHANGED <<pinVars, boot, timer, step, snapCopy, round>>

StopOff ==
  /\ Goes("stop_off", {"returned"})
  /\ Off
  /\ UNCHANGED <<vars, boot, step, snapCopy, round>>

(* The crash hook: an SVC oops, and k_sys_fatal_error_handler() masks all  *)
(* interrupts and switches off.                                            *)
Crash ==
  /\ Goes("wake", {"halted"})
  /\ isr_on' = FALSE
  /\ Off
  /\ UNCHANGED <<isr_total, start, seq, reset_req, threadVars>>
  /\ UNCHANGED <<boot, step, snapCopy, round>>

Wake ==
  /\ Goes("wake", {"check"})
  /\ round' = (round + 1) % ReportEvery
  /\ UNCHANGED <<vars, pinVars, boot, timer, step, snapCopy>>

-----------------------------------------------------------------------------
(* foc_ctrl_snapshot(): the interrupt is atomic for the thread, so both    *)
(* increments of snap_seq are one and it counts the control steps.         *)
SnapSeq == 2 * snap

SnapMore == snap_copied < SnapWords

SnapRetryNever == FALSE

SnapRetry == snap_before % 2 # 0 \/ SnapSeq # snap_before

SnapBegin ==
  /\ Goes("snapshot", {"snapshot_copy"})
  /\ snap_before' = SnapSeq /\ snap_copied' = 0
  /\ UNCHANGED <<vars, pinVars, boot, timer, step, round, fc>>

SnapCopyWord ==
  /\ Goes("snapshot_copy", {at}) /\ SnapMore
  /\ fc' = [fc EXCEPT ![snap_copied + 1] = snap]
  /\ snap_copied' = snap_copied + 1
  /\ UNCHANGED <<vars, pinVars, boot, timer, step, round, snap_before>>

SnapCheck ==
  /\ at = "snapshot_copy" /\ ~SnapMore
  /\ at' = IF SnapRetry THEN "snapshot" ELSE "snapshot_taken"
  /\ UNCHANGED <<quiet, boot>>

(* Once the telemetry is printed: report_speed() takes another snapshot    *)
(* when it is due, then the statistics every ReportEvery rounds.           *)
Telemetry ==
  /\ Goes("snapshot_taken",
          {"snapshot", IF round = 0 THEN "stats" ELSE "dumps"})
  /\ UNCHANGED <<quiet, boot>>

(* pwm_adc_stats_take(): once to drop the start-up window, then for the    *)
(* report.                                                                 *)
TakeStats ==
  /\ at = "stats"
  /\ ReadSeq \/ CopyWord \/ Check \/ Request
  /\ at' = IF pc = "taken" THEN "dumps" ELSE "stats"
  /\ UNCHANGED <<pinVars, boot, timer, step, snapCopy, round>>

(* A capture, an identification or a map is printed, with more snapshots   *)
(* for report_speed(), or nothing is waiting; the round ends.              *)
Dumps ==
  /\ Goes("dumps", {"snapshot", "wake"})
  /\ UNCHANGED <<quiet, boot>>

Thread ==
  \/ Boot \/ CheckPins \/ StopMask \/ StopOff \/ Crash \/ Wake
  \/ SnapBegin \/ SnapCopyWord \/ SnapCheck \/ Telemetry \/ TakeStats \/ Dumps

(* The history of the checks that pwm_adc_init() makes.                    *)
Passes == reading = "after" /\ reading' = "before" /\ verdict' = "safe"

Record ==
  passed' = IF Passes /\ ~counter_on
            THEN passed \cup {IF dma_on THEN "adc armed" ELSE "timer"}
            ELSE passed

LoopNext ==
  /\ Interrupt \/ Supervise \/ Overwrite \/ Thread
  /\ Record

LoopSpec == LoopInit /\ [][LoopNext]_loopVars

-----------------------------------------------------------------------------
(* Type correctness of the loop.                                           *)
LoopTypeOK ==
  /\ PinTypeOK /\ TypeOK
  /\ at \in {"encoder_init", "foc_ctrl_init", "clocks_on", "tim1_setup",
             "check_before", "adc2_setup", "dma2_setup", "check_after",
             "start", "timer_start", "wake", "check", "snapshot",
             "snapshot_copy", "snapshot_taken", "stats", "dumps",
             "stop", "stop_off", "returned", "halted"}
  /\ <<control_ready, handlers, dma_on, irq_enabled, supervised>>
       \in BOOLEAN \X BOOLEAN \X BOOLEAN \X BOOLEAN \X BOOLEAN
  /\ moe \in BOOLEAN /\ counter_on \in BOOLEAN /\ latched \in BOOLEAN
  /\ snap \in 0..MaxIsrs /\ fc \in [1..SnapWords -> 0..MaxIsrs]
  /\ snap_copied \in 0..SnapWords /\ snap_before \in 0..2 * MaxIsrs
  /\ round \in 0..ReportEvery - 1 /\ passed \subseteq {"timer", "adc armed"}

(* foc_ctrl.h:219 - "Consistent copy of the latest step": a snapshot the   *)
(* thread goes on to print is of one control step, however often the       *)
(* interrupt came between its words, also when a fault latched meanwhile   *)
(* ends the steps.                                                         *)
SnapshotIsOneStep ==
  at = "snapshot_taken" => \A v, w \in 1..SnapWords : fc[v] = fc[w]

(* pwm_adc.h:122-129, 160-164, foc_ctrl.h:216 - the interrupt is enabled   *)
(* only after a check has called the pins safe with the timer set up; the  *)
(* counter runs, and so an interrupt or power comes, only after the        *)
(* control state, the callbacks and the DMA, and after a second check has  *)
(* called them safe with the interrupt enabled and the ADC armed.          *)
(* Whichever way the thread ends (a set-up step fails, pins are broken,    *)
(* the crash hook), the stage is off and the timer is stopped for good,    *)
(* although the interrupt could switch it on until it was masked.          *)
StartsReadyEndsOff ==
  /\ dma_on \/ irq_enabled => "timer" \in passed
  /\ counter_on \/ isr_total > 0 \/ powered
       => control_ready /\ handlers /\ dma_on /\ "adc armed" \in passed
  /\ at \in {"returned", "halted"} => /\ ~powered /\ ~moe /\ ~counter_on
                                      /\ ~(irq_enabled /\ isr_on)
=============================================================================

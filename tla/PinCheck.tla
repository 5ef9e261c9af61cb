------------------------------ MODULE PinCheck ------------------------------
(***************************************************************************)
(* The check of the power-stage pins (pwm_adc_outputs_safe() of            *)
(* src/pwm_adc.c), one register read per step.  The FOC interrupt may      *)
(* switch the stage between any two of them, and the log thread may keep   *)
(* the report thread waiting for many PWM periods.  ReportLoop says when   *)
(* the thread checks and what it does with the verdict; PowerStage takes   *)
(* the whole check for one step.                                           *)
(***************************************************************************)
EXTENDS Integers

CONSTANTS
  IdlePeriods,    (* POWER_GUARD_IDLE_PERIODS, 20                          *)
  Attempts,       (* attempts of one check, 3 in the code                  *)
  MaxCorruptions  (* bound of the model: registers overwritten             *)

ASSUME CheckAssumption ==
  /\ IdlePeriods \in Nat /\ Attempts \in Nat \ {0} /\ MaxCorruptions \in Nat

VARIABLES
  powered,      (* the atomic flag                                         *)
  gate,         (* PC0-PC2: "analog" or "af"                               *)
  sd,           (* any of SD1-SD3 is high                                  *)
  fixed,        (* what fixed_pins_safe() reads                            *)
  idle_n,       (* idle steps since the stage went off, saturating         *)
  corruptions,  (* registers overwritten so far                            *)
  reading,      (* the next read of the check                              *)
  attempt, power_before, gate_moder, fixed_safe, sd_low,  (* its locals    *)
  verdict,      (* the latest result: "none", "safe" or "unsafe"           *)
  was_safe,     (* history: the pins were right at a moment of the attempt *)
  changes,      (* history: power transitions in the attempt, up to 2      *)
  began         (* history: corruptions when the attempt began             *)

pins == <<powered, gate, sd, fixed>>
locals == <<reading, attempt, power_before, gate_moder, fixed_safe, sd_low,
            verdict>>
history == <<was_safe, changes, began>>
pinVars == <<pins, idle_n, corruptions, locals, history>>

Increment(n, limit) == IF n < limit THEN n + 1 ELSE n

(* The invariant of pwm_adc.h:132-135.                                     *)
PinsRight ==
  /\ fixed
  /\ IF powered THEN gate = "af" ELSE gate = "analog" /\ ~sd

PinInit ==
  /\ powered = FALSE /\ gate = "analog" /\ sd = FALSE /\ fixed = TRUE
  /\ idle_n = 0 /\ corruptions = 0
  /\ reading = "before" /\ attempt = 1
  /\ power_before = FALSE /\ gate_moder = "analog" /\ fixed_safe = FALSE
  /\ sd_low = FALSE /\ verdict = "none"
  /\ was_safe = TRUE /\ changes = 0 /\ began = 0

Observe == was_safe' = (was_safe \/ PinsRight')

-----------------------------------------------------------------------------
(* The FOC interrupt.  Off to on takes IdlePeriods idle steps and the      *)
(* fixed pins; everything that switches off ends in power_off().           *)
PowerOn ==
  /\ ~powered /\ idle_n = IdlePeriods /\ fixed
  /\ powered' = TRUE /\ gate' = "af" /\ sd' = TRUE
  /\ idle_n' = 0
  /\ changes' = Increment(changes, 2)
  /\ UNCHANGED <<fixed, corruptions, locals, began>>
  /\ Observe

PowerOff ==
  /\ powered' = FALSE /\ gate' = "analog" /\ sd' = FALSE
  /\ idle_n' = 0
  /\ changes' = IF powered THEN Increment(changes, 2) ELSE changes
  /\ UNCHANGED <<fixed, corruptions, locals, began>>
  /\ Observe

StayOff ==
  /\ ~powered
  /\ idle_n' \in {0, Increment(idle_n, IdlePeriods)}
  /\ UNCHANGED <<pins, corruptions, locals, history>>

StayOn == powered /\ UNCHANGED pinVars

(* External: something else overwrites a register.                         *)
Corrupt ==
  /\ corruptions < MaxCorruptions
  /\ corruptions' = corruptions + 1
  /\ \/ fixed' = FALSE /\ UNCHANGED <<gate, sd>>
     \/ gate' = "af" /\ ~powered /\ UNCHANGED <<fixed, sd>>
     \/ gate' = "analog" /\ powered /\ UNCHANGED <<fixed, sd>>
     \/ sd' = TRUE /\ ~powered /\ UNCHANGED <<fixed, gate>>
  /\ UNCHANGED <<powered, idle_n, locals, changes, began>>
  /\ Observe

-----------------------------------------------------------------------------
(* pwm_adc_outputs_safe()                                                  *)
Reads(from, to) ==
  /\ reading = from /\ reading' = to
  /\ UNCHANGED <<pins, idle_n, corruptions>>

(* A retry goes on counting; a new check starts at its first attempt.      *)
ReadBefore ==
  /\ Reads("before", "gate")
  /\ power_before' = powered
  /\ attempt' = IF verdict = "none" THEN attempt ELSE 1
  /\ was_safe' = PinsRight
  /\ changes' = 0
  /\ began' = corruptions
  /\ verdict' = "none"
  /\ UNCHANGED <<gate_moder, fixed_safe, sd_low>>

ReadGate ==
  /\ Reads("gate", "fixed")
  /\ gate_moder' = gate
  /\ UNCHANGED <<attempt, power_before, fixed_safe, sd_low, verdict, history>>

ReadFixed ==
  /\ Reads("fixed", "sd")
  /\ fixed_safe' = fixed
  /\ UNCHANGED <<attempt, power_before, gate_moder, sd_low, verdict, history>>

ReadSd ==
  /\ Reads("sd", "after")
  /\ sd_low' = ~sd
  /\ UNCHANGED <<attempt, power_before, gate_moder, fixed_safe, verdict, history>>

ChangeIgnored == FALSE

Changed == powered # power_before

ReadingsRight ==
  fixed_safe /\ (IF power_before THEN gate_moder = "af"
                                 ELSE gate_moder = "analog" /\ sd_low)

MayRetry == attempt < Attempts

ReadAfter ==
  /\ Reads("after", "before")
  /\ verdict' = CASE ~Changed -> (IF ReadingsRight THEN "safe" ELSE "unsafe")
                  [] Changed /\ ~MayRetry -> "unsafe"
                  [] OTHER -> "none"
  /\ attempt' = IF Changed /\ MayRetry THEN attempt + 1 ELSE attempt
  /\ UNCHANGED <<power_before, gate_moder, fixed_safe, sd_low, history>>

CheckRead == ReadBefore \/ ReadGate \/ ReadFixed \/ ReadSd \/ ReadAfter

-----------------------------------------------------------------------------
(* Type correctness of the pins and of the check.                          *)
PinTypeOK ==
  /\ powered \in BOOLEAN /\ gate \in {"analog", "af"}
  /\ sd \in BOOLEAN /\ fixed \in BOOLEAN
  /\ idle_n \in 0..IdlePeriods /\ corruptions \in 0..MaxCorruptions
  /\ reading \in {"before", "gate", "fixed", "sd", "after"}
  /\ attempt \in 1..Attempts
  /\ power_before \in BOOLEAN /\ gate_moder \in {"analog", "af"}
  /\ fixed_safe \in BOOLEAN /\ sd_low \in BOOLEAN
  /\ verdict \in {"none", "safe", "unsafe"}
  /\ was_safe \in BOOLEAN /\ changes \in 0..2 /\ began \in 0..corruptions

(* pwm_adc.h:132-137 - a break is found, and an alarm has a cause.  Pins   *)
(* reported safe were right, all at once, at a moment of the attempt that  *)
(* reported them, although they were read one after the other while the    *)
(* interrupt switched the stage; only a register overwritten during the    *)
(* attempt on top of an earlier one escapes.  Pins reported broken had a   *)
(* register overwritten, or the last attempt met two transitions, or a     *)
(* transition in every one.                                                *)
VerdictIsRight ==
  /\ verdict = "safe" => was_safe \/ (began > 0 /\ corruptions > began)
  /\ verdict = "unsafe" => \/ corruptions > 0
                           \/ changes = 2
                           \/ attempt = Attempts /\ changes > 0
=============================================================================

----------------------------- MODULE FocControl -----------------------------
(***************************************************************************)
(* The control step of src/foc_ctrl.c as far as the power stage can tell:  *)
(* the offset calibration, the arbitration of the commanded mode, the      *)
(* per-mode rule that bounds the voltage vector, and the power guard.      *)
(*                                                                         *)
(* foc_ctrl_step() runs inside the FOC interrupt, so it is a set of        *)
(* operators over the state below, used as one step by module PowerStage.  *)
(* `in' is what the step reads: the debugger's command block, the sampled  *)
(* currents and VBUS, and what the arithmetic finds; `on' is               *)
(* sample->power_on, the stage state when the interrupt began.             *)
(*                                                                         *)
(* Data abstraction.  A voltage vector is "zero" (50 % duty), "capped"     *)
(* (bounded by POWER_GUARD_V_MAX for the VBUS just sampled) or "free".     *)
(* The identification and the cogging map are the coarse phases the step   *)
(* tests; modules of their own detail them.                                *)
(***************************************************************************)
EXTENDS PowerGuard

CONSTANTS
  CalSamples   (* FOC_CTRL_CAL_SAMPLES, 4096 in the code *)

ASSUME CalAssumption == CalSamples \in Nat

VARIABLES
  cal_n,       (* offset samples taken so far                              *)
  cal_failed,  (* the offsets were implausible; sticky until reset         *)
  mode,        (* the mode that ran in the previous step                   *)
  calib,       (* identified R, L: "none", "implausible" or "plausible"    *)
  ident,       (* identification: "idle", "running", "done", "failed"      *)
  map          (* "inactive", "gain" (voltage sweep), "sweep" (current)    *)

ctrlVars == <<cal_n, cal_failed, mode, calib, ident, map>>

CurrentModes == {"CURRENT", "SPEED"}
Modes == {"IDLE", "DC", "STEP", "OPENLOOP", "VOLTAGE", "IDENT", "MAP"}
           \cup CurrentModes

Vectors == {"zero", "capped", "free"}

(* cmd_mode "UNKNOWN" stands for every value that is no foc_mode_t.        *)
StepInputs ==
  [cmd_mode : Modes \cup {"UNKNOWN"}, arm_key : BOOLEAN,
   current : Currents, vbus : Voltages,
   cal_bad : BOOLEAN,     (* the finished offset calibration is implausible *)
   overspeed : BOOLEAN,   (* |trip_counts| is above the limit               *)
   invalid : BOOLEAN]     (* a duty of a nonzero vector is not in [0, 1]    *)

CtrlInit ==
  /\ PowerGuardReset
  /\ cal_n = 0
  /\ cal_failed = FALSE
  /\ mode = "IDLE"
  /\ calib = "none"
  /\ ident = "idle"
  /\ map = "inactive"

-----------------------------------------------------------------------------
(* calibrate() runs after `calibrated' was evaluated for this step, so the *)
(* last offset sample still counts as uncalibrated.                        *)
Calibrated == cal_n >= CalSamples /\ ~cal_failed

Calibrate(in) ==
  IF cal_n < CalSamples
  THEN /\ cal_n' = cal_n + 1
       /\ cal_failed' = (cal_n + 1 = CalSamples /\ in.cal_bad)
  ELSE UNCHANGED <<cal_n, cal_failed>>

(* On now, or requested in the previous step.                              *)
Powered(on) == on \/ request

ForbiddenAllowsCurrent(m) == m = "VOLTAGE"

Forbidden(m) == m = "VOLTAGE" \/ (m \in CurrentModes /\ calib # "plausible")

(* mode_allowed(): MAP bypasses it, and before calibration it is not run.  *)
Refused(in, on) ==
  /\ in.cmd_mode # "MAP"
  /\ Calibrated
  /\ in.cmd_mode \notin Modes \/ (Powered(on) /\ Forbidden(in.cmd_mode))

Chosen(in, on) ==
  IF in.cmd_mode = "MAP" THEN "MAP"
  ELSE IF Calibrated /\ ~Refused(in, on) THEN in.cmd_mode
  ELSE "IDLE"

Entered(in, on) == Chosen(in, on) # mode

GuardIn(in, on) ==
  [current |-> in.current, vbus |-> in.vbus, calibrated |-> Calibrated,
   arm_key |-> in.arm_key,
   idle |-> Chosen(in, on) = "IDLE" /\ ~Refused(in, on),
   power_on |-> on]

(* gout.power_on and gout.trip of this step.                               *)
Wanted(in, on) == Request(GuardIn(in, on))
Trips(in, on) == Trip(GuardIn(in, on))

-----------------------------------------------------------------------------
(* Identification after mode_enter() and motor_ident_step(): entry starts  *)
(* it, leaving the mode aborts it, and it runs only while the stage is on  *)
(* and stays requested.                                                    *)
IdentAfter(in, on) ==
  LET entering == Entered(in, on) /\ Chosen(in, on) = "IDENT"
      running == entering \/ ident = "running"
  IN  IF ~running THEN {ident}
      ELSE IF Chosen(in, on) # "IDENT" THEN {"failed"}
      ELSE IF on /\ Wanted(in, on) THEN {"running", "done", "failed"}
      ELSE {"failed"}

(* Entering IDENT forgets the previous calibration; a completed run        *)
(* installs its own, plausible for the current loop or not.                *)
CalibAfter(in, on, ident2) ==
  LET entering == Entered(in, on) /\ Chosen(in, on) = "IDENT"
  IN  IF Chosen(in, on) = "IDENT" /\ ident2 = "done" /\ (entering \/ calib = "none")
      THEN {"implausible", "plausible"}
      ELSE IF entering THEN {"none"} ELSE {calib}

(* The map after mode_enter() and cog_map_step().  Whether a start is      *)
(* accepted also depends on the buffer and on V0 (module MapExchange), so  *)
(* entering MAP may leave it inactive.                                     *)
MapAfter(in, on) ==
  LET started == IF Entered(in, on)
                 THEN IF on /\ Calibrated /\ calib = "plausible"
                      THEN {"inactive", "gain"} ELSE {"inactive"}
                 ELSE {map}
      goesOn == Trips(in, on) = {} /\ in.arm_key /\ on /\ Wanted(in, on)
  IN  IF Chosen(in, on) # "MAP" \/ ~goesOn THEN {"inactive"}
      ELSE {"inactive"} \cup started
             \cup (IF map = "gain" THEN {"sweep"} ELSE {})

(* mapping_current || mode CURRENT || mode SPEED                           *)
CurrentLoop(in, on, map2) ==
  map2 = "sweep" \/ Chosen(in, on) \in CurrentModes

Silent(in, on, ident2, map2) ==
  \/ Chosen(in, on) = "IDLE"
  \/ Chosen(in, on) = "IDENT" /\ ident2 # "running"
  \/ Chosen(in, on) = "MAP" /\ map2 = "inactive"

(* The current loop is limited when powered; the voltage modes are capped  *)
(* when powered or about to be.                                            *)
LimitOnlyVoltage(in, on, map2) ==
  IF ~CurrentLoop(in, on, map2) /\ (Powered(on) \/ Wanted(in, on))
  THEN "capped" ELSE "free"

Limit(in, on, map2) ==
  IF \/ Powered(on)
     \/ ~CurrentLoop(in, on, map2) /\ Wanted(in, on)
  THEN "capped" ELSE "free"

VectorAfter(in, on, ident2, map2) ==
  IF Silent(in, on, ident2, map2) THEN {"zero"}
  ELSE {"zero", Limit(in, on, map2)}

(* cmd->trip, as the fault reasons the BSP latches.                        *)
CmdTrip(in, on, map2) ==
  Trips(in, on) \cup
    {r \in {"OVERSPEED"} :
       in.overspeed /\ Powered(on) /\ CurrentLoop(in, on, map2)}

(* foc_ctrl_step(), with the outcomes of the identification and of the map *)
(* given; the map itself is assigned by the caller, which may abort it.    *)
FocStep(in, on, ident2, calib2) ==
  /\ Calibrate(in)
  /\ mode' = Chosen(in, on)
  /\ PowerGuardStep(GuardIn(in, on))
  /\ ident' = ident2
  /\ calib' = calib2

CtrlTypeOK ==
  /\ GuardTypeOK
  /\ cal_n \in 0..CalSamples
  /\ cal_failed \in BOOLEAN
  /\ mode \in Modes
  /\ calib \in {"none", "implausible", "plausible"}
  /\ ident \in {"idle", "running", "done", "failed"}
  /\ map \in {"inactive", "gain", "sweep"}
=============================================================================

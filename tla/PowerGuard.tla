----------------------------- MODULE PowerGuard -----------------------------
(***************************************************************************)
(* The power-stage policy of src/power_guard.c: when the gate drivers may  *)
(* be switched on and when they must trip off.  The module has the state   *)
(* of power_guard_t and one operation, PowerGuardStep, which the FOC step  *)
(* calls once per PWM period.                                              *)
(*                                                                         *)
(* Data abstraction: a phase-current triple is "inside" or "outside" the   *)
(* +-2 A window (NaN is outside), and VBUS is in the arm window [14, 16.5] *)
(* V, only in the trip window [12, 17] V, or outside both (NaN included).  *)
(***************************************************************************)
EXTENDS Integers

CONSTANTS
  ArmPeriods,   (* POWER_GUARD_VBUS_ARM_PERIODS, 2000 in the code *)
  TripPeriods,  (* POWER_GUARD_VBUS_TRIP_PERIODS, 3               *)
  IdlePeriods   (* POWER_GUARD_IDLE_PERIODS, 20                   *)

ASSUME GuardAssumption ==
  /\ ArmPeriods \in Nat \ {0}
  /\ TripPeriods \in Nat \ {0}
  /\ IdlePeriods \in Nat \ {0}

VARIABLES
  vbus_ok_n,   (* steps in a row inside the arm window, saturating        *)
  vbus_bad_n,  (* steps in a row outside the trip window while powered    *)
  idle_n,      (* consecutive explicitly commanded idle steps, saturating *)
  request      (* the stage should be on                                  *)

guardVars == <<vbus_ok_n, vbus_bad_n, idle_n, request>>

Currents == {"inside", "outside"}
Voltages == {"arm", "run", "outside"}

GuardInputs ==
  [current : Currents, vbus : Voltages, calibrated : BOOLEAN,
   arm_key : BOOLEAN, idle : BOOLEAN, power_on : BOOLEAN]

PowerGuardReset ==
  /\ vbus_ok_n = 0
  /\ vbus_bad_n = 0
  /\ idle_n = 0
  /\ request = FALSE

-----------------------------------------------------------------------------
(* Counting up to a limit, starting again whenever the condition fails.    *)
Streak(n, limit, holds) ==
  IF ~holds THEN 0 ELSE IF n < limit THEN n + 1 ELSE n

IdleCountKeepsOnBusy(in) ==
  IF in.idle THEN Streak(idle_n, IdlePeriods, TRUE) ELSE idle_n

IdleCount(in) == Streak(idle_n, IdlePeriods, in.idle)

OkCountRunWindow(in) == Streak(vbus_ok_n, ArmPeriods, in.vbus # "outside")

OkCount(in) == Streak(vbus_ok_n, ArmPeriods, in.vbus = "arm")

BadCountAccumulates(in) ==
  IF in.power_on /\ in.vbus = "outside" THEN vbus_bad_n + 1
  ELSE IF in.power_on THEN vbus_bad_n ELSE 0

BadCount(in) ==
  IF in.power_on /\ in.vbus = "outside" THEN vbus_bad_n + 1 ELSE 0

OvercurrentTrip(in) == in.calibrated /\ in.current = "outside"

VbusTripLate(in) == BadCount(in) > TripPeriods

VbusTrip(in) == BadCount(in) >= TripPeriods

(* The trip reasons of this step, POWER_GUARD_TRIP_* bits of the output.   *)
Trip(in) ==
  {r \in {"OVERCURRENT", "VBUS"} :
     \/ r = "OVERCURRENT" /\ OvercurrentTrip(in)
     \/ r = "VBUS" /\ VbusTrip(in)}

MayArm(in) ==
  /\ in.calibrated
  /\ IdleCount(in) >= IdlePeriods
  /\ OkCount(in) >= ArmPeriods

(* The request holds until the key is cleared or anything trips, and rises *)
(* only when every arming condition holds in the same step.                *)
Request(in) ==
  /\ in.arm_key
  /\ Trip(in) = {}
  /\ request \/ MayArm(in)

(* power_guard_step(): the output power_on is request', the trip Trip(in). *)
PowerGuardStep(in) ==
  /\ idle_n' = IdleCount(in)
  /\ vbus_ok_n' = OkCount(in)
  /\ vbus_bad_n' = BadCount(in)
  /\ request' = Request(in)

GuardTypeOK ==
  /\ vbus_ok_n \in 0..ArmPeriods
  /\ vbus_bad_n \in Nat
  /\ idle_n \in 0..IdlePeriods
  /\ request \in BOOLEAN
=============================================================================

--------------------------- MODULE GuardContract ----------------------------
(***************************************************************************)
(* The contract of src/power_guard.h, stated over the inputs the guard was *)
(* given and not over its counters: a ghost window remembers the last      *)
(* Horizon samples, and the properties say what those samples must have    *)
(* been whenever the request rises or falls.                               *)
(***************************************************************************)
EXTENDS PowerGuard

CONSTANTS
  Horizon,  (* length of the ghost window                                *)
  MaxBad    (* bound of the model: steps in a row outside while powered  *)

ASSUME HorizonAssumption ==
  /\ Horizon \in Nat
  /\ Horizon >= ArmPeriods
  /\ Horizon >= TripPeriods
  /\ Horizon >= IdlePeriods
  /\ MaxBad \in Nat

VARIABLES
  window,  (* window[1] is the latest sample, window[i] is i - 1 steps older *)
  last     (* the whole latest input                                         *)

contractVars == <<guardVars, window, last>>

Seen(in) == [vbus |-> in.vbus, idle |-> in.idle, power_on |-> in.power_on]

Samples == [vbus : Voltages, idle : BOOLEAN, power_on : BOOLEAN]

(* Stands for the time before the guard was reset: it satisfies no arming  *)
(* and no trip condition.                                                  *)
Boot ==
  [current |-> "inside", vbus |-> "run", calibrated |-> FALSE,
   arm_key |-> FALSE, idle |-> FALSE, power_on |-> FALSE]

ContractInit ==
  /\ PowerGuardReset
  /\ window = [i \in 1..Horizon |-> Seen(Boot)]
  /\ last = Boot

Step(in) ==
  /\ BadCount(in) <= MaxBad
  /\ PowerGuardStep(in)
  /\ window' = [i \in 1..Horizon |-> IF i = 1 THEN Seen(in) ELSE window[i - 1]]
  /\ last' = in

ContractNext == \E in \in GuardInputs : Step(in)

ContractSpec == ContractInit /\ [][ContractNext]_contractVars

-----------------------------------------------------------------------------
(* Type correctness of the guard and of the ghost window.                  *)
ContractTypeOK ==
  /\ GuardTypeOK
  /\ window \in [1..Horizon -> Samples]
  /\ last \in GuardInputs

(* power_guard.h:13-19 - when the request rises, the last ArmPeriods VBUS  *)
(* samples were all inside the arm window and the last IdlePeriods steps   *)
(* were all explicitly commanded idle.                                     *)
ArmsAfterStreaks ==
  [][~request /\ request' =>
       /\ \A i \in 1..ArmPeriods : window'[i].vbus = "arm"
       /\ \A i \in 1..IdlePeriods : window'[i].idle]_contractVars

(* Undervoltage or overvoltage while powered: a step every one of whose    *)
(* last TripPeriods samples was powered and outside the trip window        *)
(* withdraws the request.                                                  *)
BadStreak == \A i \in 1..TripPeriods :
               window[i].power_on /\ window[i].vbus = "outside"

TripsOnBadStreak == BadStreak => ~request

(* No nuisance trip: a request that falls was withdrawn by the key, by a   *)
(* calibrated overcurrent sample, or by a complete streak of TripPeriods   *)
(* bad samples - a shorter VBUS glitch, or glitches interrupted by a good  *)
(* sample, never drop it.                                                  *)
FallsOnlyForCause ==
  [][request /\ ~request' =>
       \/ ~last'.arm_key
       \/ last'.calibrated /\ last'.current = "outside"
       \/ BadStreak']_contractVars
=============================================================================

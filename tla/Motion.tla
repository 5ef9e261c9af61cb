------------------------------- MODULE Motion -------------------------------
(***************************************************************************)
(* What the control step of src/foc_ctrl.c keeps from one period to the    *)
(* next for the motion it commands: the open-loop phase, the voltage ramp, *)
(* the speed estimator and the state of the speed and current controllers, *)
(* composed with the mode arbitration and the power guard (FocControl),    *)
(* whose overspeed input the estimator now supplies.                       *)
(*                                                                         *)
(* Controllers are abstracted to what their state is made of: the set of   *)
(* power flags of the periods whose updates a ramp or an integral still    *)
(* contains.  Each resets to the empty set.                                *)
(***************************************************************************)
EXTENDS FocControl, OpenLoop, Speed

CONSTANTS
  Direction,  (* "forward" or "reverse": how this motor is wired           *)
  Rates,      (* magnitudes of cmd.rate_e                                  *)
  Thetas,     (* cmd.theta_e                                               *)
  Supplies,   (* VBUS classes the samples come from                        *)
  Loads,      (* current classes the samples come from                     *)
  Rotors,     (* sets of counts a rotor may move from sample to sample     *)
  Entries,    (* where the sample that enters a mode may find the rotor    *)
  Families,   (* bound of the model: a history commands the modes of one   *)
  MaxOlSteps  (* bound of the model: periods of one open-loop rotation     *)

(* What the encoder's difference tells apart: less than half a turn from   *)
(* one sample to the next, 20.5 million turns per minute in the code.      *)
Steps == -(Turn \div 2)..(Turn \div 2 - 1)

ASSUME MotionAssumption ==
  /\ Direction \in {"forward", "reverse"}
  /\ Rates \subseteq Nat /\ Thetas \subseteq Nat
  /\ Entries \subseteq 0..Turn - 1
  /\ Supplies \subseteq Voltages /\ Loads \subseteq Currents
  /\ Families \subseteq SUBSET (Modes \cup {"UNKNOWN"})
  /\ MaxOlSteps \in Nat

(* A rotor that outruns the encoder or a bucket is not measured by anybody. *)
ASSUME RotorAssumption ==
  \A rotor \in Rotors : \A move \in rotor :
    move \in Steps /\ -(BucketMax + 1) <= Div * move /\ Div * move <= BucketMax

VARIABLES
  on,         (* sample->power_on of the next step                         *)
  alive,      (* no fault is latched: the BSP still calls the step         *)
  enc,        (* the rotor                                                 *)
  speed,      (* st.speed                                                  *)
  rpm,        (* st.rpm, in counts                                         *)
  direction,  (* st.calib_direction, 0 before the first identification     *)
  gains,      (* of the current controllers: "placeholder", "identified"   *)
  current_powered,  (* st.current_powered                                  *)
  pi_of,      (* what the current integrals are made of                    *)
  loop_of,    (* what the speed loop (integral, ramp, held iq) is made of  *)
  ramp_of,    (* what the voltage ramp st.dc_v is made of                  *)
  moved,      (* ghost: how far the rotor moved in the last k steps of a mode *)
  fast,       (* ghost: steps in a row above the limit in a powered loop   *)
  rotor,      (* the moves of this history's rotor                         *)
  family      (* the modes this history commands                           *)

loopVars == <<gains, current_powered, pi_of, loop_of, ramp_of>>
vars == <<guardVars, ctrlVars, olVars, on, alive, enc, speed, rpm, direction,
          loopVars, moved, fast, rotor, family>>

Span == Div * Window
Still == [k \in 0..Span |-> 0]

(* After foc_ctrl_init().                                                  *)
Init ==
  /\ CtrlInit /\ OlInit
  /\ on = FALSE /\ alive = TRUE
  /\ enc = 0 /\ speed = SpeedReset(0) /\ rpm = 0 /\ direction = 0
  /\ gains = "placeholder" /\ current_powered = FALSE
  /\ pi_of = {} /\ loop_of = {} /\ ramp_of = {}
  /\ moved = Still /\ fast = 0
  /\ rotor \in Rotors /\ family \in Families

-----------------------------------------------------------------------------
(* The modes whose steps run the estimator.                                *)
Estimates(m) == m \in CurrentModes \cup {"MAP"}

(* Where the rotor goes until the next sample.  Only the estimating modes  *)
(* look at it: the sample that enters one may find it elsewhere, counted   *)
(* from where it was last seen, and from there it moves as this rotor can. *)
Moves(m, entered) ==
  CASE ~Estimates(m) -> {0}
    [] Estimates(m) /\ entered -> Entries
    [] OTHER -> rotor

Ramps(m) == m \in {"DC", "OPENLOOP"}

SpeedAfter(m, entered, sample) ==
  IF ~Estimates(m) THEN speed
  ELSE IF entered THEN SpeedReset(sample) ELSE SpeedStep(speed, sample)

Ticks(m, entered) == Estimates(m) /\ ~entered /\ SpeedTick(speed)

(* The estimate in the calibrated frame while powered, raw otherwise.      *)
RpmAfter(m, entered, powered) ==
  IF Estimates(m) /\ entered THEN 0
  ELSE IF ~Ticks(m, entered) THEN rpm
  ELSE IF powered /\ direction < 0 THEN -speed'.counts ELSE speed'.counts

(* pi_reset(): the identified gains only for a powered loop.               *)
GainsFor(powered, known) ==
  IF powered /\ known # "none" THEN "identified" ELSE "placeholder"

(* The current controllers: reset at every mode entry, when a running loop *)
(* changes its power state, and around the update while the stage is off.  *)
ResetsPi(entered, loop, powered) ==
  entered \/ (loop /\ current_powered # powered)

PiAfter(before, feeds) ==
  LET updated == (IF feeds THEN before ELSE {}) \cup {feeds}
  IN  IF feeds THEN updated ELSE {}

CurrentLoopStep(entered, loop, powered, feeds) ==
  LET resets == ResetsPi(entered, loop, powered)
      known == IF entered /\ mode' = "IDENT" THEN "none" ELSE calib
      kept == IF resets THEN {} ELSE pi_of
  IN  /\ gains' = IF resets THEN GainsFor(powered, known) ELSE gains
      /\ current_powered' = IF loop \/ (entered /\ Estimates(mode'))
                            THEN powered ELSE current_powered
      /\ pi_of' = IF loop THEN PiAfter(kept, feeds) ELSE kept

(* The speed loop: reset at entry, updated by the ticks of SPEED.          *)
LoopKeptAtEntry(m, entered) == loop_of

LoopStart(m, entered) == IF entered /\ Estimates(m) THEN {} ELSE loop_of

SpeedLoopStep(m, entered, powered) ==
  loop_of' = LoopStart(m, entered)
               \cup {p \in {powered} : m = "SPEED" /\ Ticks(m, entered)}

(* The voltage ramp: zero at every mode entry, updated in every period of  *)
(* the two ramped modes.                                                   *)
RampStep(m, entered, powered) ==
  ramp_of' = (IF entered THEN {} ELSE ramp_of)
               \cup {p \in {powered} : Ramps(m)}

OpenLoopStep(m, entered) ==
  IF m # "OPENLOOP" THEN UNCHANGED olVars
  ELSE \E r \in Rates : \E rate \in {r, -r} :
         IF entered THEN \E theta \in Thetas : OlFirst(theta, rate)
         ELSE OlNext(rate)

MovedAfter(m, entered, move) ==
  IF ~Estimates(m) \/ entered THEN Still
  ELSE [k \in 0..Span |-> IF k = 0 THEN 0 ELSE moved[k - 1] + move]

FastAfter(entered, loop) ==
  IF /\ loop /\ ~entered /\ Powered(on)
     /\ moved'[Span] \notin -OverspeedCounts..OverspeedCounts
  THEN fast + 1 ELSE 0

(* Installed by a finished identification together with the calibration.   *)
DirectionAfter(m, calib2) ==
  IF m = "IDENT" /\ calib2 # "none"
  THEN IF Direction = "forward" THEN 1 ELSE -1
  ELSE direction

(* What the BSP makes of the command: a trip latches and ends the control  *)
(* steps, otherwise the stage follows the request.                         *)
Follow(trip, wanted, map2) ==
  /\ alive' = (trip = {})
  /\ on' = (trip = {} /\ wanted)
  /\ map' = IF trip = {} THEN map2 ELSE "inactive"

(* The overspeed input of FocControl is what the estimator decides.        *)
Inputs ==
  [cmd_mode : family, arm_key : BOOLEAN, current : Loads, vbus : Supplies,
   cal_bad : {FALSE}, overspeed : BOOLEAN, invalid : {FALSE}]

(* One control period: the sample, foc_ctrl_step() and what follows.       *)
Period(in) ==
  LET m == Chosen(in, on)
      entered == Entered(in, on)
      powered == Powered(on)
  IN  /\ m = "OPENLOOP" /\ ~entered => ol_steps < MaxOlSteps
      /\ \E move \in Moves(m, entered) :
           /\ enc' = (enc + move) % Turn
           /\ moved' = MovedAfter(m, entered, move)
      /\ speed' = SpeedAfter(m, entered, enc')
      /\ in.overspeed = Overspeed(speed')
      /\ rpm' = RpmAfter(m, entered, powered)
      /\ SpeedLoopStep(m, entered, powered)
      /\ RampStep(m, entered, powered)
      /\ OpenLoopStep(m, entered)
      /\ \E ident2 \in IdentAfter(in, on) :
         \E calib2 \in CalibAfter(in, on, ident2) :
         \E map2 \in MapAfter(in, on) :
           /\ FocStep(in, on, ident2, calib2)
           /\ direction' = DirectionAfter(m, calib2)
           /\ LET loop == CurrentLoop(in, on, map2)
              IN  /\ CurrentLoopStep(entered, loop, powered, on /\ request')
                  /\ fast' = FastAfter(entered, loop)
           /\ Follow(CmdTrip(in, on, map2), request', map2)
      /\ UNCHANGED <<rotor, family>>

Next ==
  /\ alive
  /\ \E in \in Inputs : Period(in)

Spec == Init /\ [][Next]_vars

-----------------------------------------------------------------------------
(* foc_speed.h:28-32 - what the estimator publishes is the distance the    *)
(* rotor really moved in the last Div * Window periods of this mode, over  *)
(* the wrap of the encoder and the wrap of the ring; the decision value    *)
(* likewise; and a powered loop is fed it in the calibrated frame.         *)
SpeedIsDisplacement ==
  Estimates(mode) =>
    /\ speed.periods = 0 => speed.counts = moved[Span]
    /\ speed.periods = 0 /\ speed.index = 0 => speed.trip_counts = moved[Span]
    /\ Powered(on) =>
         rpm = IF direction < 0 THEN -speed.counts ELSE speed.counts

(* foc_ctrl.h:99-100 - in a powered current loop a rotor that stays above  *)
(* the limit for one decision window of steps is tripped, wherever in the  *)
(* ring the excess begins, in either direction, and also when the map      *)
(* turns from its voltage part to its current part on the way.             *)
OverspeedIsCaught == alive => fast < Span

(* stage7_speed_loop_software.md:7 - nothing a controller or a ramp did    *)
(* while the stage was off reaches a powered period: a powered mode finds  *)
(* its ramp, its speed loop and its integrals made of powered periods      *)
(* only, and the current loop the gains of this motor.                     *)
FreshPowerUp ==
  Powered(on) =>
    /\ Ramps(mode) => ramp_of \subseteq {TRUE}
    /\ mode = "SPEED" => loop_of \subseteq {TRUE}
    /\ mode \in CurrentModes \/ map = "sweep" =>
         pi_of \subseteq {TRUE} /\ gains = "identified"
=============================================================================

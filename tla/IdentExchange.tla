--------------------------- MODULE IdentExchange ----------------------------
(***************************************************************************)
(* The hand-over of identification results from the FOC interrupt to the   *)
(* report thread, and the calibration the control step takes from them     *)
(* (src/foc_ctrl.c).  A run of the sequencer (MotorIdent) is its number    *)
(* and whether it runs, completed or failed; one call of foc_ctrl_step()   *)
(* is one step, and the thread may be interrupted anywhere.                *)
(***************************************************************************)
EXTENDS Integers

CONSTANT MaxRuns   (* bound: identifications started                       *)

ASSUME RunsAssumption == MaxRuns \in Nat \ {0}

VARIABLES
  mode,            (* st.mode: is it IDENT?                                *)
  run, state,      (* the last run started and st.ident.result.state       *)
  ident_published, (* st.ident_published                                   *)
  ident_result,    (* the buffer of the thread                             *)
  ident_ready,     (* the thread owns it                                   *)
  calib,           (* run the calibration is of; 0: calib_valid is FALSE   *)
  isr_on,          (* the interrupt has not been stopped by a fault        *)
  pc               (* the report thread polls or prints                    *)

ident == <<run, state, ident_published>>
buffer == <<ident_result, ident_ready>>
vars == <<mode, ident, buffer, calib, isr_on, pc>>

NoResult == [run |-> 0, state |-> "IDLE"]
Terminal == {"DONE", "FAILED"}

Init ==
  /\ mode = "OTHER" /\ run = 0 /\ state = "IDLE" /\ ident_published = FALSE
  /\ ident_result = NoResult /\ ident_ready = FALSE
  /\ calib = 0 /\ isr_on = TRUE /\ pc = "poll"

-----------------------------------------------------------------------------
(* ident_publish(), for a run in state s whose result may be published.    *)
DueWhileHeld(s, published) == ~published /\ s \in Terminal

DueAgain(s, published) == s \in Terminal /\ ~ident_ready

Due(s, published) == ~published /\ s \in Terminal /\ ~ident_ready

Publish(n, s, published) ==
  IF Due(s, published)
  THEN /\ ident_result' = [run |-> n, state |-> s] /\ ident_ready' = TRUE
       /\ ident_published' = TRUE
  ELSE UNCHANGED buffer /\ ident_published' = published

(* One period of the sequencer: it goes on, completes or fails.            *)
Outcomes(s) == IF s = "RUNNING" THEN {"RUNNING", "DONE", "FAILED"} ELSE {s}

(* A completed run becomes the calibration.                                *)
Calibration(n, s, valid) == IF s = "DONE" /\ valid = 0 THEN n ELSE valid

(* The step that enters IDENT starts a run, with nothing published of it   *)
(* and the calibration withdrawn, steps it and publishes.                  *)
CalibKept == calib

CalibWithdrawn == 0

PublishedKept == ident_published

PublishedReset == FALSE

StepEnter ==
  /\ mode # "IDENT" /\ run < MaxRuns
  /\ mode' = "IDENT" /\ run' = run + 1
  /\ \E s \in Outcomes("RUNNING") :
       /\ state' = s
       /\ calib' = Calibration(run + 1, s, CalibWithdrawn)
       /\ Publish(run + 1, s, PublishedReset)
  /\ UNCHANGED <<isr_on, pc>>

StepIdent ==
  /\ mode = "IDENT"
  /\ \E s \in Outcomes(state) :
       /\ state' = s
       /\ calib' = Calibration(run, s, calib)
       /\ Publish(run, s, ident_published)
  /\ UNCHANGED <<mode, run, isr_on, pc>>

(* Leaving IDENT cancels a run that is not over.                           *)
Left(s) == IF s = "RUNNING" THEN "FAILED" ELSE s

StepLeave ==
  /\ mode = "IDENT"
  /\ mode' = "OTHER" /\ state' = Left(state)
  /\ Publish(run, Left(state), ident_published)
  /\ UNCHANGED <<run, calib, isr_on, pc>>

StepOther ==
  /\ mode # "IDENT"
  /\ Publish(run, state, ident_published)
  /\ UNCHANGED <<mode, run, state, calib, isr_on, pc>>

Step == isr_on /\ (StepEnter \/ StepIdent \/ StepLeave \/ StepOther)

(* A latched fault or pwm_adc_stop(): the control step is not called again *)
Fault ==
  /\ isr_on /\ isr_on' = FALSE
  /\ UNCHANGED <<mode, ident, buffer, calib, pc>>

Get ==
  /\ pc = "poll" /\ ident_ready /\ pc' = "dump"
  /\ UNCHANGED <<mode, ident, buffer, calib, isr_on>>

Release ==
  /\ pc = "dump" /\ pc' = "poll"
  /\ ident_ready' = FALSE
  /\ UNCHANGED <<mode, ident, ident_result, calib, isr_on>>

Next == Step \/ Fault \/ Get \/ Release

Spec == Init /\ [][Next]_vars

(* The interrupt keeps coming and the thread keeps polling and printing.   *)
FairSpec == Spec /\ WF_vars(Step) /\ WF_vars(Get \/ Release)
-----------------------------------------------------------------------------
(* Type correctness of the exchange.                                       *)
TypeOK ==
  /\ mode \in {"IDENT", "OTHER"}
  /\ run \in 0..MaxRuns /\ state \in {"IDLE", "RUNNING"} \cup Terminal
  /\ ident_published \in BOOLEAN
  /\ ident_result \in [run : 0..MaxRuns, state : {"IDLE"} \cup Terminal]
  /\ ident_ready \in BOOLEAN /\ calib \in 0..MaxRuns
  /\ isr_on \in BOOLEAN /\ pc \in {"poll", "dump"}

(* foc_ctrl.h:157 - the calibration in force is of the last run started,   *)
(* and that run completed: no earlier run's survives a new start.          *)
CalibIsOfLastRun == calib # 0 => calib = run /\ state = "DONE"

(* foc_ctrl.c:145 - a result is published once, and none after that of a   *)
(* later run.                                                              *)
PublishedOnceInOrder ==
  [][~ident_ready /\ ident_ready' => ident_result'.run > ident_result.run]_vars

(* docs/evidence/motor_ident_software.md:53 - a run that ends behind an    *)
(* unread result is published after the release, unless a later start      *)
(* supersedes it or a fault stops the interrupt.                           *)
ResultPublished ==
  \A n \in 1..MaxRuns :
    (run = n /\ state \in Terminal) ~> (ident_result.run >= n \/ run > n \/ ~isr_on)

(* foc_ctrl.h:227 - the thread's buffer, while it owns it.                 *)
HandoffSpec == INSTANCE Handoff WITH
  Nothing <- NoResult,
  item <- IF ident_ready THEN ident_result ELSE NoResult,
  held <- pc = "dump"

(* A published result is whole, does not change while the thread prints it *)
(* and disappears only when the thread gives it back.                      *)
ImplementsHandoff == HandoffSpec!Spec
=============================================================================

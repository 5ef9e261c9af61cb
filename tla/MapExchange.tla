---------------------------- MODULE MapExchange -----------------------------
(***************************************************************************)
(* How the cogging map changes hands: the FOC interrupt measures it into   *)
(* the raw buffer (src/cog_map.c), the report thread processes the buffer, *)
(* copies the table and publishes it through ff_valid (dump_map() and      *)
(* foc_ctrl_map_release()), and a new identification or a new map makes    *)
(* the table invalid (mode_enter() of src/foc_ctrl.c).                     *)
(*                                                                         *)
(* The interrupt is one step; it may come between any two steps of the     *)
(* thread.  pwm_adc_stop() ends the interrupt for good and aborts the map. *)
(*                                                                         *)
(* Data abstraction: the raw sums are the identity of the run that wrote   *)
(* them and how many periods it has accumulated; a table entry is the run  *)
(* it was computed from.  The sequencer's phases are "ACTIVE" or terminal  *)
(* (module CogMap details them).                                           *)
(***************************************************************************)
EXTENDS Naturals

CONSTANTS
  Bins,      (* FOC_CTRL_MAP_BINS, 256 in the code                         *)
  Sweep,     (* accumulating periods of a complete map                     *)
  MaxRuns,   (* bound of the model: map starts                             *)
  MaxEpochs  (* bound of the model: identifications                        *)

ASSUME MapAssumption ==
  /\ Bins \in Nat \ {0}
  /\ Sweep \in Nat \ {0}
  /\ MaxRuns \in Nat
  /\ MaxEpochs \in Nat

VARIABLES
  mode,        (* st.mode                                                  *)
  epoch,       (* entries of IDENT so far                                  *)
  calib_valid, (* st.calib_valid                                           *)
  cff,         (* st.cff, the loop applies the table                       *)
  phase,       (* map.raw.phase                                            *)
  ready,       (* map.ready, the thread owns the raw buffer                *)
  raw,         (* the raw sums: run, epoch of its calibration, periods     *)
  ff_valid,    (* 0 writable by the owner, 1 valid, 2 invalidated          *)
  ff_table,    (* bin -> the run whose value it holds                      *)
  pc,          (* the report thread                                        *)
  bin,         (* the next bin foc_ctrl_map_release() copies               *)
  result,      (* dump_map()'s processed table: the run it is of, and ok   *)
  isr_on       (* the FOC interrupt still comes                            *)

ctrl == <<mode, epoch, calib_valid, cff, isr_on>>
buffer == <<phase, ready, raw>>
thread == <<pc, bin, result>>
vars == <<ctrl, buffer, ff_valid, ff_table, thread>>

Modes == {"IDLE", "CURRENT", "IDENT", "MAP"}
NoRun == [run |-> 0, epoch |-> 0]
Runs == [run : 0..MaxRuns, epoch : 0..MaxEpochs]

Init ==
  /\ mode = "IDLE" /\ epoch = 0 /\ calib_valid = FALSE /\ cff = FALSE
  /\ phase = "IDLE" /\ ready = FALSE
  /\ raw = [run |-> 0, epoch |-> 0, periods |-> 0]
  /\ ff_valid = 2 /\ ff_table = [b \in 1..Bins |-> NoRun]
  /\ pc = "poll" /\ bin = 1 /\ result = [of |-> NoRun, ok |-> FALSE]
  /\ isr_on = TRUE

-----------------------------------------------------------------------------
(* The FOC interrupt: mode_enter() and the branch of the mode              *)

(* cog_map_abort(): an active run ends as a failed one, for the thread.    *)
Abort ==
  /\ phase' = IF phase = "ACTIVE" THEN "FAILED" ELSE phase
  /\ ready' = (ready \/ phase = "ACTIVE")
  /\ UNCHANGED raw

(* A step of any other mode: leaving MAP cancels the run.                  *)
LeaveMap == IF mode = "MAP" THEN Abort ELSE UNCHANGED buffer

StepIdle ==
  /\ isr_on
  /\ mode' = "IDLE"
  /\ LeaveMap
  /\ UNCHANGED <<epoch, calib_valid, cff, isr_on, ff_valid, ff_table, thread>>

(* Entering CURRENT or SPEED clears the feed-forward; a latched request    *)
(* switches it on if the table is valid then.                              *)
LatchAnyTable == {FALSE, TRUE}

Latch == {FALSE, ff_valid = 1}

StepCurrent ==
  /\ isr_on
  /\ mode' = "CURRENT"
  /\ LeaveMap
  /\ cff' \in Latch \cup (IF mode = "CURRENT" THEN {cff} ELSE {})
  /\ UNCHANGED <<epoch, calib_valid, isr_on, ff_valid, ff_table, thread>>

(* Entering IDENT invalidates the table and the calibration; a completed   *)
(* identification installs the next calibration.                           *)
InvalidateKeepsTable == ff_valid' = ff_valid

Invalidate == ff_valid' = 2

StepIdent ==
  /\ isr_on
  /\ mode' = "IDENT"
  /\ LeaveMap
  /\ IF mode = "IDENT"
     THEN /\ calib_valid' \in {calib_valid, TRUE}
          /\ UNCHANGED <<epoch, ff_valid>>
     ELSE /\ epoch < MaxEpochs
          /\ epoch' = epoch + 1
          /\ calib_valid' = FALSE
          /\ Invalidate
  /\ UNCHANGED <<cff, isr_on, ff_table, thread>>

(* cog_map_start() from mode_enter(): only with the raw buffer back; an    *)
(* unpowered or uncalibrated start fails at once.                          *)
StartWhileOwned == mode # "MAP"

MayStart == mode # "MAP" /\ ~ready

(* cog_map_step(): in the step that started the run as well.               *)
Advance(run) ==
  \/ /\ raw' = [run EXCEPT !.periods = @ + 1]
     /\ phase' = IF run.periods + 1 = Sweep THEN "DONE" ELSE "ACTIVE"
     /\ ready' = (run.periods + 1 = Sweep)
  \/ /\ raw' = run
     /\ phase' = "FAILED" /\ ready' = TRUE

StepMap ==
  /\ isr_on
  /\ mode' = "MAP"
  /\ cff' = IF mode # "MAP" THEN FALSE ELSE cff
  /\ CASE MayStart ->
            LET run == [run |-> raw.run + 1, epoch |-> epoch, periods |-> 0]
            IN  /\ raw.run < MaxRuns
                /\ ff_valid' = 0
                /\ \/ calib_valid /\ Advance(run)
                   \/ raw' = run /\ phase' = "FAILED" /\ ready' = TRUE
       [] ~MayStart /\ phase = "ACTIVE" -> Advance(raw) /\ UNCHANGED ff_valid
       [] OTHER -> UNCHANGED <<buffer, ff_valid>>
  /\ UNCHANGED <<epoch, calib_valid, isr_on, ff_table, thread>>

(* A latched fault or pwm_adc_stop(): the map is aborted and no control    *)
(* step comes any more.                                                    *)
Fault ==
  /\ isr_on
  /\ isr_on' = FALSE
  /\ Abort
  /\ UNCHANGED <<mode, epoch, calib_valid, cff, ff_valid, ff_table, thread>>

Isr == StepIdle \/ StepCurrent \/ StepIdent \/ StepMap \/ Fault

-----------------------------------------------------------------------------
(* The report thread                                                       *)

Poll ==
  /\ pc = "poll" /\ ready
  /\ pc' = "process"
  /\ UNCHANGED <<ctrl, buffer, ff_valid, ff_table, bin, result>>

(* cog_process(): only a completed run gives a table, and only if its fit  *)
(* and its bins are plausible.  Printing it takes about a second.          *)
Process ==
  /\ pc = "process"
  /\ \E ok \in {FALSE, phase = "DONE"} :
       result' = [of |-> [run |-> raw.run, epoch |-> raw.epoch], ok |-> ok]
  /\ pc' = "release"
  /\ UNCHANGED <<ctrl, buffer, ff_valid, ff_table, bin>>

(* foc_ctrl_map_release(): check, ...                                      *)
WritableBeforeFirstMap == result.ok /\ ff_valid = 2 /\ phase = "DONE"

Writable == result.ok /\ ff_valid = 0 /\ phase = "DONE"

ReleaseCheck ==
  /\ pc = "release"
  /\ pc' = IF ~ready THEN "poll" ELSE IF Writable THEN "copy" ELSE "free"
  /\ bin' = 1
  /\ UNCHANGED <<ctrl, buffer, ff_valid, ff_table, result>>

(* ... copy bin by bin, ...                                                *)
LastBin == bin = Bins

CopyBin ==
  /\ pc = "copy"
  /\ ff_table' = [ff_table EXCEPT ![bin] = result.of]
  /\ IF LastBin THEN pc' = "publish" /\ bin' = bin
     ELSE pc' = "copy" /\ bin' = bin + 1
  /\ UNCHANGED <<ctrl, buffer, ff_valid, result>>

(* ... publish unless an identification came meanwhile, ...                *)
PublishByStore == ff_valid' = 1

Publish == ff_valid' = IF ff_valid = 0 THEN 1 ELSE ff_valid

CompareAndSwap ==
  /\ pc = "publish"
  /\ Publish
  /\ pc' = "free"
  /\ UNCHANGED <<ctrl, buffer, ff_table, bin, result>>

(* ... and give the raw buffer back.                                       *)
GiveBack == ready' = FALSE

Free ==
  /\ pc = "free"
  /\ GiveBack
  /\ pc' = "poll"
  /\ UNCHANGED <<ctrl, phase, raw, ff_valid, ff_table, bin, result>>

Thread == Poll \/ Process \/ ReleaseCheck \/ CopyBin \/ CompareAndSwap \/ Free

Next == Isr \/ Thread

Spec == Init /\ [][Next]_vars

(* The thread gets the CPU again and again, whatever the interrupt does.   *)
FairSpec == Spec /\ WF_vars(Thread)

-----------------------------------------------------------------------------
(* Type correctness of the exchange.                                       *)
TypeOK ==
  /\ mode \in Modes /\ epoch \in 0..MaxEpochs
  /\ calib_valid \in BOOLEAN /\ cff \in BOOLEAN
  /\ phase \in {"IDLE", "ACTIVE", "DONE", "FAILED"} /\ ready \in BOOLEAN
  /\ raw \in [run : 0..MaxRuns, epoch : 0..MaxEpochs, periods : 0..Sweep]
  /\ ff_valid \in 0..2 /\ ff_table \in [1..Bins -> Runs]
  /\ pc \in {"poll", "process", "release", "copy", "publish", "free"}
  /\ bin \in 1..Bins /\ result \in [of : Runs, ok : BOOLEAN]
  /\ isr_on \in BOOLEAN

(* foc_ctrl.c:139-141 - a valid table is in one piece and was measured by  *)
(* a map of the calibration in force: no thread interrupted between its    *)
(* check and its publication brings back a table from before.              *)
ValidTableIsCurrent ==
  ff_valid = 1 => \A b \in 1..Bins : /\ ff_table[b].epoch = epoch
                                     /\ ff_table[b] = ff_table[1]

(* cog_map.h:101-103 - while the thread owns the raw buffer nobody writes  *)
(* it, and an aborted or refused run never changes its verdict.            *)
RawIsStable == [][ready /\ ready' => UNCHANGED <<raw, phase>>]_vars

(* foc_ctrl.h:130 - whenever the current loop runs with the feed-forward   *)
(* on, the table it reads is valid.                                        *)
FeedForwardIsValid == mode = "CURRENT" /\ cff => ff_valid = 1

(* A completed map whose processing succeeded is published, unless an      *)
(* identification invalidated it first.                                    *)
GoodMapPublished ==
  (pc = "release" /\ result.ok /\ ff_valid = 0) ~> ff_valid \in {1, 2}

(* The exchange implements the promise made to the current loop.           *)
Abstract == INSTANCE FeedForward WITH
  NoTable <- NoRun,
  seen <- IF ff_valid = 1 THEN ff_table[1] ELSE NoRun

ImplementsFeedForward == Abstract!Spec

(* It also implements the hand-over of a result to the thread: every       *)
(* terminal run is offered once, complete, until it was processed.         *)
HandoffSpec == INSTANCE Handoff WITH
  Nothing <- <<>>,
  item <- IF ready THEN <<raw, phase>> ELSE <<>>,
  held <- pc # "poll"

ImplementsHandoff == HandoffSpec!Spec
=============================================================================

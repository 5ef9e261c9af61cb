-------------------------- MODULE CaptureExchange ---------------------------
(***************************************************************************)
(* Step captures of src/foc_ctrl.c: a change of cmd.step_seq starts one,   *)
(* the FOC interrupt records Len samples around the step of the reference, *)
(* the report thread prints the buffer and gives it back.                  *)
(*                                                                         *)
(* A sample is abstracted to what produced it: at counter top k the        *)
(* currents answer the vector computed at top k - 1, so a sample of a      *)
(* voltage step (kind 0) or of a current step (kind 1) is the command that *)
(* was in drive; a sample of a speed step (kind 2) is the reference of the *)
(* speed update that recorded it.                                          *)
(***************************************************************************)
EXTENDS Integers

CONSTANTS
  Len,    (* FOC_CTRL_CAPTURE_LEN, 256 in the code                         *)
  Pre,    (* FOC_CTRL_CAPTURE_PRE, 16                                      *)
  On,     (* FOC_CTRL_CAPTURE_ON, 128                                      *)
  Refs,   (* references and amplitudes, after the clamps                   *)
  MaxSeq  (* bound of the model: requests                                  *)

ASSUME CaptureAssumption ==
  /\ Len \in Nat /\ Pre \in Nat \ {0} /\ On \in Nat
  /\ Pre + On < Len
  /\ Refs \subseteq Nat /\ 0 \in Refs
  /\ \A r \in Refs : 0..r \subseteq Refs
  /\ MaxSeq \in Nat

VARIABLES
  cmd,        (* the debugger's block: step_seq and the value it asks for  *)
  mode,       (* st.mode; OTHER stands for the modes without a capture     *)
  cap_state,  (* who owns the capture buffer                               *)
  cap_idx,    (* st.cap_idx                                                *)
  cap,        (* the header: seq, kind, old and new command                *)
  samples,    (* the recorded samples                                      *)
  step_seen,  (* st.step_seen                                              *)
  ref,        (* CURRENT: st.id_ref_ma, st.iq_ref_ma; SPEED: speed_loop.ref *)
  target,     (* st.spd_target                                             *)
  drive,      (* the command behind the vector in force at the next top    *)
  isr_on,     (* the control step still runs                               *)
  pc          (* the report thread                                         *)

loop == <<ref, target, drive>>
buffer == <<cap_idx, cap, samples>>
vars == <<cmd, mode, cap_state, buffer, step_seen, loop, isr_on, pc>>

Commands == [seq : 0..MaxSeq, ref : Refs]

Init ==
  /\ cmd = [seq |-> 0, ref |-> 0]
  /\ mode = "OTHER"
  /\ cap_state = "IDLE" /\ cap_idx = 0
  /\ cap = [seq |-> 0, kind |-> 0, old |-> 0, new |-> 0]
  /\ samples = [k \in 0..Len - 1 |-> 0]
  /\ step_seen = 0
  /\ ref = 0 /\ target = 0 /\ drive = 0
  /\ isr_on = TRUE /\ pc = "poll"

-----------------------------------------------------------------------------
(* The debugger may write its block at any time, also while a step runs:   *)
(* between mode_enter()'s and the capture's read of step_seq.              *)
Written ==
  {[seq |-> cmd.seq + 1, ref |-> r] : r \in {x \in Refs : cmd.seq < MaxSeq}}

Write ==
  /\ cmd' \in Written
  /\ UNCHANGED <<mode, cap_state, buffer, step_seen, loop, isr_on, pc>>

ReadBy(m) == {cmd} \cup (IF mode # m THEN Written ELSE {})

(* mode_enter(): a running capture is cancelled, CURRENT and SPEED take    *)
(* step_seq as their baseline.                                             *)
EnteredAlways(m) == IF mode # m THEN "IDLE" ELSE cap_state

Entered(m) == IF mode # m /\ cap_state = "RUNNING" THEN "IDLE" ELSE cap_state

Baseline(m) == IF mode # m THEN cmd.seq ELSE step_seen

(* A request starts a capture only in a free buffer.                       *)
StartsUnasked(m, seen, c) == Entered(m) = "IDLE"

Starts(m, seen, c) == Entered(m) = "IDLE" /\ c.seq # seen

(* A request that could not start stays pending.                           *)
SeenAtOnce(start, seen, c) == c.seq

Seen(start, seen, c) == IF start THEN c.seq ELSE seen

Header(c, kind, old) == [seq |-> c.seq, kind |-> kind, old |-> old, new |-> c.ref]

(* The buffer takes sample k, and goes to the thread with the last one.    *)
LastSampleLate(k) == k = Len

LastSample(k) == k + 1 = Len

Record(k, x) ==
  /\ samples' = [samples EXCEPT ![k] = x]
  /\ cap_idx' = k + 1
  /\ cap_state' = IF LastSample(k) THEN "DONE" ELSE "RUNNING"

(* The step of the command, seen from the period that records sample k.    *)
StepOn(k) == k + 1 >= Pre /\ k + 1 < Pre + On

RefDueLate(k) == k = Pre

RefDue(k) == k + 1 = Pre

-----------------------------------------------------------------------------
(* The FOC interrupt                                                       *)

StepOther ==
  /\ isr_on
  /\ mode' = "OTHER"
  /\ cap_state' = Entered("OTHER")
  /\ drive' \in Refs
  /\ UNCHANGED <<cmd, buffer, step_seen, ref, target, isr_on, pc>>

(* FOC_MODE_STEP, step_capture(): Pre periods of zero vector, On periods   *)
(* of the latched amplitude, then zero again.  No baseline on entry.       *)
StepStep ==
  /\ isr_on
  /\ mode' = "STEP"
  /\ \E start \in {Starts("STEP", step_seen, cmd)} :
       LET running == start \/ Entered("STEP") = "RUNNING"
           k == IF start THEN 0 ELSE cap_idx
       IN  /\ step_seen' = Seen(start, step_seen, cmd)
           /\ cap' = IF start THEN Header(cmd, 0, 0) ELSE cap
           /\ IF running
              THEN /\ Record(k, drive)
                   /\ drive' = IF StepOn(k) THEN cap'.new ELSE 0
              ELSE /\ cap_state' = Entered("STEP")
                   /\ drive' = 0
                   /\ UNCHANGED <<cap_idx, samples>>
  /\ UNCHANGED <<cmd, ref, target, isr_on, pc>>

(* FOC_MODE_CURRENT: current_capture_prepare() and                         *)
(* current_capture_sample().  The references change only by a capture.     *)
StepCurrent ==
  /\ isr_on
  /\ mode' = "CURRENT"
  /\ \E c \in ReadBy("CURRENT") :
       LET seen == Baseline("CURRENT")
           start == Starts("CURRENT", seen, c)
           running == start \/ Entered("CURRENT") = "RUNNING"
           k == IF start THEN 0 ELSE cap_idx
           old == IF mode # "CURRENT" THEN 0 ELSE ref
       IN  /\ cmd' = c
           /\ step_seen' = Seen(start, seen, c)
           /\ cap' = IF start THEN Header(c, 1, old) ELSE cap
           /\ ref' = IF running /\ RefDue(k) THEN cap'.new ELSE old
           /\ drive' = ref'
           /\ target' = IF mode # "CURRENT" THEN 0 ELSE target
           /\ IF running
              THEN Record(k, drive)
              ELSE cap_state' = Entered("CURRENT") /\ UNCHANGED <<cap_idx, samples>>
  /\ UNCHANGED <<isr_on, pc>>

(* FOC_MODE_SPEED: speed_prepare() and speed_latch() in every period,      *)
(* speed_update() in the periods that end a speed estimate.                *)
Ramp(from, to) ==
  CASE to > from -> from + 1
    [] to < from -> from - 1
    [] OTHER -> from

HeldFrom(k) == k >= Pre

StepSpeed ==
  /\ isr_on
  /\ mode' = "SPEED"
  /\ \E c \in ReadBy("SPEED"), spd_step \in BOOLEAN, tick \in {FALSE, mode = "SPEED"} :
       LET seen == Baseline("SPEED")
           latch == Starts("SPEED", seen, c)
           start == latch /\ spd_step
           running == start \/ Entered("SPEED") = "RUNNING"
           k == IF start THEN 0 ELSE cap_idx
           step == running /\ HeldFrom(k)
           old == IF mode # "SPEED" THEN 0 ELSE target
           from == IF mode # "SPEED" THEN 0 ELSE ref
       IN  /\ cmd' = c
           /\ step_seen' = Seen(latch, seen, c)
           /\ cap' = IF start THEN Header(c, 2, old) ELSE cap
           /\ target' = IF latch THEN c.ref ELSE old
           /\ ref' = CASE ~tick -> from
                       [] tick /\ step -> target'
                       [] tick /\ running /\ ~step -> from
                       [] OTHER -> Ramp(from, target')
           /\ drive' = ref'
           /\ IF running /\ tick
              THEN Record(k, ref')
              ELSE /\ cap_state' = IF running THEN "RUNNING" ELSE Entered("SPEED")
                   /\ cap_idx' = k
                   /\ UNCHANGED samples
  /\ UNCHANGED <<isr_on, pc>>

(* A latched fault or pwm_adc_stop(): no control step comes any more.      *)
Fault ==
  /\ isr_on
  /\ isr_on' = FALSE
  /\ UNCHANGED <<cmd, mode, cap_state, buffer, step_seen, loop, pc>>

Isr == StepOther \/ StepStep \/ StepCurrent \/ StepSpeed

-----------------------------------------------------------------------------
(* The report thread: foc_ctrl_capture_get(), about half a second of       *)
(* printing, foc_ctrl_capture_release().                                   *)
Get ==
  /\ pc = "poll" /\ cap_state = "DONE"
  /\ pc' = "dump"
  /\ UNCHANGED <<cmd, mode, cap_state, buffer, step_seen, loop, isr_on>>

Release ==
  /\ pc = "dump"
  /\ cap_state' = IF cap_state = "DONE" THEN "IDLE" ELSE cap_state
  /\ pc' = "poll"
  /\ UNCHANGED <<cmd, mode, buffer, step_seen, loop, isr_on>>

Next == Write \/ Isr \/ Fault \/ Get \/ Release

Spec == Init /\ [][Next]_vars

(* The thread runs again and again, and the interrupt keeps coming in the  *)
(* mode it is in.                                                          *)
StayCurrent == mode = "CURRENT" /\ StepCurrent

FairSpec == Spec /\ WF_vars(Get \/ Release) /\ WF_vars(StayCurrent)

-----------------------------------------------------------------------------
(* Type correctness of the capture.                                        *)
TypeOK ==
  /\ cmd \in Commands /\ step_seen \in 0..MaxSeq
  /\ mode \in {"OTHER", "STEP", "CURRENT", "SPEED"}
  /\ cap_state \in {"IDLE", "RUNNING", "DONE"}
  /\ cap_idx \in 0..Len
  /\ cap \in [seq : 0..MaxSeq, kind : 0..2, old : Refs, new : Refs]
  /\ samples \in [0..Len - 1 -> Refs]
  /\ ref \in Refs /\ target \in Refs /\ drive \in Refs
  /\ isr_on \in BOOLEAN /\ pc \in {"poll", "dump"}

(* What sample k of a capture must show.                                   *)
Shows(k) ==
  CASE cap.kind = 0 -> samples[k] = IF Pre <= k /\ k < Pre + On THEN cap.new ELSE 0
    [] cap.kind = 1 -> samples[k] = IF Pre <= k THEN cap.new ELSE cap.old
    [] cap.kind = 2 -> samples[k] = IF Pre <= k THEN cap.new ELSE samples[0]

(* foc_ctrl.h:22-27, 41-43, 49-51 - whatever modes, faults, requests and   *)
(* releases came before, a finished capture shows the one step its header  *)
(* names, exactly at sample Pre.  The first sample is excepted: it may     *)
(* still answer the vector of the mode before.                             *)
CaptureIsOneStep ==
  cap_state = "DONE" => \A k \in 1..Len - 1 : Shows(k)

(* Every request is captured at most once, and never after a later one.    *)
RequestsInOrder ==
  [][cap_state # "RUNNING" /\ cap_state' = "RUNNING" => cap'.seq > cap.seq]_vars

(* foc_ctrl.h:42 - a request that found the buffer busy is not lost: as    *)
(* long as the mode stays, it or a later one is captured once the thread   *)
(* has released the buffer.                                                *)
DeferredRequestServed ==
  \A n \in 1..MaxSeq :
    (mode = "CURRENT" /\ cmd.seq = n /\ step_seen # n)
      ~> (cap.seq >= n \/ mode # "CURRENT" \/ ~isr_on)

(* The thread's buffer: the header and the samples, while it owns them.    *)
Offered == IF cap_state = "DONE" THEN <<cap, samples>> ELSE <<>>

HandoffSpec == INSTANCE Handoff WITH
  Nothing <- <<>>,
  item <- Offered,
  held <- pc = "dump"

ImplementsHandoff == HandoffSpec!Spec
=============================================================================

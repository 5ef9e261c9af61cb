----------------------- MODULE CaptureExchangeProofs ------------------------
(***************************************************************************)
(* Proofs about the step captures, for buffers of any length, steps of any *)
(* size and any number of requests.  Everything follows from one invariant *)
(* of the capture in progress: the samples already taken show the step the *)
(* header names, and the loop is about to produce the next one (Filling).  *)
(***************************************************************************)
EXTENDS CaptureExchange, TLAPS

(* The mode whose control step records a capture of this kind.             *)
ModeOf(kind) ==
  CASE kind = 0 -> "STEP" [] kind = 1 -> "CURRENT" [] kind = 2 -> "SPEED"

(* What the loop holds when sample cap_idx comes next.                     *)
NextShows ==
  CASE cap.kind = 0 ->
         drive = IF Pre <= cap_idx /\ cap_idx < Pre + On THEN cap.new ELSE 0
    [] cap.kind = 1 ->
         drive = ref /\ ref = IF Pre <= cap_idx THEN cap.new ELSE cap.old
    [] cap.kind = 2 ->
         /\ target = cap.new
         /\ cap_idx >= 1 => ref = IF Pre < cap_idx THEN cap.new ELSE samples[0]

Filling ==
  cap_state = "RUNNING" =>
    /\ mode = ModeOf(cap.kind)
    /\ cap_idx < Len /\ (cap.kind # 2 => cap_idx >= 1)
    /\ \A k \in 1..cap_idx - 1 : Shows(k)
    /\ NextShows

Ordered == cap.seq <= step_seen /\ step_seen <= cmd.seq

Owned == pc = "dump" => cap_state = "DONE"

CaptureInv == TypeOK /\ Ordered /\ Owned /\ Filling /\ CaptureIsOneStep

-----------------------------------------------------------------------------
(* What an interrupt can do to the buffer: leave it alone, except that a   *)
(* mode change cancels a running capture, ...                              *)
Rests ==
  /\ cap_state' # "RUNNING" /\ (cap_state' = "DONE" <=> cap_state = "DONE")
  /\ cap' = cap /\ samples' = samples

(* ... begin a capture of a request newer than every other one, ...        *)
Begins(c, kind, old) ==
  /\ cap_state # "DONE"
  /\ c \in Commands /\ c.seq > step_seen
  /\ cap' = Header(c, kind, old) /\ step_seen' = c.seq /\ cmd' = c

(* ... or go on with the one of its own mode.                              *)
GoesOn(m) == mode = m /\ cap_state = "RUNNING" /\ cap' = cap

LEMMA ReadFacts ==
  ASSUME TypeOK, NEW m, NEW c \in ReadBy(m)
  PROVE  /\ c \in Commands /\ c.seq \in 0..MaxSeq /\ c.ref \in Refs
         /\ c.seq >= cmd.seq /\ (mode = m => c = cmd)
<1>1. CASE c = cmd
  BY <1>1 DEF TypeOK, Commands
<1>2. CASE mode # m /\ c \in Written
  <2>1. cmd.seq < MaxSeq /\ cmd.seq \in 0..MaxSeq
    BY <1>2 DEF Written, TypeOK, Commands
  <2>2. PICK r \in Refs : c = [seq |-> cmd.seq + 1, ref |-> r]
    BY <1>2 DEF Written
  <2>3. cmd.seq + 1 \in 0..MaxSeq
    BY <2>1, CaptureAssumption
  <2> QED
    BY <1>2, <2>1, <2>2, <2>3 DEF Commands
<1> QED
  BY <1>1, <1>2 DEF ReadBy

LEMMA EnteredFacts ==
  ASSUME TypeOK, NEW m
  PROVE  /\ Entered(m) \in {"IDLE", "RUNNING", "DONE"}
         /\ Entered(m) = "DONE" <=> cap_state = "DONE"
         /\ Entered(m) = "RUNNING" <=> (mode = m /\ cap_state = "RUNNING")
  BY DEF Entered, TypeOK

LEMMA RecordFacts ==
  ASSUME TypeOK, NEW k \in 0..Len - 1, NEW x \in Refs, Record(k, x)
  PROVE  /\ samples' \in [0..Len - 1 -> Refs] /\ samples'[k] = x
         /\ \A j \in 0..Len - 1 : j # k => samples'[j] = samples[j]
         /\ cap_idx' = k + 1 /\ cap_idx' \in 0..Len
         /\ cap_state' = IF k + 1 = Len THEN "DONE" ELSE "RUNNING"
  BY CaptureAssumption DEF Record, LastSample, TypeOK

LEMMA HeaderType ==
  ASSUME NEW c \in Commands, NEW kind \in 0..2, NEW old \in Refs
  PROVE  /\ Header(c, kind, old) \in [seq : 0..MaxSeq, kind : 0..2, old : Refs, new : Refs]
         /\ Header(c, kind, old).seq = c.seq /\ Header(c, kind, old).kind = kind
         /\ Header(c, kind, old).old = old /\ Header(c, kind, old).new = c.ref
  BY DEF Header, Commands

LEMMA RampStays ==
  ASSUME NEW from \in Refs, NEW to \in Refs
  PROVE  Ramp(from, to) \in Refs
<1>1. from \in Nat /\ to \in Nat /\ 0..from \subseteq Refs /\ 0..to \subseteq Refs
  BY CaptureAssumption
<1>2. CASE to > from
  BY <1>1, <1>2 DEF Ramp
<1>3. CASE to < from
  BY <1>1, <1>3 DEF Ramp
<1>4. CASE to = from
  BY <1>1, <1>4 DEF Ramp
<1> QED
  BY <1>1, <1>2, <1>3, <1>4

-----------------------------------------------------------------------------
(* The three modes, each split into what it can do to the buffer.          *)
LEMMA StepStepDoes ==
  ASSUME TypeOK, Ordered, StepStep
  PROVE  /\ mode' = "STEP" /\ UNCHANGED <<ref, target, isr_on, pc>>
         /\ \/ Rests /\ drive' = 0 /\ UNCHANGED <<cmd, step_seen, cap_idx>>
            \/ /\ Begins(cmd, 0, 0) /\ Record(0, drive)
               /\ drive' = IF StepOn(0) THEN cap'.new ELSE 0
            \/ /\ GoesOn("STEP") /\ Record(cap_idx, drive)
               /\ UNCHANGED <<cmd, step_seen>>
               /\ drive' = IF StepOn(cap_idx) THEN cap'.new ELSE 0
<1> DEFINE start == Starts("STEP", step_seen, cmd)
           running == start \/ Entered("STEP") = "RUNNING"
           k == IF start THEN 0 ELSE cap_idx
<1>1. /\ mode' = "STEP" /\ UNCHANGED <<cmd, ref, target, isr_on, pc>>
      /\ step_seen' = Seen(start, step_seen, cmd)
      /\ cap' = IF start THEN Header(cmd, 0, 0) ELSE cap
  BY DEF StepStep
<1>2. running => /\ Record(k, drive)
                 /\ drive' = IF StepOn(k) THEN cap'.new ELSE 0
  BY DEF StepStep
<1>3. ~running => /\ cap_state' = Entered("STEP") /\ drive' = 0
                  /\ UNCHANGED <<cap_idx, samples>>
  BY DEF StepStep
<1>4. CASE start
  <2>1. cmd \in Commands /\ cmd.seq \in Nat /\ step_seen \in Nat
    BY DEF TypeOK, Commands
  <2> QED
    BY <1>1, <1>2, <1>4, <2>1, EnteredFacts DEF Begins, Seen, Starts, Ordered
<1>5. CASE ~start /\ running
  BY <1>1, <1>2, <1>5, EnteredFacts DEF GoesOn, Seen
<1>6. CASE ~running
  BY <1>1, <1>3, <1>6, EnteredFacts DEF Rests, Seen
<1> QED
  BY <1>4, <1>5, <1>6

LEMMA StepCurrentDoes ==
  ASSUME TypeOK, Ordered, StepCurrent
  PROVE  /\ mode' = "CURRENT" /\ UNCHANGED <<isr_on, pc>>
         /\ target' \in Refs /\ ref' \in Refs /\ drive' = ref'
         /\ \/ /\ Rests /\ cap_idx' = cap_idx
               /\ cmd' \in Commands /\ cmd'.seq >= cmd.seq
               /\ step_seen' = step_seen \/ step_seen' = cmd.seq
            \/ \E c \in Commands, old \in Refs :
                 /\ Begins(c, 1, old) /\ Record(0, drive)
                 /\ ref' = IF RefDue(0) THEN c.ref ELSE old
            \/ /\ GoesOn("CURRENT") /\ Record(cap_idx, drive)
               /\ UNCHANGED <<cmd, step_seen>>
               /\ ref' = IF RefDue(cap_idx) THEN cap.new ELSE ref
<1>1. PICK c \in ReadBy("CURRENT") :
        LET seen == Baseline("CURRENT")
            start == Starts("CURRENT", seen, c)
            running == start \/ Entered("CURRENT") = "RUNNING"
            k == IF start THEN 0 ELSE cap_idx
            old == IF mode # "CURRENT" THEN 0 ELSE ref
        IN  /\ cmd' = c
            /\ step_seen' = Seen(start, seen, c)
            /\ cap' = IF start THEN Header(c, 1, old) ELSE cap
            /\ ref' = IF running /\ RefDue(k) THEN cap'.new ELSE old
            /\ drive' = ref'
            /\ target' = IF mode # "CURRENT" THEN 0 ELSE target
            /\ IF running
               THEN Record(k, drive)
               ELSE cap_state' = Entered("CURRENT") /\ UNCHANGED <<cap_idx, samples>>
  BY DEF StepCurrent
<1> DEFINE seen == Baseline("CURRENT")
           start == Starts("CURRENT", seen, c)
           old == IF mode # "CURRENT" THEN 0 ELSE ref
<1>2. /\ c \in Commands /\ c.seq \in 0..MaxSeq /\ c.ref \in Refs
      /\ c.seq >= cmd.seq /\ (mode = "CURRENT" => c = cmd)
  BY ReadFacts
<1>3. /\ cmd.seq \in Nat /\ step_seen \in Nat /\ c.seq \in Nat /\ old \in Refs
      /\ seen = step_seen \/ seen = cmd.seq
      /\ mode = "CURRENT" => seen = step_seen
      /\ cap.new \in Refs
  BY <1>2, CaptureAssumption DEF TypeOK, Commands, Baseline
<1>4. mode' = "CURRENT" /\ UNCHANGED <<isr_on, pc>> /\ target' \in Refs
  BY <1>1, CaptureAssumption DEF StepCurrent, TypeOK
<1>5. CASE start
  <2>1. cap' = Header(c, 1, old) /\ cap'.new = c.ref /\ step_seen' = c.seq
    BY <1>1, <1>2, <1>3, <1>5, HeaderType DEF Seen
  <2>2. Record(0, drive) /\ drive' = ref' /\ cmd' = c
        /\ ref' = IF RefDue(0) THEN c.ref ELSE old
    BY <1>1, <1>5, <2>1
  <2>3. c.seq > step_seen /\ cap_state # "DONE"
    BY <1>2, <1>3, <1>5, EnteredFacts DEF Starts, Ordered
  <2> QED
    BY <1>2, <1>3, <1>4, <2>1, <2>2, <2>3 DEF Begins
<1>6. CASE ~start /\ Entered("CURRENT") = "RUNNING"
  <2>1. mode = "CURRENT" /\ cap_state = "RUNNING" /\ old = ref
    BY <1>6, EnteredFacts
  <2>2. /\ cap' = cap /\ cmd' = cmd /\ step_seen' = step_seen
        /\ Record(cap_idx, drive) /\ drive' = ref'
        /\ ref' = IF RefDue(cap_idx) THEN cap.new ELSE ref
    BY <1>1, <1>2, <1>3, <1>6, <2>1 DEF Seen
  <2> QED
    BY <1>3, <1>4, <2>1, <2>2 DEF GoesOn
<1>7. CASE ~start /\ Entered("CURRENT") # "RUNNING"
  <2>1. /\ cap' = cap /\ cmd' = c /\ step_seen' = seen
        /\ cap_state' = Entered("CURRENT") /\ UNCHANGED <<cap_idx, samples>>
        /\ ref' = old /\ drive' = ref'
    BY <1>1, <1>7 DEF Seen
  <2>2. Rests
    BY <1>7, <2>1, EnteredFacts DEF Rests
  <2> QED
    BY <1>2, <1>3, <1>4, <2>1, <2>2
<1> QED
  BY <1>5, <1>6, <1>7

LEMMA StepSpeedDoes ==
  ASSUME TypeOK, Ordered, StepSpeed
  PROVE  /\ mode' = "SPEED" /\ UNCHANGED <<isr_on, pc>>
         /\ target' \in Refs /\ ref' \in Refs /\ drive' = ref'
         /\ \/ /\ Rests /\ cap_idx' = cap_idx
               /\ cmd' \in Commands /\ cmd'.seq >= cmd.seq
               /\ \/ step_seen' = step_seen \/ step_seen' = cmd.seq
                  \/ step_seen' = cmd'.seq
            \/ \E c \in Commands, old \in Refs :
                 /\ Begins(c, 2, old) /\ target' = c.ref
                 /\ \/ Record(0, ref')
                    \/ cap_state' = "RUNNING" /\ cap_idx' = 0 /\ samples' = samples
            \/ /\ GoesOn("SPEED") /\ UNCHANGED <<cmd, step_seen, target>>
               /\ \/ /\ Record(cap_idx, ref')
                     /\ ref' = IF cap_idx >= Pre THEN target ELSE ref
                  \/ /\ cap_state' = "RUNNING"
                     /\ UNCHANGED <<cap_idx, samples, ref>>
<1>1. PICK c \in ReadBy("SPEED"), spd_step \in BOOLEAN, tick \in {FALSE, mode = "SPEED"} :
        LET seen == Baseline("SPEED")
            latch == Starts("SPEED", seen, c)
            start == latch /\ spd_step
            running == start \/ Entered("SPEED") = "RUNNING"
            k == IF start THEN 0 ELSE cap_idx
            step == running /\ HeldFrom(k)
            old == IF mode # "SPEED" THEN 0 ELSE target
            from == IF mode # "SPEED" THEN 0 ELSE ref
        IN  /\ cmd' = c
            /\ step_seen' = Seen(latch, seen, c)
            /\ cap' = IF start THEN Header(c, 2, old) ELSE cap
            /\ target' = IF latch THEN c.ref ELSE old
            /\ ref' = CASE ~tick -> from
                        [] tick /\ step -> target'
                        [] tick /\ running /\ ~step -> from
                        [] OTHER -> Ramp(from, target')
            /\ drive' = ref'
            /\ IF running /\ tick
               THEN Record(k, ref')
               ELSE /\ cap_state' = IF running THEN "RUNNING" ELSE Entered("SPEED")
                    /\ cap_idx' = k
                    /\ UNCHANGED samples
  BY DEF StepSpeed
<1> DEFINE seen == Baseline("SPEED")
           latch == Starts("SPEED", seen, c)
           start == latch /\ spd_step
           old == IF mode # "SPEED" THEN 0 ELSE target
           from == IF mode # "SPEED" THEN 0 ELSE ref
<1>2. /\ c \in Commands /\ c.seq \in 0..MaxSeq /\ c.ref \in Refs
      /\ c.seq >= cmd.seq /\ (mode = "SPEED" => c = cmd)
  BY ReadFacts
<1>3. /\ cmd.seq \in Nat /\ step_seen \in Nat /\ c.seq \in Nat
      /\ old \in Refs /\ from \in Refs
      /\ seen = step_seen \/ seen = cmd.seq
      /\ mode = "SPEED" => seen = step_seen
  BY <1>2, CaptureAssumption DEF TypeOK, Commands, Baseline
<1>4. mode' = "SPEED" /\ UNCHANGED <<isr_on, pc>>
  BY DEF StepSpeed
<1>5. target' \in Refs /\ target' = (IF latch THEN c.ref ELSE old)
  BY <1>1, <1>2, <1>3
<1>6. ref' \in Refs /\ drive' = ref'
  <2>1. \/ ref' = from \/ ref' = target' \/ ref' = Ramp(from, target')
    BY <1>1
  <2> QED
    BY <1>1, <1>3, <1>5, <2>1, RampStays
<1>7. CASE start
  <2>1. cap' = Header(c, 2, old) /\ step_seen' = c.seq /\ cmd' = c /\ target' = c.ref
    BY <1>1, <1>7 DEF Seen
  <2>2. c.seq > step_seen /\ cap_state # "DONE"
    BY <1>2, <1>3, <1>7, EnteredFacts DEF Starts, Ordered
  <2>3. \/ Record(0, ref')
        \/ cap_state' = "RUNNING" /\ cap_idx' = 0 /\ samples' = samples
    BY <1>1, <1>7
  <2> QED
    BY <1>2, <1>3, <1>4, <1>5, <1>6, <2>1, <2>2, <2>3 DEF Begins
<1>8. CASE ~start /\ Entered("SPEED") = "RUNNING"
  <2>1. mode = "SPEED" /\ cap_state = "RUNNING" /\ old = target /\ from = ref
        /\ ~latch
    BY <1>8, EnteredFacts DEF Starts
  <2>2. /\ cap' = cap /\ cmd' = cmd /\ step_seen' = step_seen /\ target' = target
    BY <1>1, <1>2, <1>3, <1>8, <2>1 DEF Seen
  <2>3. CASE tick
    BY <1>1, <1>4, <1>5, <1>6, <1>8, <2>1, <2>2, <2>3 DEF GoesOn, HeldFrom
  <2>4. CASE ~tick
    BY <1>1, <1>4, <1>5, <1>6, <1>8, <2>1, <2>2, <2>4 DEF GoesOn
  <2> QED
    BY <2>3, <2>4
<1>9. CASE ~start /\ Entered("SPEED") # "RUNNING"
  <2>1. /\ cap' = cap /\ cmd' = c /\ cap_state' = Entered("SPEED")
        /\ cap_idx' = cap_idx /\ samples' = samples
        /\ step_seen' = seen \/ step_seen' = c.seq
    BY <1>1, <1>9 DEF Seen
  <2>2. Rests
    BY <1>9, <2>1, EnteredFacts DEF Rests
  <2> QED
    BY <1>2, <1>3, <1>4, <1>5, <1>6, <2>1, <2>2
<1> QED
  BY <1>7, <1>8, <1>9

-----------------------------------------------------------------------------
(* What each of the three leaves of the invariant.                         *)
LEMMA RestsKeeps ==
  ASSUME CaptureInv, Rests, cap_idx' = cap_idx, pc' = pc,
         mode' \in {"OTHER", "STEP", "CURRENT", "SPEED"}, isr_on' \in BOOLEAN,
         cmd' \in Commands, step_seen' \in Nat, step_seen <= step_seen',
         step_seen' <= cmd'.seq, ref' \in Refs, target' \in Refs, drive' \in Refs,
         cap_state' \in {"IDLE", "RUNNING", "DONE"}
  PROVE  CaptureInv'
<1>1. cmd'.seq \in 0..MaxSeq /\ step_seen' \in 0..MaxSeq
  BY CaptureAssumption DEF Commands
<1>2. TypeOK'
  BY <1>1 DEF CaptureInv, TypeOK, Rests
<1>3. Ordered'
  BY <1>1 DEF CaptureInv, TypeOK, Ordered, Rests
<1>4. Owned' /\ Filling'
  BY DEF CaptureInv, Owned, Filling, Rests
<1>5. CaptureIsOneStep'
  BY DEF CaptureInv, CaptureIsOneStep, Shows, Rests
<1> QED
  BY <1>2, <1>3, <1>4, <1>5 DEF CaptureInv

(* The shape of a capture that has begun, before what it shows.            *)
LEMMA BeginsKeeps ==
  ASSUME CaptureInv, NEW c \in Commands, NEW kind \in 0..2, NEW old \in Refs,
         Begins(c, kind, old), pc' = pc, mode' = ModeOf(kind), isr_on' \in BOOLEAN,
         ref' \in Refs, target' \in Refs, drive' \in Refs,
         \/ \E x \in Refs : Record(0, x) /\ (kind = 2 => x = ref')
         \/ /\ kind = 2 /\ cap_state' = "RUNNING" /\ cap_idx' = 0
            /\ samples' = samples,
         kind = 0 => drive' = IF StepOn(0) THEN c.ref ELSE 0,
         kind = 1 => drive' = ref' /\ ref' = IF RefDue(0) THEN c.ref ELSE old,
         kind = 2 => target' = c.ref
  PROVE  CaptureInv'
<1>1. /\ cap' \in [seq : 0..MaxSeq, kind : 0..2, old : Refs, new : Refs]
      /\ cap'.seq = c.seq /\ cap'.kind = kind /\ cap'.old = old /\ cap'.new = c.ref
      /\ cmd' = c /\ step_seen' = c.seq /\ c.seq \in 0..MaxSeq /\ c.ref \in Refs
  BY HeaderType DEF Begins, Commands
<1>2. Len > 1 /\ Len \in Nat /\ Pre \in Nat \ {0} /\ On \in Nat
  BY CaptureAssumption
<1>3. CASE \E x \in Refs : Record(0, x) /\ (kind = 2 => x = ref')
  <2>1. PICK x \in Refs : Record(0, x) /\ (kind = 2 => x = ref')
    BY <1>3
  <2>2. /\ samples' \in [0..Len - 1 -> Refs] /\ samples'[0] = x
        /\ cap_idx' = 1 /\ cap_idx' \in 0..Len /\ cap_state' = "RUNNING"
    BY <1>2, <2>1, RecordFacts DEF CaptureInv
  <2>3. mode' \in {"STEP", "CURRENT", "SPEED"}
    BY DEF ModeOf
  <2>4. TypeOK'
    BY <1>1, <2>2, <2>3 DEF CaptureInv, TypeOK
  <2>5. NextShows'
    <3>1. CASE kind = 0
      BY <1>1, <1>2, <2>2, <3>1 DEF NextShows, StepOn
    <3>2. CASE kind = 1
      BY <1>1, <1>2, <2>2, <3>2 DEF NextShows, RefDue
    <3>3. CASE kind = 2
      BY <1>1, <1>2, <2>1, <2>2, <3>3 DEF NextShows
    <3> QED
      BY <3>1, <3>2, <3>3
  <2>6. Filling'
    BY <1>1, <1>2, <2>2, <2>5 DEF Filling
  <2>7. Ordered' /\ Owned' /\ CaptureIsOneStep'
    BY <1>1, <2>2 DEF Ordered, Owned, CaptureInv, CaptureIsOneStep, Begins
  <2> QED
    BY <2>4, <2>6, <2>7 DEF CaptureInv
<1>4. CASE kind = 2 /\ cap_state' = "RUNNING" /\ cap_idx' = 0 /\ samples' = samples
  <2>1. mode' = "SPEED"
    BY <1>4 DEF ModeOf
  <2>2. TypeOK'
    BY <1>1, <1>2, <1>4, <2>1 DEF CaptureInv, TypeOK
  <2>3. Filling'
    BY <1>1, <1>2, <1>4, <2>1 DEF Filling, NextShows, ModeOf
  <2>4. Ordered' /\ Owned' /\ CaptureIsOneStep'
    BY <1>1, <1>4 DEF Ordered, Owned, CaptureInv, CaptureIsOneStep, Begins
  <2> QED
    BY <2>2, <2>3, <2>4 DEF CaptureInv
<1> QED
  BY <1>3, <1>4

(* A capture that takes sample k shows it, and the loop is ready for the   *)
(* sample after it.                                                        *)
LEMMA GoesOnKeeps ==
  ASSUME CaptureInv, GoesOn(ModeOf(cap.kind)), NEW x \in Refs, Record(cap_idx, x),
         mode' = mode, isr_on' \in BOOLEAN, pc' = pc, UNCHANGED <<cmd, step_seen>>,
         ref' \in Refs, target' \in Refs, drive' \in Refs,
         cap.kind = 0 => x = drive /\ drive' = IF StepOn(cap_idx) THEN cap.new ELSE 0,
         cap.kind = 1 => /\ x = drive /\ drive' = ref'
                         /\ ref' = IF RefDue(cap_idx) THEN cap.new ELSE ref,
         cap.kind = 2 => /\ x = ref' /\ target' = target
                         /\ ref' = IF cap_idx >= Pre THEN target ELSE ref
  PROVE  CaptureInv'
<1>1. /\ cap' = cap /\ cap_state = "RUNNING" /\ cap_idx \in 0..Len - 1
      /\ cap.kind \in 0..2 /\ (cap.kind # 2 => cap_idx >= 1)
      /\ mode = ModeOf(cap.kind) /\ NextShows
      /\ \A k \in 1..cap_idx - 1 : Shows(k)
  BY CaptureAssumption DEF CaptureInv, Filling, GoesOn, TypeOK
<1>2. Len > 1 /\ Len \in Nat /\ Pre \in Nat \ {0} /\ On \in Nat
  BY CaptureAssumption
<1>3. /\ samples' \in [0..Len - 1 -> Refs] /\ samples'[cap_idx] = x
      /\ \A j \in 0..Len - 1 : j # cap_idx => samples'[j] = samples[j]
      /\ cap_idx' = cap_idx + 1 /\ cap_idx' \in 0..Len
      /\ cap_state' = IF cap_idx + 1 = Len THEN "DONE" ELSE "RUNNING"
  BY <1>1, RecordFacts DEF CaptureInv
<1>4. TypeOK'
  BY <1>1, <1>3 DEF CaptureInv, TypeOK
<1>5. ASSUME NEW k \in 1..cap_idx
      PROVE  Shows(k)'
  <2>1. CASE k < cap_idx
    <3>1. Shows(k) /\ samples'[k] = samples[k] /\ samples'[0] = samples[0]
      BY <1>1, <1>2, <1>3, <2>1
    <3> QED
      BY <1>1, <3>1 DEF Shows
  <2>2. CASE k = cap_idx
    <3>1. samples'[k] = x /\ samples'[0] = samples[0] /\ cap_idx >= 1
      BY <1>1, <1>2, <1>3, <2>2
    <3>2. CASE cap.kind = 0
      BY <1>1, <2>2, <3>1, <3>2 DEF Shows, NextShows
    <3>3. CASE cap.kind = 1
      BY <1>1, <2>2, <3>1, <3>3 DEF Shows, NextShows
    <3>4. CASE cap.kind = 2
      BY <1>1, <1>2, <2>2, <3>1, <3>4 DEF Shows, NextShows
    <3> QED
      BY <1>1, <3>2, <3>3, <3>4
  <2> QED
    BY <1>1, <2>1, <2>2
<1>6. NextShows'
  <2>1. CASE cap.kind = 0
    BY <1>1, <1>2, <1>3, <2>1 DEF NextShows, StepOn
  <2>2. CASE cap.kind = 1
    BY <1>1, <1>2, <1>3, <2>2 DEF NextShows, RefDue
  <2>3. CASE cap.kind = 2
    <3>1. cap_idx = 0 => samples'[0] = ref'
      BY <1>3, <2>3
    <3>2. cap_idx > 0 => samples'[0] = samples[0]
      BY <1>1, <1>2, <1>3
    <3> QED
      BY <1>1, <1>2, <1>3, <2>3, <3>1, <3>2 DEF NextShows
  <2> QED
    BY <1>1, <2>1, <2>2, <2>3
<1>7. Filling'
  BY <1>1, <1>2, <1>3, <1>5, <1>6 DEF Filling
<1>8. CaptureIsOneStep'
  BY <1>1, <1>2, <1>3, <1>5 DEF CaptureIsOneStep
<1>9. Ordered' /\ Owned'
  BY <1>1 DEF CaptureInv, Ordered, Owned
<1> QED
  BY <1>4, <1>7, <1>8, <1>9 DEF CaptureInv

-----------------------------------------------------------------------------
(* One lemma per action.                                                   *)
LEMMA StepOtherKeeps == ASSUME CaptureInv, StepOther PROVE CaptureInv'
<1>1. Rests /\ cap_state' \in {"IDLE", "RUNNING", "DONE"}
  BY EnteredFacts DEF StepOther, CaptureInv, TypeOK, Rests, Entered, buffer, Filling, ModeOf
<1>2. step_seen' \in Nat /\ step_seen <= step_seen' /\ step_seen' <= cmd'.seq
  BY DEF StepOther, CaptureInv, TypeOK, Ordered
<1>3. /\ cap_idx' = cap_idx /\ pc' = pc /\ mode' = "OTHER" /\ isr_on' \in BOOLEAN
      /\ cmd' \in Commands /\ ref' \in Refs /\ target' \in Refs /\ drive' \in Refs
  BY DEF StepOther, CaptureInv, TypeOK, buffer
<1> QED
  BY <1>1, <1>2, <1>3, RestsKeeps

LEMMA StepStepKeeps == ASSUME CaptureInv, StepStep PROVE CaptureInv'
<1>1. /\ mode' = "STEP" /\ UNCHANGED <<ref, target, isr_on, pc>>
      /\ \/ Rests /\ drive' = 0 /\ UNCHANGED <<cmd, step_seen, cap_idx>>
         \/ /\ Begins(cmd, 0, 0) /\ Record(0, drive)
            /\ drive' = IF StepOn(0) THEN cap'.new ELSE 0
         \/ /\ GoesOn("STEP") /\ Record(cap_idx, drive)
            /\ UNCHANGED <<cmd, step_seen>>
            /\ drive' = IF StepOn(cap_idx) THEN cap'.new ELSE 0
  BY StepStepDoes DEF CaptureInv
<1>2. /\ isr_on' \in BOOLEAN /\ ref' \in Refs /\ target' \in Refs /\ drive \in Refs
      /\ 0 \in Refs /\ cap.new \in Refs /\ cmd \in Commands /\ cmd.ref \in Refs
  BY <1>1, CaptureAssumption DEF CaptureInv, TypeOK, Commands
<1>3. CASE Rests /\ drive' = 0 /\ UNCHANGED <<cmd, step_seen, cap_idx>>
  <2>1. step_seen' \in Nat /\ step_seen <= step_seen' /\ step_seen' <= cmd'.seq
    BY <1>3 DEF CaptureInv, TypeOK, Ordered
  <2>2. cap_state' \in {"IDLE", "RUNNING", "DONE"}
    <3>1. cap_state' = Entered("STEP") \/ cap_state' = "RUNNING" \/ cap_state' = "DONE"
      BY DEF StepStep, Record
    <3> QED
      BY <3>1, EnteredFacts DEF CaptureInv
  <2> QED
    BY <1>1, <1>2, <1>3, <2>1, <2>2, RestsKeeps
<1>4. CASE /\ Begins(cmd, 0, 0) /\ Record(0, drive)
           /\ drive' = IF StepOn(0) THEN cap'.new ELSE 0
  <2>1. cap'.new = cmd.ref
    BY <1>4 DEF Begins, Header
  <2>2. drive' \in Refs /\ drive' = (IF StepOn(0) THEN cmd.ref ELSE 0)
    BY <1>2, <1>4, <2>1
  <2>3. mode' = ModeOf(0)
    BY <1>1 DEF ModeOf
  <2> QED
    BY <1>1, <1>2, <1>4, <2>2, <2>3, BeginsKeeps
<1>5. CASE /\ GoesOn("STEP") /\ Record(cap_idx, drive)
           /\ UNCHANGED <<cmd, step_seen>>
           /\ drive' = IF StepOn(cap_idx) THEN cap'.new ELSE 0
  <2>1. cap.kind = 0 /\ ModeOf(cap.kind) = "STEP"
    BY <1>5 DEF GoesOn, CaptureInv, Filling, ModeOf, TypeOK
  <2>2. drive' \in Refs /\ drive' = (IF StepOn(cap_idx) THEN cap.new ELSE 0)
        /\ mode' = mode
    BY <1>1, <1>2, <1>5 DEF GoesOn
  <2> QED
    BY <1>1, <1>2, <1>5, <2>1, <2>2, GoesOnKeeps
<1> QED
  BY <1>1, <1>3, <1>4, <1>5

LEMMA StepCurrentKeeps == ASSUME CaptureInv, StepCurrent PROVE CaptureInv'
<1>1. /\ mode' = "CURRENT" /\ UNCHANGED <<isr_on, pc>>
      /\ target' \in Refs /\ ref' \in Refs /\ drive' = ref'
      /\ \/ /\ Rests /\ cap_idx' = cap_idx
            /\ cmd' \in Commands /\ cmd'.seq >= cmd.seq
            /\ step_seen' = step_seen \/ step_seen' = cmd.seq
         \/ \E c \in Commands, old \in Refs :
              /\ Begins(c, 1, old) /\ Record(0, drive)
              /\ ref' = IF RefDue(0) THEN c.ref ELSE old
         \/ /\ GoesOn("CURRENT") /\ Record(cap_idx, drive)
            /\ UNCHANGED <<cmd, step_seen>>
            /\ ref' = IF RefDue(cap_idx) THEN cap.new ELSE ref
  BY StepCurrentDoes DEF CaptureInv
<1>2. isr_on' \in BOOLEAN /\ drive \in Refs /\ drive' \in Refs
  BY <1>1 DEF CaptureInv, TypeOK
<1>3. CASE /\ Rests /\ cap_idx' = cap_idx
           /\ cmd' \in Commands /\ cmd'.seq >= cmd.seq
           /\ step_seen' = step_seen \/ step_seen' = cmd.seq
  <2>1. step_seen' \in Nat /\ step_seen <= step_seen' /\ step_seen' <= cmd'.seq
    BY <1>3 DEF CaptureInv, TypeOK, Ordered, Commands
  <2>2. cap_state' \in {"IDLE", "RUNNING", "DONE"}
    <3>1. cap_state' = Entered("CURRENT") \/ cap_state' = "RUNNING" \/ cap_state' = "DONE"
      BY DEF StepCurrent, Record
    <3> QED
      BY <3>1, EnteredFacts DEF CaptureInv
  <2> QED
    BY <1>1, <1>2, <1>3, <2>1, <2>2, RestsKeeps
<1>4. CASE \E c \in Commands, old \in Refs :
             /\ Begins(c, 1, old) /\ Record(0, drive)
             /\ ref' = IF RefDue(0) THEN c.ref ELSE old
  <2>1. PICK c \in Commands, old \in Refs :
             /\ Begins(c, 1, old) /\ Record(0, drive)
             /\ ref' = IF RefDue(0) THEN c.ref ELSE old
    BY <1>4
  <2>2. mode' = ModeOf(1)
    BY <1>1 DEF ModeOf
  <2> QED
    BY <1>1, <1>2, <2>1, <2>2, BeginsKeeps
<1>5. CASE /\ GoesOn("CURRENT") /\ Record(cap_idx, drive)
           /\ UNCHANGED <<cmd, step_seen>>
           /\ ref' = IF RefDue(cap_idx) THEN cap.new ELSE ref
  <2>1. cap.kind = 1 /\ ModeOf(cap.kind) = "CURRENT" /\ mode' = mode
    BY <1>1, <1>5 DEF GoesOn, CaptureInv, Filling, ModeOf, TypeOK
  <2> QED
    BY <1>1, <1>2, <1>5, <2>1, GoesOnKeeps
<1> QED
  BY <1>1, <1>3, <1>4, <1>5

LEMMA StepSpeedKeeps == ASSUME CaptureInv, StepSpeed PROVE CaptureInv'
<1>1. /\ mode' = "SPEED" /\ UNCHANGED <<isr_on, pc>>
      /\ target' \in Refs /\ ref' \in Refs /\ drive' = ref'
      /\ \/ /\ Rests /\ cap_idx' = cap_idx
            /\ cmd' \in Commands /\ cmd'.seq >= cmd.seq
            /\ \/ step_seen' = step_seen \/ step_seen' = cmd.seq
               \/ step_seen' = cmd'.seq
         \/ \E c \in Commands, old \in Refs :
              /\ Begins(c, 2, old) /\ target' = c.ref
              /\ \/ Record(0, ref')
                 \/ cap_state' = "RUNNING" /\ cap_idx' = 0 /\ samples' = samples
         \/ /\ GoesOn("SPEED") /\ UNCHANGED <<cmd, step_seen, target>>
            /\ \/ /\ Record(cap_idx, ref')
                  /\ ref' = IF cap_idx >= Pre THEN target ELSE ref
               \/ /\ cap_state' = "RUNNING"
                  /\ UNCHANGED <<cap_idx, samples, ref>>
  BY StepSpeedDoes DEF CaptureInv
<1>2. isr_on' \in BOOLEAN /\ drive' \in Refs
  BY <1>1 DEF CaptureInv, TypeOK
<1>3. CASE /\ Rests /\ cap_idx' = cap_idx
           /\ cmd' \in Commands /\ cmd'.seq >= cmd.seq
           /\ \/ step_seen' = step_seen \/ step_seen' = cmd.seq
              \/ step_seen' = cmd'.seq
  <2>1. step_seen' \in Nat /\ step_seen <= step_seen' /\ step_seen' <= cmd'.seq
    BY <1>3 DEF CaptureInv, TypeOK, Ordered, Commands
  <2>2. cap_state' \in {"IDLE", "RUNNING", "DONE"}
    <3>1. cap_state' = Entered("SPEED") \/ cap_state' = "RUNNING" \/ cap_state' = "DONE"
      BY DEF StepSpeed, Record
    <3> QED
      BY <3>1, EnteredFacts DEF CaptureInv
  <2> QED
    BY <1>1, <1>2, <1>3, <2>1, <2>2, RestsKeeps
<1>4. CASE \E c \in Commands, old \in Refs :
              /\ Begins(c, 2, old) /\ target' = c.ref
              /\ \/ Record(0, ref')
                 \/ cap_state' = "RUNNING" /\ cap_idx' = 0 /\ samples' = samples
  <2>1. PICK c \in Commands, old \in Refs :
              /\ Begins(c, 2, old) /\ target' = c.ref
              /\ \/ Record(0, ref')
                 \/ cap_state' = "RUNNING" /\ cap_idx' = 0 /\ samples' = samples
    BY <1>4
  <2>2. mode' = ModeOf(2)
    BY <1>1 DEF ModeOf
  <2> QED
    BY <1>1, <1>2, <2>1, <2>2, BeginsKeeps
<1>5. CASE /\ GoesOn("SPEED") /\ UNCHANGED <<cmd, step_seen, target>>
           /\ \/ /\ Record(cap_idx, ref')
                 /\ ref' = IF cap_idx >= Pre THEN target ELSE ref
              \/ /\ cap_state' = "RUNNING"
                 /\ UNCHANGED <<cap_idx, samples, ref>>
  <2>1. cap.kind = 2 /\ ModeOf(cap.kind) = "SPEED" /\ mode' = mode
    BY <1>1, <1>5 DEF GoesOn, CaptureInv, Filling, ModeOf, TypeOK
  <2>2. CASE /\ Record(cap_idx, ref')
             /\ ref' = IF cap_idx >= Pre THEN target ELSE ref
    BY <1>1, <1>2, <1>5, <2>1, <2>2, GoesOnKeeps
  <2>3. CASE cap_state' = "RUNNING" /\ UNCHANGED <<cap_idx, samples, ref>>
    <3>1. /\ cap_state = "RUNNING" /\ UNCHANGED <<cmd, step_seen, target, pc>>
          /\ cap' = cap
      BY <1>1, <1>5 DEF GoesOn
    <3>2. TypeOK'
      BY <1>1, <1>2, <2>1, <2>3, <3>1 DEF CaptureInv, TypeOK
    <3>3. Filling'
      <4>1. /\ cap_idx' = cap_idx /\ samples' = samples /\ ref' = ref
            /\ target' = target /\ cap' = cap /\ cap_state' = cap_state
            /\ mode' = mode /\ cap.kind = 2
        BY <2>1, <2>3, <3>1
      <4>2. Filling
        BY DEF CaptureInv
      <4>3. \A k \in 1..cap_idx - 1 : Shows(k)' <=> Shows(k)
        BY <4>1 DEF Shows
      <4>4. NextShows' <=> NextShows
        BY <4>1 DEF NextShows
      <4> QED
        BY <3>1, <4>1, <4>2, <4>3, <4>4 DEF Filling
    <3>4. Ordered' /\ Owned' /\ CaptureIsOneStep'
      BY <2>3, <3>1 DEF CaptureInv, Ordered, Owned, CaptureIsOneStep
    <3> QED
      BY <3>2, <3>3, <3>4 DEF CaptureInv
  <2> QED
    BY <1>5, <2>2, <2>3
<1> QED
  BY <1>1, <1>3, <1>4, <1>5

LEMMA WriteKeeps == ASSUME CaptureInv, Write PROVE CaptureInv'
<1>1. cmd' \in Commands /\ cmd'.seq >= cmd.seq
  <2>1. cmd' \in ReadBy("none")
    BY DEF Write, ReadBy, CaptureInv, TypeOK
  <2> QED
    BY <2>1, ReadFacts DEF CaptureInv
<1>2. UNCHANGED <<mode, cap_state, cap_idx, cap, samples, step_seen, ref, target,
                  drive, isr_on, pc>>
  BY DEF Write, buffer, loop
<1>3. TypeOK' /\ Ordered'
  BY <1>1, <1>2 DEF CaptureInv, TypeOK, Ordered, Commands
<1>4. Owned' /\ Filling' /\ CaptureIsOneStep'
  BY <1>2 DEF CaptureInv, Owned, Filling, NextShows, CaptureIsOneStep, Shows
<1> QED
  BY <1>3, <1>4 DEF CaptureInv

LEMMA OthersKeep ==
  ASSUME CaptureInv, Fault \/ Get \/ Release \/ UNCHANGED vars PROVE CaptureInv'
<1>1. UNCHANGED <<cmd, mode, cap_idx, cap, samples, step_seen, ref, target, drive>>
  BY DEF Fault, Get, Release, vars, buffer, loop
<1>2. /\ isr_on' \in BOOLEAN /\ pc' \in {"poll", "dump"}
      /\ cap_state' \in {"IDLE", "RUNNING", "DONE"}
      /\ pc' = "dump" => cap_state' = "DONE"
      /\ cap_state' = cap_state \/ cap_state' = "IDLE"
  BY DEF Fault, Get, Release, vars, CaptureInv, TypeOK, Owned
<1>3. TypeOK' /\ Ordered' /\ Owned'
  BY <1>1, <1>2 DEF CaptureInv, TypeOK, Ordered, Owned
<1>4. Filling' /\ CaptureIsOneStep'
  BY <1>1, <1>2 DEF CaptureInv, Filling, NextShows, CaptureIsOneStep, Shows
<1> QED
  BY <1>3, <1>4 DEF CaptureInv

LEMMA InitCapture == ASSUME Init PROVE CaptureInv
<1>1. TypeOK
  BY CaptureAssumption DEF Init, TypeOK, Commands
<1> QED
  BY <1>1 DEF Init, CaptureInv, Ordered, Owned, Filling, CaptureIsOneStep

(* The invariant holds in every reachable state.                           *)
THEOREM CaptureInvariant == Spec => []CaptureInv
<1>1. CaptureInv /\ [Next]_vars => CaptureInv'
  BY WriteKeeps, StepOtherKeeps, StepStepKeeps, StepCurrentKeeps, StepSpeedKeeps,
     OthersKeep DEF Next, Isr
<1> QED
  BY InitCapture, <1>1, PTL DEF Spec

-----------------------------------------------------------------------------
(* Type correctness of the capture.                                        *)
THEOREM CaptureTypes == Spec => []TypeOK
<1>1. CaptureInv => TypeOK
  BY DEF CaptureInv
<1> QED
  BY CaptureInvariant, <1>1, PTL

(* foc_ctrl.h:22-27, 41-43, 49-51 - a finished capture of any length shows *)
(* the one step its header names, at sample Pre.                           *)
THEOREM CaptureShowsOneStep == Spec => []CaptureIsOneStep
<1>1. CaptureInv => CaptureIsOneStep
  BY DEF CaptureInv
<1> QED
  BY CaptureInvariant, <1>1, PTL

(* What a step may do to the ownership: nothing to a buffer that is not    *)
(* begun or going on, and nothing at all to one the thread can see.        *)
LEMMA IsrCases ==
  ASSUME CaptureInv, Isr
  PROVE  /\ pc' = pc
         /\ \/ Rests
            \/ \E c \in Commands, kind \in 0..2, old \in Refs : Begins(c, kind, old)
            \/ cap_state = "RUNNING"
<1>1. CASE StepOther
  BY <1>1 DEF StepOther, Rests, Entered, buffer, CaptureInv, Filling, ModeOf, TypeOK
<1>2. CASE StepStep
  BY <1>2, StepStepDoes, CaptureAssumption DEF CaptureInv, TypeOK, GoesOn
<1>3. CASE StepCurrent
  BY <1>3, StepCurrentDoes DEF CaptureInv, GoesOn
<1>4. CASE StepSpeed
  BY <1>4, StepSpeedDoes DEF CaptureInv, GoesOn
<1> QED
  BY <1>1, <1>2, <1>3, <1>4 DEF Isr

(* foc_ctrl.c:288 - a request is captured at most once, and none after a   *)
(* later one.                                                              *)
THEOREM CaptureInOrder == Spec => RequestsInOrder
<1> DEFINE InOrder ==
      cap_state # "RUNNING" /\ cap_state' = "RUNNING" => cap'.seq > cap.seq
<1>1. CaptureInv /\ [Next]_vars => [InOrder]_vars
  <2> SUFFICES ASSUME CaptureInv, Next, cap_state # "RUNNING", cap_state' = "RUNNING"
               PROVE  cap'.seq > cap.seq
    OBVIOUS
  <2>1. Isr
    BY DEF Next, Write, Fault, Get, Release
  <2>2. PICK c \in Commands, kind \in 0..2, old \in Refs : Begins(c, kind, old)
    BY <2>1, IsrCases DEF Rests
  <2>3. cap'.seq = c.seq /\ c.seq > step_seen /\ c.seq \in Nat
    BY <2>2 DEF Begins, Header, Commands
  <2> QED
    BY <2>3 DEF CaptureInv, Ordered, TypeOK
<1> QED
  BY CaptureInvariant, <1>1, PTL DEF Spec, RequestsInOrder

(* foc_ctrl.h:219-234 - the captures implement the hand-over: one is       *)
(* offered whole, stays as it is while the thread prints it, and goes only *)
(* by the thread's release.                                                *)
THEOREM CaptureImplements == Spec => ImplementsHandoff
<1>1. Init => HandoffSpec!Init
  BY DEF Init, HandoffSpec!Init, Offered
<1>2. CaptureInv /\ [Next]_vars => [HandoffSpec!Next]_<<Offered, pc = "dump">>
  <2> SUFFICES ASSUME CaptureInv, [Next]_vars
               PROVE  [HandoffSpec!Next]_<<Offered, pc = "dump">>
    OBVIOUS
  <2>1. CASE Isr
    <3>1. pc' = pc
      BY <2>1, IsrCases
    <3>2. CASE cap_state = "DONE"
      <4>1. cap_state' = "DONE" /\ cap' = cap /\ samples' = samples
        BY <2>1, <3>2, IsrCases DEF Rests, Begins
      <4> QED
        BY <3>1, <3>2, <4>1 DEF Offered
    <3>3. CASE cap_state # "DONE" /\ cap_state' = "DONE"
      <4>1. Offered = <<>> /\ Offered' = <<cap', samples'>>
        BY <3>3 DEF Offered
      <4>2. Offered' # <<>>
        BY <4>1
      <4> QED
        BY <3>1, <4>1, <4>2 DEF HandoffSpec!Next, HandoffSpec!Offer
    <3>4. CASE cap_state # "DONE" /\ cap_state' # "DONE"
      BY <3>1, <3>4 DEF Offered
    <3> QED
      BY <3>2, <3>3, <3>4
  <2>2. CASE Write \/ Fault \/ UNCHANGED vars
    BY <2>2 DEF Write, Fault, vars, buffer, Offered
  <2>3. CASE Get
    <3>1. /\ pc = "poll" /\ pc' = "dump" /\ cap_state = "DONE"
          /\ UNCHANGED <<cap_state, cap, samples>>
      BY <2>3 DEF Get, buffer
    <3>2. Offered = <<cap, samples>> /\ Offered' = Offered /\ Offered # <<>>
      BY <3>1 DEF Offered
    <3> QED
      BY <3>1, <3>2 DEF HandoffSpec!Next, HandoffSpec!Get
  <2>4. CASE Release
    <3>1. pc = "dump" /\ pc' = "poll" /\ cap_state' = "IDLE"
      BY <2>4 DEF Release, CaptureInv, Owned
    <3> QED
      BY <3>1 DEF Offered, HandoffSpec!Next, HandoffSpec!Release
  <2> QED
    BY <2>1, <2>2, <2>3, <2>4 DEF Next
<1> QED
  BY CaptureInvariant, <1>1, <1>2, PTL DEF Spec, ImplementsHandoff, HandoffSpec!Spec
=============================================================================

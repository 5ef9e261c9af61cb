------------------------- MODULE ReportLoopProofs --------------------------
(***************************************************************************)
(* Proofs about the report thread, for structures of any size, any number  *)
(* of interrupts, of read attempts and of corruptions.                     *)
(*   - StatsWindow alone: seq moves with every interrupt and never comes   *)
(*     back, so while it is what the thread read at the start, everything  *)
(*     copied so far is the window still in stats.  Each step of the loop  *)
(*     is a step of StatsWindow or none, so it holds of the whole loop.    *)
(*   - The pin check: each step of the loop moves the pins by a step of    *)
(*     PinCheck or not at all, and those keep CheckInv.                    *)
(*   - The snapshot: the same argument as the statistics, on snap_seq.     *)
(*   - The way up and the ways down: what each place of the thread owes    *)
(*     to the places before it.                                            *)
(***************************************************************************)
EXTENDS ReportLoop, TLAPS

(* What the sequence lock guarantees at every point of the copy.           *)
Locked ==
  /\ seq = 2 * isr_total
  /\ before <= seq
  /\ pc = "copy" /\ seq = before => \A w \in 1..copied : out[w] = Window

(* The interrupt has started a new window since the last one was taken, or *)
(* has not come at all and will.                                           *)
Fresh ==
  /\ start <= isr_total /\ idle_since <= isr_total /\ last.to <= idle_since
  /\ start >= idle_since \/ (isr_total = idle_since /\ reset_req)
  /\ pc = "taken" => out[1].to <= isr_total

StatsInv == TypeOK /\ Locked /\ Fresh /\ CopyIsConsistent /\ WindowsDisjoint

LEMMA WindowType == ASSUME TypeOK PROVE Window \in Windows
  BY DEF TypeOK, Window, Windows

LEMMA InitStats == Init => StatsInv
<1> SUFFICES ASSUME Init PROVE StatsInv
  OBVIOUS
<1>1. reset_req \in BOOLEAN /\ isr_on \in BOOLEAN
  BY Zenon DEF Init
<1>2. TypeOK
  BY <1>1, StatsAssumption DEF Init, TypeOK, Windows, Empty
<1>3. Locked /\ Fresh /\ CopyIsConsistent /\ WindowsDisjoint
  BY StatsAssumption DEF Init, Locked, Fresh, CopyIsConsistent, WindowsDisjoint, Empty
<1> QED
  BY <1>2, <1>3 DEF StatsInv

LEMMA IsrKeeps == ASSUME StatsInv, Isr PROVE StatsInv'
<1> USE StatsAssumption
<1>1. reset_req' \in BOOLEAN /\ isr_on' \in BOOLEAN /\ ~reset_req'
  BY Zenon DEF Isr, StatsInv, TypeOK
<1>2. start' \in 0..MaxIsrs /\ isr_total' \in 0..MaxIsrs /\ seq' \in 0..2 * MaxIsrs
  BY DEF Isr, StatsInv, TypeOK, WindowStart, Locked
<1>3. TypeOK'
  BY <1>1, <1>2 DEF Isr, StatsInv, TypeOK, threadVars
<1>4. seq' # before' /\ seq' = 2 * isr_total' /\ before' <= seq'
  BY DEF Isr, StatsInv, TypeOK, Locked, threadVars
<1>5. Locked'
  BY <1>4 DEF Locked
<1>6. Fresh'
  <2>1. start' = isr_total \/ (start' = start /\ ~reset_req)
    BY DEF Isr, WindowStart
  <2>2. start' >= idle_since'
    BY <2>1 DEF Isr, StatsInv, TypeOK, Fresh, threadVars
  <2>3. pc' = "taken" => out'[1].to <= isr_total'
    BY DEF Isr, StatsInv, TypeOK, Fresh, threadVars, Windows
  <2> QED
    BY <2>1, <2>2, <2>3 DEF Isr, StatsInv, TypeOK, Fresh, threadVars, Windows
<1>7. CopyIsConsistent' /\ WindowsDisjoint'
  BY DEF Isr, StatsInv, CopyIsConsistent, WindowsDisjoint, threadVars
<1> QED
  BY <1>3, <1>5, <1>6, <1>7 DEF StatsInv

LEMMA CopyKeeps == ASSUME StatsInv, CopyWord PROVE StatsInv'
<1> USE StatsAssumption
<1>1. reset_req' \in BOOLEAN /\ isr_on' \in BOOLEAN
  BY Zenon DEF CopyWord, StatsInv, TypeOK, isrVars
<1>2. copied + 1 \in 1..Words /\ copied' = copied + 1 /\ Window \in Windows
  BY WindowType DEF CopyWord, More, StatsInv, TypeOK
<1>3. TypeOK'
  BY <1>1, <1>2 DEF CopyWord, StatsInv, TypeOK, isrVars
<1>4. Locked'
  BY <1>2 DEF CopyWord, StatsInv, TypeOK, Locked, Window, isrVars
<1>5. pc = "copy" /\ pc' = "copy"
  BY DEF CopyWord
<1>6. Fresh' /\ CopyIsConsistent' /\ WindowsDisjoint'
  BY <1>5 DEF CopyWord, StatsInv, Fresh, CopyIsConsistent, WindowsDisjoint, isrVars
<1> QED
  BY <1>3, <1>4, <1>6 DEF StatsInv

(* Accepting a copy: all of it is the window in stats now.                 *)
LEMMA CheckKeeps == ASSUME StatsInv, Check PROVE StatsInv'
<1> USE StatsAssumption
<1>1. reset_req' \in BOOLEAN /\ isr_on' \in BOOLEAN
  BY Zenon DEF Check, StatsInv, TypeOK, isrVars
<1>2. pc' \in {"retry", "taken"} /\ copied = Words
  BY DEF Check, More, StatsInv, TypeOK
<1>3. TypeOK'
  BY <1>1, <1>2 DEF Check, StatsInv, TypeOK, isrVars
<1>4. Locked'
  BY <1>2 DEF Check, StatsInv, Locked, Window, isrVars
<1>5. pc' = "taken" => \A w \in 1..Words : out'[w] = Window
  BY <1>2 DEF Check, Retry, StatsInv, Locked
<1>6. CopyIsConsistent'
  BY <1>5 DEF CopyIsConsistent
<1>7. pc' = "taken" => out'[1] = Window /\ Window.from = start /\ Window.to = isr_total
  BY <1>5 DEF Window
<1>8. Fresh' /\ WindowsDisjoint'
  BY <1>7 DEF Check, StatsInv, TypeOK, Fresh, WindowsDisjoint, isrVars, Windows
<1> QED
  BY <1>3, <1>4, <1>6, <1>8 DEF StatsInv

LEMMA RequestKeeps == ASSUME StatsInv, Request PROVE StatsInv'
<1> USE StatsAssumption
<1>1. reset_req' \in BOOLEAN /\ isr_on' \in BOOLEAN /\ reset_req'
  BY Zenon DEF Request, StatsInv, TypeOK, isrVars
<1>2. last' \in Windows /\ last'.to <= isr_total
  BY DEF Request, StatsInv, TypeOK, Fresh
<1>3. TypeOK'
  BY <1>1, <1>2 DEF Request, StatsInv, TypeOK, isrVars
<1>4. pc' = "idle"
  BY DEF Request
<1>5. Locked' /\ CopyIsConsistent' /\ WindowsDisjoint'
  BY <1>4 DEF Request, StatsInv, Locked, CopyIsConsistent, WindowsDisjoint, isrVars
<1>6. start' <= isr_total' /\ idle_since' <= isr_total' /\ last'.to <= idle_since'
      /\ isr_total' = idle_since'
  BY <1>2 DEF Request, StatsInv, TypeOK, Fresh, isrVars
<1>7. Fresh'
  BY <1>1, <1>4, <1>6 DEF Fresh
<1> QED
  BY <1>3, <1>5, <1>7 DEF StatsInv

(* The steps that leave the window and what was taken alone.               *)
LEMMA QuietKeeps ==
  ASSUME StatsInv, Stop \/ ReadSeq \/ UNCHANGED vars
  PROVE StatsInv'
<1> USE StatsAssumption
<1>1. CASE Stop
  <2>1. reset_req' = reset_req /\ isr_on' = FALSE
    BY <1>1, Zenon DEF Stop
  <2>2. reset_req' \in BOOLEAN /\ isr_on' \in BOOLEAN
    BY <2>1, Zenon DEF StatsInv, TypeOK
  <2>3. TypeOK'
    BY <1>1, <2>2 DEF Stop, StatsInv, TypeOK, threadVars
  <2> QED
    BY <1>1, <2>1, <2>3 DEF Stop, StatsInv, Locked, Fresh, CopyIsConsistent,
       WindowsDisjoint, Window, threadVars
<1>2. CASE ReadSeq
  <2>1. reset_req' \in BOOLEAN /\ isr_on' \in BOOLEAN /\ reset_req' = reset_req
    BY <1>2, Zenon DEF ReadSeq, StatsInv, TypeOK, isrVars
  <2>2. TypeOK'
    BY <1>2, <2>1 DEF ReadSeq, StatsInv, TypeOK, isrVars
  <2>3. pc' = "copy" /\ copied' = 0 /\ before' = seq /\ seq' = seq
        /\ isr_total' = isr_total
    BY <1>2 DEF ReadSeq, isrVars
  <2>4. Locked'
    BY <2>3 DEF StatsInv, TypeOK, Locked
  <2>5. Fresh' /\ CopyIsConsistent' /\ WindowsDisjoint'
    BY <1>2, <2>1, <2>3 DEF ReadSeq, StatsInv, Fresh, CopyIsConsistent,
       WindowsDisjoint, isrVars
  <2> QED
    BY <2>2, <2>4, <2>5 DEF StatsInv
<1>3. CASE UNCHANGED vars
  BY <1>3 DEF vars, isrVars, threadVars, StatsInv, TypeOK, Locked, Fresh,
     CopyIsConsistent, WindowsDisjoint, Window
<1> QED
  BY <1>1, <1>2, <1>3

(* The sequence lock and the windows, together with what they rest on, are *)
(* an invariant.                                                           *)
THEOREM StatsInvariant == Spec => []StatsInv
<1>1. StatsInv /\ [Next]_vars => StatsInv'
  BY IsrKeeps, CopyKeeps, CheckKeeps, RequestKeeps, QuietKeeps DEF Next
<1> QED
  BY InitStats, <1>1, PTL DEF Spec

(* Type correctness of the statistics and their reader.                    *)
THEOREM StatsTypes == Spec => []TypeOK
<1>1. StatsInv => TypeOK
  BY DEF StatsInv
<1> QED
  BY StatsInvariant, <1>1, PTL

(* pwm_adc.h:174 - the copy the thread prints is of one window, whatever   *)
(* the size of the structure and however often the interrupt comes.        *)
THEOREM StatsConsistent == Spec => []CopyIsConsistent
<1>1. StatsInv => CopyIsConsistent
  BY DEF StatsInv
<1> QED
  BY StatsInvariant, <1>1, PTL

(* pwm_adc.h:173 - no period is in two windows while the interrupt lives.  *)
THEOREM StatsDisjoint == Spec => []WindowsDisjoint
<1>1. StatsInv => WindowsDisjoint
  BY DEF StatsInv
<1> QED
  BY StatsInvariant, <1>1, PTL

-----------------------------------------------------------------------------
(* ReportLoop composes StatsWindow: no step of the loop does anything to   *)
(* the statistics that StatsWindow does not know.                          *)
LEMMA InterruptIsIsr == Interrupt => [Next]_vars
  BY DEF Interrupt, Next

LEMMA SuperviseIsStop == Supervise => [Next]_vars
  BY DEF Supervise, Next

LEMMA OverwriteIsQuiet == Overwrite => UNCHANGED vars
  BY DEF Overwrite

LEMMA BootIsQuiet == Boot => UNCHANGED vars
  BY DEF Boot, EncoderInit, FocCtrlInit, ClocksOn, Tim1Setup, Adc2Setup,
     Dma2Setup, StartCounter, TimerStart, quiet

(* Masking a masked interrupt changes nothing.                             *)
LEMMA MaskIsStop ==
  ASSUME isr_on \in BOOLEAN, isr_on' = FALSE,
         UNCHANGED <<isr_total, start, seq, reset_req, threadVars>>
  PROVE  [Next]_vars
<1>1. CASE isr_on
  BY <1>1 DEF Next, Stop
<1>2. CASE ~isr_on
  <2>1. isr_on' = isr_on
    BY <1>2
  <2> QED
    BY <2>1 DEF vars, isrVars
<1> QED
  BY <1>1, <1>2

LEMMA ThreadIsThread == ASSUME isr_on \in BOOLEAN, Thread PROVE [Next]_vars
<1>1. CASE Boot
  BY <1>1, BootIsQuiet
<1>2. CASE CheckPins \/ StopOff \/ Wake \/ Telemetry \/ Dumps
  BY <1>2 DEF CheckPins, StopOff, Wake, Telemetry, Dumps, quiet
<1>3. CASE StopMask \/ Crash
  BY <1>3, MaskIsStop DEF StopMask, Crash
<1>4. CASE SnapBegin \/ SnapCopyWord \/ SnapCheck
  BY <1>4 DEF SnapBegin, SnapCopyWord, SnapCheck, quiet
<1>5. CASE TakeStats
  BY <1>5 DEF TakeStats, Next
<1> QED
  BY <1>1, <1>2, <1>3, <1>4, <1>5 DEF Thread

(* The report loop implements the statistics of StatsWindow.               *)
THEOREM LoopTakesWindows == LoopSpec => Spec
<1>1. LoopInit => Init
  BY DEF LoopInit
<1>2. StatsInv /\ [LoopNext]_loopVars => [Next]_vars
  <2> SUFFICES ASSUME StatsInv, [LoopNext]_loopVars PROVE [Next]_vars
    OBVIOUS
  <2>1. isr_on \in BOOLEAN
    BY DEF StatsInv, TypeOK
  <2>2. CASE UNCHANGED loopVars
    BY <2>2 DEF loopVars
  <2>3. CASE LoopNext
    BY <2>1, <2>3, InterruptIsIsr, SuperviseIsStop, OverwriteIsQuiet,
       ThreadIsThread DEF LoopNext
  <2> QED
    BY <2>2, <2>3
<1>3. StatsInv /\ [Next]_vars => StatsInv'
  BY IsrKeeps, CopyKeeps, CheckKeeps, RequestKeeps, QuietKeeps DEF Next
<1>4. LoopInit => StatsInv
  BY <1>1, InitStats
<1> QED
  BY <1>1, <1>2, <1>3, <1>4, PTL DEF LoopSpec, Spec

(* In the running program, too, every report is of one window, and no      *)
(* period is reported twice while the interrupt lives.                     *)
THEOREM LoopReportsWindows == LoopSpec => [](CopyIsConsistent /\ WindowsDisjoint)
  BY LoopTakesWindows, StatsConsistent, StatsDisjoint, PTL

-----------------------------------------------------------------------------
(* The pin check.  As long as the attempt has not seen the pins right and  *)
(* no register is overwritten, the power flag cannot move with the fixed   *)
(* pins in order, because either transition sets the other pins right; so  *)
(* the reads are all of one broken state, and one of them shows it.        *)
InAttempt == reading # "before"

GateReadRight == gate_moder = (IF power_before THEN "af" ELSE "analog")

Undisturbed == corruptions = began

Broken ==
  /\ fixed => (powered <=> power_before)
  /\ reading \in {"fixed", "sd", "after"} /\ fixed /\ GateReadRight =>
       ~power_before /\ sd
  /\ reading \in {"sd", "after"} => (fixed_safe => fixed)
  /\ reading = "after" /\ fixed_safe /\ GateReadRight =>
       ~power_before /\ ~sd_low

Whole ==
  /\ reading \in {"fixed", "sd", "after"} => GateReadRight
  /\ reading \in {"sd", "after"} => fixed_safe
  /\ reading = "after" => power_before \/ sd_low

Attempted ==
  /\ verdict = "none"
  /\ PinsRight => was_safe
  /\ changes = 0 => (powered <=> power_before)
  /\ changes = 1 => (powered <=> ~power_before)
  /\ corruptions = 0 /\ changes = 0 => Whole
  /\ ~was_safe /\ Undisturbed => Broken

CheckInv ==
  /\ PinTypeOK
  /\ corruptions = 0 => PinsRight
  /\ began = 0 => was_safe
  /\ InAttempt => Attempted
  /\ VerdictIsRight

(* Steps of the pins and of the check.                                     *)
PinNext == PowerOn \/ PowerOff \/ StayOff \/ Corrupt \/ CheckRead

LEMMA ObserveIsBoolean == ASSUME Observe PROVE was_safe' \in BOOLEAN
  BY Zenon DEF Observe

LEMMA PinTypes == ASSUME PinTypeOK, PinNext PROVE PinTypeOK'
<1> USE CheckAssumption
<1>1. CASE PowerOn
  <2>1. /\ was_safe' \in BOOLEAN /\ powered' = TRUE /\ sd' = TRUE /\ gate' = "af"
        /\ UNCHANGED <<fixed, corruptions, locals, began>>
    BY <1>1, ObserveIsBoolean DEF PowerOn
  <2>2. idle_n' \in 0..IdlePeriods /\ changes' \in 0..2
    BY <1>1 DEF PowerOn, PinTypeOK, Increment
  <2> QED
    BY <2>1, <2>2 DEF PinTypeOK, locals
<1>2. CASE PowerOff
  <2>1. /\ was_safe' \in BOOLEAN /\ powered' = FALSE /\ sd' = FALSE /\ gate' = "analog"
        /\ UNCHANGED <<fixed, corruptions, locals, began>>
    BY <1>2, ObserveIsBoolean DEF PowerOff
  <2>2. idle_n' \in 0..IdlePeriods /\ changes' \in 0..2
    BY <1>2 DEF PowerOff, PinTypeOK, Increment
  <2> QED
    BY <2>1, <2>2 DEF PinTypeOK, locals
<1>3. CASE StayOff
  <2>1. idle_n' \in 0..IdlePeriods
    BY <1>3 DEF StayOff, PinTypeOK, Increment
  <2> QED
    BY <1>3, <2>1 DEF StayOff, PinTypeOK, pins, locals, history
<1>4. CASE Corrupt
  <2>1. /\ was_safe' \in BOOLEAN
        /\ UNCHANGED <<powered, idle_n, locals, changes, began>>
    BY <1>4, ObserveIsBoolean DEF Corrupt
  <2>2. corruptions' \in 0..MaxCorruptions /\ began' \in 0..corruptions'
    BY <1>4 DEF Corrupt, PinTypeOK
  <2>3. gate' \in {"analog", "af"} /\ sd' \in BOOLEAN /\ fixed' \in BOOLEAN
    BY <1>4 DEF Corrupt, PinTypeOK
  <2> QED
    BY <2>1, <2>2, <2>3 DEF PinTypeOK, locals
<1>5. CASE ReadBefore
  <2>1. PinsRight \in BOOLEAN
    BY Zenon DEF PinsRight, PinTypeOK
  <2> QED
    BY <1>5, <2>1 DEF ReadBefore, Reads, pins, PinTypeOK
<1>6. CASE ReadGate \/ ReadFixed
  BY <1>6 DEF ReadGate, ReadFixed, Reads, pins, history, PinTypeOK
<1>7. CASE ReadSd
  BY <1>7 DEF ReadSd, Reads, pins, history, PinTypeOK
<1>8. CASE ReadAfter
  <2>1. verdict' \in {"none", "safe", "unsafe"}
    BY <1>8 DEF ReadAfter, Changed
  <2>2. attempt' \in 1..Attempts
    BY <1>8 DEF ReadAfter, MayRetry, PinTypeOK
  <2> QED
    BY <1>8, <2>1, <2>2 DEF ReadAfter, Reads, pins, history, PinTypeOK
<1> QED
  BY <1>1, <1>2, <1>3, <1>4, <1>5, <1>6, <1>7, <1>8 DEF PinNext, CheckRead

LEMMA PowerOnKeeps == ASSUME CheckInv, PowerOn PROVE CheckInv'
<1>1. PinTypeOK'
  BY PinTypes DEF CheckInv, PinNext
<1>2. PinsRight' /\ was_safe'
  BY DEF PowerOn, Observe, PinsRight
<1>3. UNCHANGED <<reading, verdict, power_before, attempt, began, corruptions>>
  BY DEF PowerOn, locals
<1>4. changes' = Increment(changes, 2) /\ changes \in 0..2 /\ ~powered /\ powered'
  BY DEF PowerOn, CheckInv, PinTypeOK
<1>5. (InAttempt => Attempted)'
  BY <1>2, <1>3, <1>4 DEF CheckInv, InAttempt, Attempted, Increment, PinTypeOK
<1>6. VerdictIsRight'
  BY <1>2, <1>3, <1>4 DEF CheckInv, VerdictIsRight, Increment, PinTypeOK
<1> QED
  BY <1>1, <1>2, <1>5, <1>6 DEF CheckInv

LEMMA PowerOffKeeps == ASSUME CheckInv, PowerOff PROVE CheckInv'
<1>1. PinTypeOK'
  BY PinTypes DEF CheckInv, PinNext
<1>2. /\ UNCHANGED <<reading, verdict, power_before, attempt, began, corruptions,
                     fixed, gate_moder, fixed_safe, sd_low>>
      /\ ~powered'
  BY DEF PowerOff, locals
<1>3. /\ fixed => PinsRight'
      /\ was_safe \/ PinsRight' => was_safe'
      /\ fixed => was_safe'
  BY DEF PowerOff, Observe, PinsRight
<1>4. /\ changes \in 0..2
      /\ changes' = IF powered THEN Increment(changes, 2) ELSE changes
  BY DEF PowerOff, CheckInv, PinTypeOK
<1>5. corruptions' = 0 => PinsRight'
  BY <1>2, <1>3 DEF CheckInv, PinsRight
<1>6. (InAttempt => Attempted)'
  <2> SUFFICES ASSUME InAttempt' PROVE Attempted'
    OBVIOUS
  <2>1. Attempted
    BY <1>2 DEF CheckInv, InAttempt
  <2>2. /\ changes' = 0 => (powered' <=> power_before')
        /\ changes' = 1 => (powered' <=> ~power_before')
    BY <1>2, <1>4, <2>1 DEF Attempted, Increment, CheckInv, PinTypeOK
  <2>3. corruptions' = 0 /\ changes' = 0 => Whole'
    BY <1>2, <1>4, <2>1 DEF Attempted, Whole, GateReadRight, Increment
  <2>4. ~was_safe' /\ Undisturbed' => Broken'
    BY <1>2, <1>3, <2>1 DEF Attempted, Undisturbed, Broken, GateReadRight
  <2> QED
    BY <1>2, <1>3, <2>1, <2>2, <2>3, <2>4 DEF Attempted
<1>7. VerdictIsRight'
  BY <1>2, <1>3, <1>4 DEF CheckInv, VerdictIsRight, Increment
<1> QED
  BY <1>1, <1>2, <1>3, <1>5, <1>6, <1>7 DEF CheckInv

LEMMA StayOffKeeps ==
  ASSUME CheckInv, StayOff \/ UNCHANGED pinVars PROVE CheckInv'
<1>1. PinTypeOK'
  <2>1. CASE StayOff
    BY <2>1, PinTypes DEF CheckInv, PinNext
  <2>2. CASE UNCHANGED pinVars
    BY <2>2 DEF pinVars, pins, locals, history, CheckInv, PinTypeOK
  <2> QED
    BY <2>1, <2>2
<1>2. UNCHANGED <<pins, corruptions, locals, history>>
  BY DEF StayOff, pinVars
<1>3. /\ UNCHANGED <<powered, gate, sd, fixed, corruptions>>
      /\ UNCHANGED <<reading, attempt, power_before, gate_moder, fixed_safe, sd_low, verdict>>
      /\ UNCHANGED <<was_safe, changes, began>>
  BY <1>2 DEF pins, locals, history
<1> QED
  BY <1>1, <1>3 DEF CheckInv, PinsRight, InAttempt, Attempted, Whole, Broken,
     GateReadRight, Undisturbed, VerdictIsRight

LEMMA CorruptKeeps == ASSUME CheckInv, Corrupt PROVE CheckInv'
<1>1. PinTypeOK'
  BY PinTypes DEF CheckInv, PinNext
<1>2. /\ UNCHANGED <<powered, reading, attempt, power_before, verdict, changes, began>>
      /\ corruptions' = corruptions + 1
      /\ corruptions \in Nat /\ began \in Nat /\ began <= corruptions
  BY DEF Corrupt, locals, CheckInv, PinTypeOK
<1>6. was_safe \/ PinsRight' => was_safe'
  BY Zenon DEF Corrupt, Observe
<1>3. ~Undisturbed' /\ corruptions' # 0
  BY <1>2 DEF Undisturbed
<1>4. (InAttempt => Attempted)'
  BY <1>2, <1>6, <1>3 DEF CheckInv, InAttempt, Attempted
<1>5. VerdictIsRight'
  BY <1>2, <1>6 DEF CheckInv, VerdictIsRight
<1> QED
  BY <1>1, <1>2, <1>6, <1>3, <1>4, <1>5 DEF CheckInv

(* A new attempt begins: nothing has been read yet.                        *)
LEMMA ReadBeforeKeeps == ASSUME CheckInv, ReadBefore PROVE CheckInv'
<1>1. PinTypeOK'
  BY PinTypes DEF CheckInv, PinNext, CheckRead
<1>2. /\ UNCHANGED <<powered, gate, sd, fixed, corruptions>>
      /\ reading' = "gate" /\ verdict' = "none" /\ power_before' = powered
      /\ was_safe' = PinsRight /\ changes' = 0 /\ began' = corruptions
  BY DEF ReadBefore, Reads, pins
<1>3. PinsRight' <=> PinsRight
  BY <1>2 DEF PinsRight
<1>4. Attempted'
  BY <1>2, <1>3 DEF Attempted, Whole, Broken
<1>5. VerdictIsRight'
  BY <1>2 DEF VerdictIsRight
<1> QED
  BY <1>1, <1>2, <1>3, <1>4, <1>5 DEF CheckInv

(* The three reads in the middle leave everything but their own local.     *)
LEMMA ReadKeeps ==
  ASSUME CheckInv, ReadGate \/ ReadFixed \/ ReadSd PROVE CheckInv'
<1>1. PinTypeOK'
  BY PinTypes DEF CheckInv, PinNext, CheckRead
<1>2. /\ UNCHANGED <<powered, gate, sd, fixed, corruptions>>
      /\ UNCHANGED <<attempt, power_before, verdict, was_safe, changes, began>>
  BY DEF ReadGate, ReadFixed, ReadSd, Reads, pins, history
<1>3. Attempted /\ InAttempt'
  BY DEF CheckInv, InAttempt, ReadGate, ReadFixed, ReadSd, Reads
<1>4. PinsRight' <=> PinsRight
  BY <1>2 DEF PinsRight
<1>5. corruptions = 0 /\ changes = 0 => Whole'
  <2> SUFFICES ASSUME corruptions = 0, changes = 0 PROVE Whole'
    OBVIOUS
  <2>1. PinsRight /\ Whole /\ (powered <=> power_before)
    BY <1>3 DEF Attempted, CheckInv
  <2>2. gate = IF power_before THEN "af" ELSE "analog"
    BY <2>1 DEF PinsRight
  <2>3. fixed /\ (power_before \/ ~sd)
    BY <2>1 DEF PinsRight
  <2>4. CASE ReadGate
    BY <2>2, <2>4 DEF ReadGate, Reads, Whole, GateReadRight
  <2>5. CASE ReadFixed
    BY <2>1, <2>3, <2>5 DEF ReadFixed, Reads, Whole, GateReadRight
  <2>6. CASE ReadSd
    BY <2>1, <2>3, <2>6 DEF ReadSd, Reads, Whole, GateReadRight
  <2> QED
    BY <2>4, <2>5, <2>6
<1>6. ~was_safe /\ Undisturbed => Broken'
  <2> SUFFICES ASSUME ~was_safe, Undisturbed PROVE Broken'
    OBVIOUS
  <2>1. Broken /\ ~PinsRight
    BY <1>3 DEF Attempted
  <2>2. CASE ReadGate
    <3>1. gate_moder' = gate /\ reading' = "fixed" /\ UNCHANGED power_before
      BY <2>2 DEF ReadGate, Reads
    <3>2. fixed /\ gate = (IF power_before THEN "af" ELSE "analog")
            => ~power_before /\ sd
      BY <2>1 DEF Broken, PinsRight
    <3> QED
      BY <1>2, <2>1, <3>1, <3>2 DEF Broken, GateReadRight
  <2>3. CASE ReadFixed
    BY <1>2, <2>1, <2>3 DEF ReadFixed, Reads, Broken, GateReadRight
  <2>4. CASE ReadSd
    <3>1. /\ reading = "sd" /\ reading' = "after" /\ (sd_low' <=> ~sd)
          /\ UNCHANGED <<gate_moder, fixed_safe>>
      BY <2>4 DEF ReadSd, Reads
    <3>2. GateReadRight' <=> GateReadRight
      BY <1>2, <3>1 DEF GateReadRight
    <3>3. /\ fixed => (powered <=> power_before)
          /\ fixed /\ GateReadRight => ~power_before /\ sd
          /\ fixed_safe => fixed
      BY <2>1, <3>1 DEF Broken
    <3> QED
      BY <1>2, <3>1, <3>2, <3>3 DEF Broken
  <2> QED
    BY <2>2, <2>3, <2>4
<1>7. Attempted'
  BY <1>2, <1>3, <1>4, <1>5, <1>6 DEF Attempted, Undisturbed
<1>8. VerdictIsRight'
  BY <1>2 DEF CheckInv, VerdictIsRight
<1> QED
  BY <1>1, <1>2, <1>4, <1>7, <1>8 DEF CheckInv

(* The verdict.                                                            *)
LEMMA ReadAfterKeeps == ASSUME CheckInv, ReadAfter PROVE CheckInv'
<1>1. PinTypeOK'
  BY PinTypes DEF CheckInv, PinNext, CheckRead
<1>2. /\ UNCHANGED <<powered, gate, sd, fixed, corruptions, was_safe, changes, began>>
      /\ reading = "after" /\ reading' = "before"
      /\ UNCHANGED <<power_before, gate_moder, fixed_safe, sd_low>>
  BY DEF ReadAfter, Reads, pins, history
<1>3. Attempted /\ ~InAttempt'
  BY <1>2 DEF CheckInv, InAttempt
<1>4. PinsRight' <=> PinsRight
  BY <1>2 DEF PinsRight
<1>5. Changed <=> ~(powered <=> power_before)
  BY DEF Changed, CheckInv, PinTypeOK
<1>6. ReadingsRight <=> fixed_safe /\ GateReadRight /\ (power_before \/ sd_low)
  BY DEF ReadingsRight, GateReadRight
<1>7. verdict' = "safe" => ~Changed /\ ReadingsRight
  BY DEF ReadAfter
<1>8. verdict' = "unsafe" => \/ ~Changed /\ ~ReadingsRight
                             \/ Changed /\ ~MayRetry
  BY DEF ReadAfter
<1>9. verdict' = "safe" => was_safe \/ (began > 0 /\ corruptions > began)
  <2>1. ReadingsRight /\ Undisturbed => was_safe
    BY <1>2, <1>3, <1>6 DEF Attempted, Broken
  <2>2. began > 0 \/ was_safe
    BY DEF CheckInv, PinTypeOK
  <2>3. Undisturbed \/ corruptions > began
    BY DEF CheckInv, PinTypeOK, Undisturbed
  <2> QED
    BY <1>7, <2>1, <2>2, <2>3
<1>10. ~Changed /\ ~ReadingsRight => corruptions > 0 \/ changes = 2
  <2>1. corruptions = 0 /\ changes = 0 => ReadingsRight
    BY <1>2, <1>3, <1>6 DEF Attempted, Whole
  <2>2. changes = 1 => Changed
    BY <1>3, <1>5 DEF Attempted
  <2> QED
    BY <2>1, <2>2 DEF CheckInv, PinTypeOK
<1>11. Changed /\ ~MayRetry => attempt' = Attempts /\ changes > 0
  <2>1. changes # 0 \/ ~Changed
    BY <1>3, <1>5 DEF Attempted
  <2> QED
    BY <2>1, CheckAssumption DEF ReadAfter, MayRetry, CheckInv, PinTypeOK
<1>12. VerdictIsRight'
  BY <1>2, <1>8, <1>9, <1>10, <1>11 DEF VerdictIsRight
<1> QED
  BY <1>1, <1>2, <1>3, <1>4, <1>12 DEF CheckInv

LEMMA InitCheck == PinInit => CheckInv
<1> SUFFICES ASSUME PinInit PROVE CheckInv
  OBVIOUS
<1>1. PinTypeOK
  <2>1. /\ idle_n \in 0..IdlePeriods /\ corruptions \in 0..MaxCorruptions
        /\ attempt \in 1..Attempts /\ changes \in 0..2 /\ began \in 0..corruptions
    BY CheckAssumption DEF PinInit
  <2> QED
    BY <2>1, Zenon DEF PinInit, PinTypeOK
<1> QED
  BY <1>1 DEF PinInit, CheckInv, PinsRight, InAttempt, VerdictIsRight

(* No step of the loop does anything to the pins that PinCheck does not    *)
(* know.                                                                   *)
LEMMA LoopMovesPins == LoopNext => PinNext \/ UNCHANGED pinVars
<1>1. Interrupt => PinNext \/ UNCHANGED pinVars
  BY DEF Interrupt, ControlStep, FaultLatch, Latched, StayOn, PinNext
<1>2. Supervise \/ StopOff \/ Crash => PinNext
  BY DEF Supervise, StopOff, Crash, Off, PinNext
<1>3. Overwrite => PinNext
  BY DEF Overwrite, PinNext
<1>4. Boot => UNCHANGED pinVars
  BY DEF Boot, EncoderInit, FocCtrlInit, ClocksOn, Tim1Setup, Adc2Setup,
     Dma2Setup, StartCounter, TimerStart, quiet
<1>5. CheckPins => PinNext
  BY DEF CheckPins, PinNext
<1>6. StopMask \/ Wake \/ SnapBegin \/ SnapCopyWord \/ SnapCheck \/ Telemetry
        \/ TakeStats \/ Dumps => UNCHANGED pinVars
  BY DEF StopMask, Wake, SnapBegin, SnapCopyWord, SnapCheck, Telemetry,
     TakeStats, Dumps, quiet
<1> QED
  BY <1>1, <1>2, <1>3, <1>4, <1>5, <1>6 DEF LoopNext, Thread

THEOREM LoopCheckInvariant == LoopSpec => []CheckInv
<1>1. CheckInv /\ [LoopNext]_loopVars => CheckInv'
  <2>1. CheckInv /\ PinNext => CheckInv'
    BY PowerOnKeeps, PowerOffKeeps, StayOffKeeps, CorruptKeeps, ReadBeforeKeeps,
       ReadKeeps, ReadAfterKeeps DEF PinNext, CheckRead
  <2>2. CheckInv /\ UNCHANGED pinVars => CheckInv'
    BY StayOffKeeps
  <2> QED
    BY <2>1, <2>2, LoopMovesPins DEF loopVars
<1>2. LoopInit => CheckInv
  BY InitCheck DEF LoopInit
<1> QED
  BY <1>1, <1>2, PTL DEF LoopSpec

(* pwm_adc.h:132-137 - whatever the interrupt and the corruptions do       *)
(* between the reads, and however many attempts there are, a pin verdict   *)
(* is right or has the cause the property names.                           *)
THEOREM LoopVerdictIsRight == LoopSpec => []VerdictIsRight
<1>1. CheckInv => VerdictIsRight
  BY DEF CheckInv
<1> QED
  BY LoopCheckInvariant, <1>1, PTL

-----------------------------------------------------------------------------
(* The snapshot.  Its sequence number counts the control steps and never   *)
(* comes back, so while it is what the thread read at the start, every     *)
(* word copied so far is of the step still in the snapshot.                *)
SnapTypes ==
  /\ snap \in Nat /\ isr_total \in Nat /\ snap <= isr_total
  /\ snap_before \in Nat /\ snap_copied \in 0..SnapWords
  /\ fc \in [1..SnapWords -> Nat]

SnapLocked ==
  at = "snapshot_copy" =>
    /\ snap_before <= SnapSeq
    /\ snap_before = SnapSeq => \A w \in 1..snap_copied : fc[w] = snap

SnapInv == SnapTypes /\ SnapLocked /\ SnapshotIsOneStep

(* Only the interrupt writes the snapshot, with a step later than any.     *)
LEMMA InterruptSnaps ==
  ASSUME SnapTypes, Interrupt
  PROVE  /\ snap' = snap \/ snap' > snap
         /\ snap' \in Nat /\ isr_total' \in Nat /\ snap' <= isr_total'
         /\ UNCHANGED <<at, snapCopy>>
<1>1. isr_total' = isr_total + 1 /\ UNCHANGED <<at, snapCopy>>
  BY DEF Interrupt, Isr
<1>2. snap' = snap \/ snap' = isr_total'
  BY DEF Interrupt, ControlStep, FaultLatch, Latched, step
<1> QED
  BY <1>1, <1>2 DEF SnapTypes

LEMMA SnapKept ==
  ASSUME SnapInv, UNCHANGED <<snap, isr_total, snapCopy>>,
         at' = at \/ at' \notin {"snapshot_copy", "snapshot_taken"}
  PROVE  SnapInv'
<1>1. SnapTypes'
  BY DEF SnapInv, SnapTypes, snapCopy
<1> QED
  BY <1>1 DEF SnapInv, SnapLocked, SnapshotIsOneStep, SnapSeq, snapCopy

(* The steps that leave the snapshot and its copy alone.                   *)
LEMMA OthersKeepSnap ==
  ASSUME LoopNext
  PROVE  \/ Interrupt \/ SnapBegin \/ SnapCopyWord \/ SnapCheck
         \/ /\ UNCHANGED <<snap, isr_total, snapCopy>>
            /\ at' = at \/ at' \notin {"snapshot_copy", "snapshot_taken"}
<1>1. CASE Supervise \/ Overwrite
  BY <1>1 DEF Supervise, Overwrite, Stop, step, vars, isrVars
<1>2. CASE Boot
  <2>1. UNCHANGED <<snap, isr_total, snapCopy>>
    BY <1>2 DEF Boot, EncoderInit, FocCtrlInit, ClocksOn, Tim1Setup, Adc2Setup,
       Dma2Setup, StartCounter, TimerStart, quiet, step, vars, isrVars
  <2>2. at' \notin {"snapshot_copy", "snapshot_taken"}
    BY <1>2 DEF Boot, EncoderInit, FocCtrlInit, ClocksOn, Tim1Setup, Adc2Setup,
       Dma2Setup, StartCounter, TimerStart, Goes, OrFail
  <2> QED
    BY <2>1, <2>2
<1>3. CASE CheckPins
  <2>1. UNCHANGED <<snap, isr_total, snapCopy>>
    BY <1>3 DEF CheckPins, step, vars, isrVars
  <2>2. reading = "after" /\ verdict' # "none" => verdict' \in {"safe", "unsafe"}
    BY <1>3 DEF CheckPins, CheckRead, ReadBefore, ReadGate, ReadFixed, ReadSd,
       ReadAfter, Reads
  <2>3. at' = at \/ at' \notin {"snapshot_copy", "snapshot_taken"}
    BY <1>3, <2>2 DEF CheckPins, AfterCheck
  <2> QED
    BY <2>1, <2>3
<1>4. CASE StopMask \/ StopOff \/ Crash \/ Wake
  BY <1>4 DEF StopMask, StopOff, Crash, Wake, Goes, step, vars, isrVars
<1>5. CASE Telemetry \/ Dumps
  <2>1. UNCHANGED <<snap, isr_total, snapCopy>>
    BY <1>5 DEF Telemetry, Dumps, quiet, step, vars, isrVars
  <2>2. at' \notin {"snapshot_copy", "snapshot_taken"}
    BY <1>5 DEF Telemetry, Dumps, Goes
  <2> QED
    BY <2>1, <2>2
<1>6. CASE TakeStats
  <2>1. UNCHANGED <<snap, isr_total, snapCopy>>
    BY <1>6 DEF TakeStats, ReadSeq, CopyWord, Check, Request, step, isrVars
  <2>2. at' \notin {"snapshot_copy", "snapshot_taken"}
    BY <1>6 DEF TakeStats
  <2> QED
    BY <2>1, <2>2
<1> QED
  BY <1>1, <1>2, <1>3, <1>4, <1>5, <1>6 DEF LoopNext, Thread

LEMMA LaterIsAhead ==
  ASSUME NEW m \in Nat, NEW n \in Nat, NEW b \in Nat, b <= 2 * m, m < n
  PROVE  b <= 2 * n /\ b # 2 * n
  OBVIOUS

LEMMA InterruptKeepsSnap == ASSUME SnapInv, Interrupt PROVE SnapInv'
<1>1. /\ snap' = snap \/ snap' > snap
      /\ snap' \in Nat /\ isr_total' \in Nat /\ snap' <= isr_total'
      /\ UNCHANGED <<at, snapCopy>>
  BY InterruptSnaps DEF SnapInv
<1>2. SnapTypes'
  BY <1>1 DEF SnapInv, SnapTypes, snapCopy
<1>3. SnapLocked'
  <2>1. CASE snap' = snap
    BY <1>1, <2>1 DEF SnapInv, SnapLocked, SnapSeq, snapCopy
  <2>2. CASE snap' > snap
    <3>1. at' = at /\ snap_before' = snap_before
      BY <1>1 DEF snapCopy
    <3>2. snap \in Nat /\ snap' \in Nat /\ snap_before \in Nat
      BY <1>1 DEF SnapInv, SnapTypes
    <3>3. at = "snapshot_copy" => snap_before <= 2 * snap
      BY DEF SnapInv, SnapLocked, SnapSeq
    <3>4. at = "snapshot_copy"
            => snap_before <= 2 * snap' /\ snap_before # 2 * snap'
      BY <2>2, <3>2, <3>3, LaterIsAhead
    <3> QED
      BY <3>1, <3>4, Zenon DEF SnapLocked, SnapSeq
  <2> QED
    BY <1>1, <2>1, <2>2
<1> QED
  BY <1>1, <1>2, <1>3 DEF SnapInv, SnapshotIsOneStep, snapCopy

LEMMA CopyKeepsSnap ==
  ASSUME SnapInv, SnapBegin \/ SnapCopyWord \/ SnapCheck PROVE SnapInv'
<1> USE LoopAssumption
<1>1. CASE SnapBegin
  <2>1. /\ UNCHANGED <<snap, isr_total, fc>> /\ at' = "snapshot_copy"
        /\ snap_before' = SnapSeq /\ snap_copied' = 0
    BY <1>1 DEF SnapBegin, Goes, step, vars, isrVars
  <2> QED
    BY <2>1 DEF SnapInv, SnapTypes, SnapLocked, SnapshotIsOneStep, SnapSeq
<1>2. CASE SnapCopyWord
  <2>1. /\ UNCHANGED <<snap, isr_total, snap_before>>
        /\ at = "snapshot_copy" /\ at' = "snapshot_copy"
        /\ snap_copied < SnapWords /\ snap_copied' = snap_copied + 1
        /\ fc' = [fc EXCEPT ![snap_copied + 1] = snap]
    BY <1>2 DEF SnapCopyWord, SnapMore, Goes, step, vars, isrVars
  <2>2. SnapTypes'
    BY <2>1 DEF SnapInv, SnapTypes
  <2>3. SnapLocked'
    <3>1. snap_before' <= SnapSeq'
      BY <2>1 DEF SnapInv, SnapLocked, SnapSeq
    <3>2. ASSUME snap_before' = SnapSeq', NEW w \in 1..snap_copied'
          PROVE  fc'[w] = snap'
      <4>1. snap_before = SnapSeq
        BY <2>1, <3>2 DEF SnapSeq
      <4>2. fc \in [1..SnapWords -> Nat] /\ snap_copied \in Nat
        BY DEF SnapInv, SnapTypes
      <4>3. w = snap_copied + 1 \/ w \in 1..snap_copied
        BY <2>1, <4>2
      <4>4. w \in 1..SnapWords
        BY <2>1, <4>2
      <4>5. CASE w = snap_copied + 1
        BY <2>1, <4>2, <4>4, <4>5
      <4>6. CASE w \in 1..snap_copied
        <5>1. fc[w] = snap
          BY <2>1, <4>1, <4>6 DEF SnapInv, SnapLocked
        <5>2. w # snap_copied + 1
          BY <4>2, <4>6
        <5> QED
          BY <2>1, <4>2, <4>4, <5>1, <5>2
      <4> QED
        BY <4>3, <4>5, <4>6
    <3> QED
      BY <3>1, <3>2 DEF SnapLocked
  <2> QED
    BY <2>1, <2>2, <2>3 DEF SnapInv, SnapshotIsOneStep
<1>3. CASE SnapCheck
  <2>1. /\ UNCHANGED <<snap, isr_total, snapCopy>>
        /\ at = "snapshot_copy" /\ snap_copied >= SnapWords
        /\ at' \in {"snapshot", "snapshot_taken"}
        /\ at' = "snapshot_taken" => SnapSeq = snap_before
    BY <1>3 DEF SnapCheck, SnapMore, SnapRetry, quiet, step, vars, isrVars,
       SnapInv, SnapTypes
  <2>2. SnapTypes' /\ SnapLocked'
    BY <2>1 DEF SnapInv, SnapTypes, SnapLocked, snapCopy
  <2>3. SnapshotIsOneStep'
    BY <2>1 DEF SnapInv, SnapTypes, SnapLocked, SnapshotIsOneStep, snapCopy
  <2> QED
    BY <2>2, <2>3 DEF SnapInv
<1> QED
  BY <1>1, <1>2, <1>3

(* foc_ctrl.h:219 - a snapshot of any size the thread goes on to print is  *)
(* of one control step, however often the interrupt came during the copy.  *)
THEOREM LoopSnapshotIsOneStep == LoopSpec => []SnapshotIsOneStep
<1>1. LoopInit => SnapInv
  BY LoopAssumption DEF LoopInit, Init, SnapInv, SnapTypes, SnapLocked,
     SnapshotIsOneStep
<1>2. SnapInv /\ [LoopNext]_loopVars => SnapInv'
  <2>1. SnapInv /\ LoopNext => SnapInv'
    BY OthersKeepSnap, SnapKept, InterruptKeepsSnap, CopyKeepsSnap
  <2>2. SnapInv /\ UNCHANGED loopVars => SnapInv'
    BY SnapKept DEF loopVars, vars, isrVars, step
  <2> QED
    BY <2>1, <2>2
<1>3. SnapInv => SnapshotIsOneStep
  BY DEF SnapInv
<1> QED
  BY <1>1, <1>2, <1>3, PTL DEF LoopSpec

-----------------------------------------------------------------------------
(* The way up and the ways down.  What each place of the thread owes to    *)
(* the places before it: the callbacks are set before the DMA can deliver  *)
(* an interrupt, the interrupt is enabled before the counter runs, and     *)
(* the places from which the thread ends without pwm_adc_stop() come       *)
(* before the first of them.                                               *)
BeforeIrq == {"encoder_init", "foc_ctrl_init", "clocks_on", "tim1_setup",
              "check_before", "adc2_setup", "dma2_setup"}
BeforeCounter == BeforeIrq \union {"check_after", "start"}
Ends == {"returned", "halted"}

BootInv ==
  /\ at \notin {"encoder_init", "foc_ctrl_init"} \union Ends => control_ready
  /\ at \notin {"encoder_init", "foc_ctrl_init", "clocks_on"} \union Ends
       => handlers
  /\ at \notin BeforeIrq \union Ends => dma_on
  /\ at \in BeforeIrq => ~irq_enabled /\ ~dma_on
  /\ at \in BeforeCounter => ~counter_on /\ ~moe /\ ~powered
  /\ at = "stop_off" => ~isr_on
  /\ counter_on \/ powered \/ isr_total > 0
       => control_ready /\ handlers /\ dma_on
  /\ at \in Ends => ~powered /\ ~moe /\ ~counter_on /\ ~(irq_enabled /\ isr_on)

bootRead == <<at, boot, timer, powered, isr_total, isr_on>>

LEMMA BootStutters == BootInv /\ UNCHANGED bootRead => BootInv'
  BY DEF BootInv, bootRead, boot, timer, BeforeIrq, BeforeCounter, Ends

LEMMA InterruptKeepsBoot == BootInv /\ Interrupt => BootInv'
<1> SUFFICES ASSUME BootInv, Interrupt PROVE BootInv'
  OBVIOUS
<1>1. /\ counter_on /\ dma_on /\ irq_enabled /\ isr_on
      /\ UNCHANGED <<at, boot, counter_on, isr_on>>
  BY DEF Interrupt, Triggered, Isr
<1>2. at \notin BeforeCounter \union Ends /\ at # "stop_off"
  BY <1>1 DEF BootInv
<1> QED
  BY <1>1, <1>2 DEF BootInv, boot, BeforeIrq, BeforeCounter, Ends

LEMMA BootKeepsBoot == BootInv /\ Boot => BootInv'
<1> SUFFICES ASSUME BootInv, Boot PROVE BootInv'
  OBVIOUS
<1> USE DEF BootInv, BeforeIrq, BeforeCounter, Ends, quiet, timer, pinVars, pins,
        vars, isrVars, Goes, OrFail
<1>1. CASE EncoderInit
  BY <1>1 DEF EncoderInit, boot
<1>2. CASE FocCtrlInit
  BY <1>2 DEF FocCtrlInit
<1>3. CASE ClocksOn
  BY <1>3 DEF ClocksOn
<1>4. CASE Tim1Setup
  BY <1>4 DEF Tim1Setup, boot
<1>5. CASE Adc2Setup
  BY <1>5 DEF Adc2Setup, boot
<1>6. CASE Dma2Setup
  BY <1>6 DEF Dma2Setup
<1>7. CASE StartCounter
  BY <1>7 DEF StartCounter, boot
<1>8. CASE TimerStart
  BY <1>8 DEF TimerStart
<1> QED
  BY <1>1, <1>2, <1>3, <1>4, <1>5, <1>6, <1>7, <1>8 DEF Boot

LEMMA CheckKeepsBoot == BootInv /\ CheckPins => BootInv'
<1> SUFFICES ASSUME BootInv, CheckPins PROVE BootInv'
  OBVIOUS
<1>1. powered' = powered /\ UNCHANGED <<boot, timer, isr_total, isr_on>>
  BY DEF CheckPins, CheckRead, ReadBefore, ReadGate, ReadFixed, ReadSd,
     ReadAfter, Reads, pins, vars, isrVars
<1>2. reading = "after" /\ verdict' # "none" => verdict' \in {"safe", "unsafe"}
  BY DEF CheckPins, CheckRead, ReadBefore, ReadGate, ReadFixed, ReadSd,
     ReadAfter, Reads
<1>3. \/ at' = at
      \/ at = "check_before" /\ at' \in {"adc2_setup", "returned"}
      \/ at = "check_after" /\ at' \in {"start", "stop"}
      \/ at = "check" /\ at' \in {"snapshot", "stop"}
  BY <1>2 DEF CheckPins, AfterCheck
<1> QED
  BY <1>1, <1>3 DEF BootInv, BeforeIrq, BeforeCounter, Ends, boot, timer

LEMMA StopsKeepBoot ==
  BootInv /\ (Supervise \/ StopMask \/ StopOff \/ Crash) => BootInv'
<1> SUFFICES ASSUME BootInv, Supervise \/ StopMask \/ StopOff \/ Crash
             PROVE  BootInv'
  OBVIOUS
<1> USE DEF BootInv, BeforeIrq, BeforeCounter, Ends, boot, Goes, Off, PowerOff
<1>1. CASE Supervise
  BY <1>1 DEF Supervise, Stop
<1>2. CASE StopMask
  BY <1>2 DEF StopMask, pinVars, pins, timer
<1>3. CASE StopOff
  BY <1>3 DEF StopOff, vars, isrVars
<1>4. CASE Crash
  BY <1>4 DEF Crash
<1> QED
  BY <1>1, <1>2, <1>3, <1>4

LEMMA RoundKeepsBoot ==
  BootInv /\ (\/ Wake \/ SnapBegin \/ SnapCopyWord \/ SnapCheck \/ Telemetry
             \/ TakeStats \/ Dumps) => BootInv'
<1> SUFFICES ASSUME BootInv,
                    \/ Wake \/ SnapBegin \/ SnapCopyWord \/ SnapCheck
                    \/ Telemetry \/ TakeStats \/ Dumps
             PROVE  BootInv'
  OBVIOUS
<1> DEFINE InRound == {"wake", "check", "snapshot", "snapshot_copy",
                       "snapshot_taken", "stats", "dumps"}
<1>1. at \in InRound /\ at' \in InRound
  BY DEF Wake, SnapBegin, SnapCopyWord, SnapCheck, Telemetry, TakeStats, Dumps,
     Goes
<1>2. UNCHANGED <<boot, timer, powered, isr_total, isr_on>>
  BY DEF Wake, SnapBegin, SnapCopyWord, SnapCheck, Telemetry, TakeStats, Dumps,
     ReadSeq, CopyWord, Check, Request, quiet, pinVars, pins, vars, isrVars
<1> QED
  BY <1>1, <1>2 DEF BootInv, BeforeIrq, BeforeCounter, Ends, boot, timer

LEMMA OverwriteKeepsBoot == BootInv /\ Overwrite => BootInv'
<1>1. Overwrite => UNCHANGED bootRead
  BY DEF Overwrite, Corrupt, bootRead, vars, isrVars
<1> QED
  BY <1>1, BootStutters

(* What a place owes to the checks before it, and what a switch does.      *)
PassedInv ==
  /\ at \in {"adc2_setup", "dma2_setup"} \/ dma_on \/ irq_enabled
       => "timer" \in passed
  /\ at = "start" \/ counter_on \/ powered \/ isr_total > 0
       => "adc armed" \in passed

(* The interrupt needs the counter; only StartCounter starts that, and     *)
(* only Dma2Setup enables the interrupt.                                   *)
LEMMA SwitchedBy ==
  ASSUME BootInv, LoopNext
  PROVE  /\ dma_on' \/ irq_enabled' => dma_on \/ irq_enabled \/ at = "dma2_setup"
         /\ counter_on' \/ powered' \/ isr_total' > 0
              => counter_on \/ powered \/ isr_total > 0 \/ at = "start"
         /\ at' \in {"adc2_setup", "dma2_setup"}
              => at \in {"adc2_setup", "dma2_setup"} \/ CheckPins
         /\ at' = "start" => at = "start" \/ CheckPins
<1> USE DEF Goes, quiet, pinVars, pins, vars, isrVars, boot, timer
<1>1. CASE Interrupt
  BY <1>1 DEF Interrupt, Triggered
<1>2. CASE Supervise \/ StopMask \/ StopOff \/ Crash
  BY <1>2 DEF Supervise, Stop, StopMask, StopOff, Crash, Off, PowerOff
<1>3. CASE Overwrite
  BY <1>3 DEF Overwrite, Corrupt
<1>4. CASE Boot
  BY <1>4 DEF Boot, EncoderInit, FocCtrlInit, ClocksOn, Tim1Setup, Adc2Setup,
     Dma2Setup, StartCounter, TimerStart, OrFail
<1>5. CASE CheckPins
  BY <1>5 DEF CheckPins, CheckRead, ReadBefore, ReadGate, ReadFixed, ReadSd,
     ReadAfter, Reads
<1>6. CASE Wake \/ SnapBegin \/ SnapCopyWord \/ SnapCheck \/ Telemetry
             \/ TakeStats \/ Dumps
  BY <1>6 DEF Wake, SnapBegin, SnapCopyWord, SnapCheck, Telemetry, TakeStats,
     Dumps, ReadSeq, CopyWord, Check, Request
<1> QED
  BY <1>1, <1>2, <1>3, <1>4, <1>5, <1>6 DEF LoopNext, Thread

LEMMA CheckPasses ==
  ASSUME BootInv, CheckPins, Record
  PROVE  /\ at' # at /\ at' = "adc2_setup" => "timer" \in passed'
         /\ at' # at /\ at' = "start" => "adc armed" \in passed'
         /\ at' # "dma2_setup" \/ at = at'
<1>1. reading = "after" /\ verdict' # "none" => verdict' \in {"safe", "unsafe"}
  BY DEF CheckPins, CheckRead, ReadBefore, ReadGate, ReadFixed, ReadSd,
     ReadAfter, Reads
<1>2. /\ at' # at => reading = "after" /\ verdict' # "none"
      /\ at' # at => at' = AfterCheck(at)[verdict']
      /\ at \in {"check_before", "check_after", "check"}
  BY DEF CheckPins
<1>3. reading = "after" => reading' = "before"
  BY DEF CheckPins, CheckRead, ReadBefore, ReadGate, ReadFixed, ReadSd,
     ReadAfter, Reads
<1>4. /\ at' # at /\ at' = "adc2_setup" => at = "check_before" /\ verdict' = "safe"
      /\ at' # at /\ at' = "start" => at = "check_after" /\ verdict' = "safe"
      /\ at' # "dma2_setup" \/ at = at'
  BY <1>1, <1>2 DEF AfterCheck
<1>5. /\ at = "check_before" => ~dma_on /\ ~counter_on
      /\ at = "check_after" => dma_on /\ ~counter_on
  BY DEF BootInv, BeforeIrq, BeforeCounter, Ends
<1> QED
  BY <1>2, <1>3, <1>4, <1>5 DEF Record, Passes

LEMMA PassedStep == BootInv /\ PassedInv /\ LoopNext => PassedInv'
<1> SUFFICES ASSUME BootInv, PassedInv, LoopNext PROVE PassedInv'
  OBVIOUS
<1>1. passed \subseteq passed' /\ Record
  BY DEF LoopNext, Record
<1>2. at \in {"adc2_setup", "dma2_setup"} => "timer" \in passed'
  BY <1>1 DEF PassedInv
<1>3. at = "start" => "adc armed" \in passed'
  BY <1>1 DEF PassedInv
<1>4. at' \in {"adc2_setup", "dma2_setup"} => "timer" \in passed'
  BY <1>1, <1>2, SwitchedBy, CheckPasses
<1>5. at' = "start" => "adc armed" \in passed'
  BY <1>1, <1>3, SwitchedBy, CheckPasses
<1>6. dma_on' \/ irq_enabled' => "timer" \in passed'
  BY <1>1, <1>2, SwitchedBy DEF PassedInv
<1>7. counter_on' \/ powered' \/ isr_total' > 0 => "adc armed" \in passed'
  BY <1>1, <1>3, SwitchedBy DEF PassedInv
<1> QED
  BY <1>4, <1>5, <1>6, <1>7 DEF PassedInv

(* pwm_adc.h:122-129, foc_ctrl.h:216 - no interrupt and no power before    *)
(* everything they use is set up and both checks of the set-up have        *)
(* passed, and off for good wherever the thread ends, for structures of    *)
(* any size and any number of interrupts.                                  *)
THEOREM LoopStartsReadyEndsOff == LoopSpec => []StartsReadyEndsOff
<1>1. LoopInit => BootInv /\ PassedInv
  BY DEF LoopInit, PinInit, Init, BootInv, BeforeIrq, BeforeCounter, Ends,
     PassedInv
<1>2. BootInv /\ [LoopNext]_loopVars => BootInv'
  <2>1. BootInv /\ UNCHANGED loopVars => BootInv'
    BY BootStutters DEF loopVars, bootRead, pinVars, pins, vars, isrVars
  <2> QED
    BY <2>1, InterruptKeepsBoot, BootKeepsBoot, CheckKeepsBoot, StopsKeepBoot,
       RoundKeepsBoot, OverwriteKeepsBoot DEF LoopNext, Thread
<1>3. BootInv /\ PassedInv /\ [LoopNext]_loopVars => PassedInv'
  <2>1. UNCHANGED loopVars => UNCHANGED bootRead /\ UNCHANGED passed
    BY DEF loopVars, bootRead, pinVars, pins, vars, isrVars
  <2>2. UNCHANGED bootRead
          => /\ UNCHANGED at /\ (dma_on' <=> dma_on) /\ (irq_enabled' <=> irq_enabled)
             /\ (counter_on' <=> counter_on) /\ (powered' <=> powered)
             /\ UNCHANGED isr_total
    BY DEF bootRead, boot, timer
  <2>3. PassedInv /\ UNCHANGED loopVars => PassedInv'
    BY <2>1, <2>2, Zenon DEF PassedInv
  <2> QED
    BY <2>3, PassedStep
<1>4. BootInv /\ PassedInv => StartsReadyEndsOff
  BY DEF BootInv, PassedInv, StartsReadyEndsOff, Ends
<1> QED
  BY <1>1, <1>2, <1>3, <1>4, PTL DEF LoopSpec

-----------------------------------------------------------------------------
(* The types of the loop's own variables.                                  *)
Places ==
  {"encoder_init", "foc_ctrl_init", "clocks_on", "tim1_setup", "check_before",
   "adc2_setup", "dma2_setup", "check_after", "start", "timer_start", "wake",
   "check", "snapshot", "snapshot_copy", "snapshot_taken", "stats", "dumps",
   "stop", "stop_off", "returned", "halted"}

Switches ==
  /\ at \in Places
  /\ control_ready \in BOOLEAN /\ handlers \in BOOLEAN /\ dma_on \in BOOLEAN
  /\ irq_enabled \in BOOLEAN /\ supervised \in BOOLEAN
  /\ moe \in BOOLEAN /\ counter_on \in BOOLEAN /\ latched \in BOOLEAN
  /\ round \in 0..ReportEvery - 1

Copied ==
  /\ snap \in 0..MaxIsrs /\ fc \in [1..SnapWords -> 0..MaxIsrs]
  /\ snap_copied \in 0..SnapWords /\ snap_before \in 0..2 * MaxIsrs

switches == <<at, boot, timer, latched, round>>
copies == <<snap, snapCopy>>

LEMMA SwitchesStutter == Switches /\ UNCHANGED switches => Switches'
  BY DEF Switches, switches, boot, timer

LEMMA CopiesStutter == Copied /\ UNCHANGED copies => Copied'
  BY DEF Copied, copies, snapCopy

(* Outside the interrupt and the snapshot nothing writes the copies.       *)
LEMMA CopiesTyped ==
  ASSUME TypeOK, TypeOK', Copied, LoopNext PROVE Copied'
<1> USE LoopAssumption, StatsAssumption
<1>1. CASE Interrupt
  <2>1. snap' = snap \/ snap' = isr_total'
    BY <1>1 DEF Interrupt, ControlStep, FaultLatch, Latched, step
  <2>2. isr_total' \in 0..MaxIsrs
    BY DEF TypeOK
  <2>3. UNCHANGED snapCopy
    BY <1>1 DEF Interrupt
  <2> QED
    BY <2>1, <2>2, <2>3 DEF Copied, snapCopy
<1>2. CASE SnapBegin
  <2>1. UNCHANGED <<snap, fc>> /\ snap_before' = 2 * snap /\ snap_copied' = 0
    BY <1>2 DEF SnapBegin, SnapSeq, step, vars, isrVars
  <2> QED
    BY <2>1 DEF Copied
<1>3. CASE SnapCopyWord
  <2>1. /\ UNCHANGED <<snap, snap_before>>
        /\ snap_copied < SnapWords /\ snap_copied' = snap_copied + 1
        /\ fc' = [fc EXCEPT ![snap_copied + 1] = snap]
    BY <1>3 DEF SnapCopyWord, SnapMore, step, vars, isrVars
  <2> QED
    BY <2>1 DEF Copied
<1>4. CASE SnapCheck
  BY <1>4, CopiesStutter DEF SnapCheck, quiet, step, copies
<1>5. CASE UNCHANGED <<snap, isr_total, snapCopy>>
  BY <1>5, CopiesStutter DEF copies
<1> QED
  BY <1>1, <1>2, <1>3, <1>4, <1>5, OthersKeepSnap

LEMMA SwitchesTyped == ASSUME Switches, LoopNext PROVE Switches'
<1> USE LoopAssumption
<1>1. CASE Interrupt
  <2>1. UNCHANGED <<at, boot, counter_on, round>>
    BY <1>1 DEF Interrupt
  <2>2. moe' \in BOOLEAN /\ latched' \in BOOLEAN
    BY <1>1 DEF Switches, Interrupt, ControlStep, FaultLatch, Latched, step
  <2> QED
    BY <2>1, <2>2 DEF Switches, boot
<1>2. CASE Supervise \/ StopMask \/ StopOff \/ Crash
  <2>1. UNCHANGED <<boot, latched, round>> /\ at' \in Places
    BY <1>2 DEF Supervise, StopMask, StopOff, Crash, Goes, step, Switches, Places
  <2>2. moe' \in BOOLEAN /\ counter_on' \in BOOLEAN
    BY <1>2 DEF Supervise, StopMask, StopOff, Crash, Off, timer, Switches
  <2> QED
    BY <2>1, <2>2 DEF Switches, boot
<1>3. CASE Overwrite
  BY <1>3, SwitchesStutter DEF Overwrite, switches, step
<1>4. CASE Boot
  <2>1. UNCHANGED <<latched, round>> /\ at' \in Places
    BY <1>4 DEF Boot, EncoderInit, FocCtrlInit, ClocksOn, Tim1Setup, Adc2Setup,
       Dma2Setup, StartCounter, TimerStart, Goes, OrFail, quiet, step, Places
  <2>2. moe' \in BOOLEAN /\ counter_on' \in BOOLEAN
    BY <1>4 DEF Boot, EncoderInit, FocCtrlInit, ClocksOn, Tim1Setup, Adc2Setup,
       Dma2Setup, StartCounter, TimerStart, quiet, timer, Switches
  <2>3. /\ control_ready' \in BOOLEAN /\ handlers' \in BOOLEAN
        /\ dma_on' \in BOOLEAN /\ irq_enabled' \in BOOLEAN
        /\ supervised' \in BOOLEAN
    BY <1>4 DEF Boot, EncoderInit, FocCtrlInit, ClocksOn, Tim1Setup, Adc2Setup,
       Dma2Setup, StartCounter, TimerStart, boot, Switches
  <2> QED
    BY <2>1, <2>2, <2>3 DEF Switches
<1>5. CASE CheckPins
  <2>1. reading = "after" /\ verdict' # "none" => verdict' \in {"safe", "unsafe"}
    BY <1>5 DEF CheckPins, CheckRead, ReadBefore, ReadGate, ReadFixed, ReadSd,
       ReadAfter, Reads
  <2>2. at' \in Places
    BY <1>5, <2>1 DEF CheckPins, AfterCheck, Switches, Places
  <2> QED
    BY <1>5, <2>2 DEF CheckPins, Switches, boot, timer, step
<1>6. CASE Wake
  BY <1>6 DEF Wake, Goes, Switches, Places, boot, timer, step
<1>7. CASE SnapBegin \/ SnapCopyWord \/ SnapCheck \/ Telemetry \/ TakeStats \/ Dumps
  <2>1. UNCHANGED <<boot, timer, latched, round>>
    BY <1>7 DEF SnapBegin, SnapCopyWord, SnapCheck, Telemetry, TakeStats, Dumps,
       quiet, step
  <2>2. at' \in Places
    BY <1>7 DEF SnapBegin, SnapCopyWord, SnapCheck, Telemetry, TakeStats, Dumps,
       Goes, Places
  <2> QED
    BY <2>1, <2>2 DEF Switches, boot, timer
<1> QED
  BY <1>1, <1>2, <1>3, <1>4, <1>5, <1>6, <1>7 DEF LoopNext, Thread

(* Type correctness of the report thread, its checks and its copies.       *)
THEOREM LoopTypes == LoopSpec => []LoopTypeOK
<1> DEFINE Passed == passed \subseteq {"timer", "adc armed"}
<1>1. LoopInit => Switches /\ Copied /\ Passed
  <2> USE LoopAssumption, StatsAssumption DEF LoopInit
  <2>1. LoopInit => Switches
    <3>1. 0 \in 0..ReportEvery - 1
      OBVIOUS
    <3> QED
      BY <3>1, Zenon DEF Switches, Places
  <2>2. LoopInit => Copied /\ Passed
    BY DEF Copied
  <2> QED
    BY <2>1, <2>2
<1>2. TypeOK /\ TypeOK' /\ Switches /\ Copied /\ Passed /\ [LoopNext]_loopVars
        => Switches' /\ Copied' /\ Passed'
  <2>1. Switches /\ Copied /\ Passed /\ UNCHANGED loopVars
          => Switches' /\ Copied' /\ Passed'
    BY SwitchesStutter, CopiesStutter DEF loopVars, switches, copies, step
  <2>2. Passed /\ LoopNext => Passed'
    BY DEF LoopNext, Record
  <2> QED
    BY <2>1, <2>2, SwitchesTyped, CopiesTyped
<1>3. CheckInv /\ TypeOK /\ Switches /\ Copied /\ Passed => LoopTypeOK
  BY DEF CheckInv, Switches, Copied, Places, LoopTypeOK
<1>4. LoopSpec => []TypeOK
  BY LoopTakesWindows, StatsTypes, PTL
<1> QED
  BY <1>1, <1>2, <1>3, <1>4, LoopCheckInvariant, PTL DEF LoopSpec
=============================================================================

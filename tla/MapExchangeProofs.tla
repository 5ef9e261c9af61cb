------------------------- MODULE MapExchangeProofs --------------------------
(***************************************************************************)
(* Proofs about the exchange of the cogging map, for every table length,   *)
(* sweep length and bound, and that it implements FeedForward.             *)
(*                                                                         *)
(* The argument.  ff_valid can only become 0 when the thread does not own  *)
(* the raw buffer (Owned, MayStart), so a thread that has found it 0 finds *)
(* it 0 or 2 until it publishes: the compare-and-swap fails if and only if *)
(* an identification came in between (Copying, Fresh).                     *)
(***************************************************************************)
EXTENDS MapExchange, TLAPS

Owned ==
  /\ pc # "poll" => ready
  /\ phase = "ACTIVE" => ~ready
  /\ phase # "IDLE" => raw.run >= 1
  /\ ready => phase \in {"DONE", "FAILED"}

(* A writable or valid table slot belongs to a map of this epoch.          *)
Fresh == ff_valid = 0 => raw.epoch = epoch

ResultIsRaw ==
  pc \in {"release", "copy", "publish", "free"} =>
    result.of = [run |-> raw.run, epoch |-> raw.epoch]

Copying ==
  /\ pc \in {"copy", "publish"} => ff_valid # 1
  /\ pc = "copy" => \A b \in 1..(bin - 1) : ff_table[b] = result.of
  /\ pc = "publish" => \A b \in 1..Bins : ff_table[b] = result.of

ValidIsRun == ff_valid = 1 => ff_table[1].run >= 1

(* An active run has periods left to accumulate.                           *)
Running == phase = "ACTIVE" => raw.periods < Sweep

MapInv ==
  /\ TypeOK
  /\ ValidTableIsCurrent
  /\ FeedForwardIsValid
  /\ Owned
  /\ Fresh
  /\ ResultIsRaw
  /\ Copying
  /\ ValidIsRun
  /\ Running

-----------------------------------------------------------------------------
LEMMA InitInv == Init => MapInv
<1> SUFFICES ASSUME Init PROVE MapInv
  OBVIOUS
<1> USE MapAssumption DEF Init, NoRun
<1>1. TypeOK
  <2>1. NoRun \in Runs /\ raw \in [run : 0..MaxRuns, epoch : 0..MaxEpochs, periods : 0..Sweep]
    BY DEF Runs
  <2>2. ff_table \in [1..Bins -> Runs]
    BY <2>1
  <2>3. result \in [of : Runs, ok : BOOLEAN]
    BY <2>1
  <2>4. bin \in 1..Bins /\ mode \in Modes
    BY DEF Modes
  <2>5. epoch \in 0..MaxEpochs /\ ff_valid \in 0..2
    OBVIOUS
  <2> QED
    BY <2>1, <2>2, <2>3, <2>4, <2>5, Zenon DEF TypeOK
<1>2. ValidTableIsCurrent /\ FeedForwardIsValid /\ Owned /\ Fresh
  BY DEF ValidTableIsCurrent, FeedForwardIsValid, Owned, Fresh
<1>3. ResultIsRaw /\ Copying /\ ValidIsRun /\ Running
  BY DEF ResultIsRaw, Copying, ValidIsRun, Running
<1> QED
  BY <1>1, <1>2, <1>3 DEF MapInv

(* A step inside a run, or a start, leaves the raw buffer well typed.      *)
LEMMA AdvanceType ==
  ASSUME NEW run \in [run : 0..MaxRuns, epoch : 0..MaxEpochs, periods : 0..Sweep],
         Advance(run), run.periods < Sweep
  PROVE  /\ raw' \in [run : 0..MaxRuns, epoch : 0..MaxEpochs, periods : 0..Sweep]
         /\ raw'.run = run.run /\ raw'.epoch = run.epoch
         /\ phase' \in {"ACTIVE", "DONE", "FAILED"}
         /\ ready' = (phase' # "ACTIVE")
         /\ phase' = "ACTIVE" => raw'.periods < Sweep
<1> USE MapAssumption
<1> DEFINE next == [run EXCEPT !.periods = @ + 1]
<1>1. /\ next \in [run : 0..MaxRuns, epoch : 0..MaxEpochs, periods : 0..Sweep]
      /\ next.run = run.run /\ next.epoch = run.epoch /\ next.periods = run.periods + 1
  OBVIOUS
<1> HIDE DEF next
<1>2. CASE raw' = run /\ phase' = "FAILED" /\ ready' = TRUE
  BY <1>2
<1>3. CASE /\ raw' = next /\ run.periods + 1 = Sweep
           /\ phase' = "DONE" /\ ready' = TRUE
  BY <1>1, <1>3
<1>4. CASE /\ raw' = next /\ run.periods + 1 # Sweep
           /\ phase' = "ACTIVE" /\ ready' = FALSE
  <2>1. run.periods + 1 < Sweep
    BY <1>4
  <2>2. ready' = (phase' # "ACTIVE")
    BY <1>4, Zenon
  <2> QED
    BY <1>1, <1>4, <2>1, <2>2, Zenon
<1>5. CASE run.periods + 1 = Sweep /\ ~(raw' = run /\ phase' = "FAILED" /\ ready' = TRUE)
  <2>1. raw' = next /\ phase' = "DONE"
    BY <1>5 DEF Advance, next
  <2>2. ready' = TRUE
    BY <1>5 DEF Advance
  <2> QED
    BY <1>3, <1>5, <2>1, <2>2
<1>6. CASE run.periods + 1 # Sweep /\ ~(raw' = run /\ phase' = "FAILED" /\ ready' = TRUE)
  <2>1. raw' = next /\ phase' = "ACTIVE"
    BY <1>6 DEF Advance, next
  <2>2. ready' = FALSE
    BY <1>6 DEF Advance
  <2> QED
    BY <1>4, <1>6, <2>1, <2>2
<1> QED
  BY <1>2, <1>5, <1>6

LEMMA StepInv == MapInv /\ [Next]_vars => MapInv'
<1> SUFFICES ASSUME MapInv, [Next]_vars PROVE MapInv'
  OBVIOUS
<1> USE MapAssumption DEF MapInv, TypeOK, Runs, NoRun, Modes, ctrl, buffer, thread
<1>1. CASE StepIdle
  <2> USE <1>1 DEF StepIdle, LeaveMap, Abort, Owned, ResultIsRaw, Copying
  <2>1. TypeOK'
    BY ZenonT(30)
  <2>2. ValidTableIsCurrent'
    BY DEF ValidTableIsCurrent
  <2>3. FeedForwardIsValid'
    BY DEF FeedForwardIsValid
  <2>4. Owned'
    BY DEF Owned
  <2>5. Fresh'
    BY DEF Fresh
  <2>6. ResultIsRaw'
    BY DEF ResultIsRaw
  <2>7. Copying'
    BY DEF Copying
  <2>8. ValidIsRun'
    BY DEF ValidIsRun
  <2>9. Running'
    BY DEF Running
  <2> QED
    BY <2>1, <2>2, <2>3, <2>4, <2>5, <2>6, <2>7, <2>8, <2>9
<1>2. CASE StepCurrent
  <2> USE <1>2 DEF StepCurrent, LeaveMap, Abort, Latch, Owned, ResultIsRaw, Copying
  <2>1. TypeOK'
    BY ZenonT(30)
  <2>2. ValidTableIsCurrent'
    BY DEF ValidTableIsCurrent
  <2>3. FeedForwardIsValid'
    BY DEF FeedForwardIsValid
  <2>4. Owned'
    BY DEF Owned
  <2>5. Fresh'
    BY DEF Fresh
  <2>6. ResultIsRaw'
    BY DEF ResultIsRaw
  <2>7. Copying'
    BY DEF Copying
  <2>8. ValidIsRun'
    BY DEF ValidIsRun
  <2>9. Running'
    BY DEF Running
  <2> QED
    BY <2>1, <2>2, <2>3, <2>4, <2>5, <2>6, <2>7, <2>8, <2>9
<1>3. CASE StepIdent /\ mode = "IDENT"
  <2> USE <1>3 DEF StepIdent, LeaveMap, Owned, ResultIsRaw, Copying
  <2>1. TypeOK'
    BY ZenonT(30)
  <2>2. ValidTableIsCurrent'
    BY DEF ValidTableIsCurrent
  <2>3. FeedForwardIsValid'
    BY DEF FeedForwardIsValid
  <2>4. Owned'
    BY DEF Owned
  <2>5. Fresh'
    BY DEF Fresh
  <2>6. ResultIsRaw'
    BY DEF ResultIsRaw
  <2>7. Copying'
    BY DEF Copying
  <2>8. ValidIsRun'
    BY DEF ValidIsRun
  <2>9. Running'
    BY DEF Running
  <2> QED
    BY <2>1, <2>2, <2>3, <2>4, <2>5, <2>6, <2>7, <2>8, <2>9
<1>4. CASE StepIdent /\ mode # "IDENT"
  <2> USE <1>4 DEF StepIdent, LeaveMap, Abort, Invalidate, Owned, ResultIsRaw, Copying
  <2>1. TypeOK'
    <3>1. epoch' \in 0..MaxEpochs /\ ff_valid' \in 0..2 /\ mode' \in Modes /\ calib_valid' = FALSE
      <4>1. epoch < MaxEpochs /\ epoch' = epoch + 1 /\ calib_valid' = FALSE /\ ff_valid' = 2 /\ mode' = "IDENT"
        BY Zenon
      <4>2. epoch \in 0..MaxEpochs
        OBVIOUS
      <4>3. epoch' \in 0..MaxEpochs
        BY ONLY <4>1, <4>2, MapAssumption
      <4> QED
        BY ONLY <4>1, <4>3 DEF Modes
    <3>2. phase' \in {"IDLE", "ACTIVE", "DONE", "FAILED"} /\ ready' \in BOOLEAN /\ UNCHANGED raw
      OBVIOUS
    <3> QED
      BY <3>1, <3>2
  <2>2. ValidTableIsCurrent'
    BY DEF ValidTableIsCurrent
  <2>3. FeedForwardIsValid'
    BY DEF FeedForwardIsValid
  <2>4. Owned'
    BY DEF Owned
  <2>5. Fresh'
    BY DEF Fresh
  <2>6. ResultIsRaw'
    BY DEF ResultIsRaw
  <2>7. Copying'
    BY DEF Copying
  <2>8. ValidIsRun'
    BY DEF ValidIsRun
  <2>9. Running'
    BY DEF Running
  <2> QED
    BY <2>1, <2>2, <2>3, <2>4, <2>5, <2>6, <2>7, <2>8, <2>9
<1>5. CASE StepMap /\ MayStart
  <2> DEFINE run == [run |-> raw.run + 1, epoch |-> epoch, periods |-> 0]
  <2> USE DEF Owned
  <2>1. /\ mode' = "MAP" /\ cff' = FALSE /\ ~ready /\ pc = "poll" /\ ff_valid' = 0
        /\ run \in [run : 0..MaxRuns, epoch : 0..MaxEpochs, periods : 0..Sweep]
        /\ run.run >= 1
        /\ UNCHANGED <<epoch, calib_valid, isr_on, ff_table, thread>>
    BY <1>5 DEF StepMap, MayStart
  <2>2. /\ raw' \in [run : 0..MaxRuns, epoch : 0..MaxEpochs, periods : 0..Sweep]
        /\ raw'.run = run.run /\ raw'.epoch = epoch
        /\ phase' \in {"ACTIVE", "DONE", "FAILED"}
        /\ ready' = (phase' # "ACTIVE")
        /\ phase' = "ACTIVE" => raw'.periods < Sweep
    <3>1. CASE Advance(run)
      <4>1. run.periods < Sweep /\ run.epoch = epoch
        OBVIOUS
      <4> HIDE DEF run
      <4> QED
        BY <2>1, <3>1, <4>1, AdvanceType
    <3>2. CASE raw' = run /\ phase' = "FAILED" /\ ready' = TRUE
      <4>1. run.epoch = epoch
        OBVIOUS
      <4> HIDE DEF run
      <4> QED
        BY <2>1, <3>2, <4>1
    <3> QED
      BY <1>5, <3>1, <3>2 DEF StepMap
  <2> HIDE DEF run
  <2>3. TypeOK'
    <3>1. mode' \in Modes /\ ff_valid' \in 0..2 /\ ready' \in BOOLEAN
      BY <2>1, <2>2
    <3>2. UNCHANGED <<epoch, calib_valid, isr_on, ff_table, pc, bin, result>>
      BY <2>1
    <3>3. phase' \in {"IDLE", "ACTIVE", "DONE", "FAILED"} /\ cff' \in BOOLEAN
      BY <2>1, <2>2
    <3> QED
      BY <2>1, <2>2, <3>1, <3>2, <3>3, Zenon
  <2>4. Owned' /\ Fresh'
    BY <2>1, <2>2 DEF Fresh
  <2> QED
    BY <2>1, <2>2, <2>3, <2>4 DEF ValidTableIsCurrent, FeedForwardIsValid, ResultIsRaw, Copying, ValidIsRun, Running
<1>6. CASE StepMap /\ ~MayStart
  <2> USE DEF Owned
  <2>1. /\ mode' = "MAP" /\ cff' \in {FALSE, cff}
        /\ UNCHANGED <<ff_valid, epoch, calib_valid, isr_on, ff_table, thread>>
    BY <1>6 DEF StepMap
  <2>2. /\ raw' \in [run : 0..MaxRuns, epoch : 0..MaxEpochs, periods : 0..Sweep]
        /\ raw'.run = raw.run /\ raw'.epoch = raw.epoch
        /\ phase = "ACTIVE" => /\ phase' \in {"ACTIVE", "DONE", "FAILED"}
                               /\ ready' = (phase' # "ACTIVE")
                               /\ phase' = "ACTIVE" => raw'.periods < Sweep
        /\ phase # "ACTIVE" => UNCHANGED buffer
    <3>1. CASE phase = "ACTIVE"
      <4>1. Advance(raw) /\ raw.periods < Sweep
        BY <1>6, <3>1 DEF StepMap, Running
      <4> QED
        BY <3>1, <4>1, AdvanceType
    <3>2. CASE phase # "ACTIVE"
      BY <1>6, <3>2 DEF StepMap
    <3> QED
      BY <3>1, <3>2
  <2>3. TypeOK'
    BY <2>1, <2>2, ZenonT(30)
  <2>4. Owned' /\ Fresh'
    BY <2>1, <2>2, SMTT(20) DEF Fresh
  <2>5. ValidTableIsCurrent' /\ FeedForwardIsValid' /\ ValidIsRun'
    BY <2>1 DEF ValidTableIsCurrent, FeedForwardIsValid, ValidIsRun
  <2>6. ResultIsRaw' /\ Copying'
    BY <2>1, <2>2 DEF ResultIsRaw, Copying
  <2>7. Running'
    BY <2>2 DEF Running
  <2> QED
    BY <2>3, <2>4, <2>5, <2>6, <2>7
<1>7. CASE Fault
  <2> USE <1>7 DEF Fault, Abort, Owned, ResultIsRaw, Copying
  <2>1. TypeOK'
    BY ZenonT(30)
  <2>2. ValidTableIsCurrent'
    BY DEF ValidTableIsCurrent
  <2>3. FeedForwardIsValid'
    BY DEF FeedForwardIsValid
  <2>4. Owned'
    BY DEF Owned
  <2>5. Fresh'
    BY DEF Fresh
  <2>6. ResultIsRaw'
    BY DEF ResultIsRaw
  <2>7. Copying'
    BY DEF Copying
  <2>8. ValidIsRun'
    BY DEF ValidIsRun
  <2>9. Running'
    BY DEF Running
  <2> QED
    BY <2>1, <2>2, <2>3, <2>4, <2>5, <2>6, <2>7, <2>8, <2>9
<1>8. CASE Poll
  <2> USE <1>8 DEF Poll, Owned, ResultIsRaw, Copying
  <2>1. TypeOK'
    OBVIOUS
  <2>2. ValidTableIsCurrent'
    BY DEF ValidTableIsCurrent
  <2>3. FeedForwardIsValid'
    BY DEF FeedForwardIsValid
  <2>4. Owned'
    BY DEF Owned
  <2>5. Fresh'
    BY DEF Fresh
  <2>6. ResultIsRaw'
    BY DEF ResultIsRaw
  <2>7. Copying'
    BY DEF Copying
  <2>8. ValidIsRun'
    BY DEF ValidIsRun
  <2>9. Running'
    BY DEF Running
  <2> QED
    BY <2>1, <2>2, <2>3, <2>4, <2>5, <2>6, <2>7, <2>8, <2>9
<1>9. CASE Process
  <2> USE <1>9 DEF Process, Owned
  <2>1. TypeOK'
    <3>1. PICK ok \in BOOLEAN : result' = [of |-> [run |-> raw.run, epoch |-> raw.epoch], ok |-> ok]
      OBVIOUS
    <3> QED
      BY <3>1
  <2>2. ValidTableIsCurrent'
    BY DEF ValidTableIsCurrent
  <2>3. FeedForwardIsValid'
    BY DEF FeedForwardIsValid
  <2>4. Owned'
    BY DEF Owned
  <2>5. Fresh'
    BY DEF Fresh
  <2>6. ResultIsRaw'
    BY DEF ResultIsRaw
  <2>7. Copying'
    BY DEF Copying
  <2>8. ValidIsRun'
    BY DEF ValidIsRun
  <2>9. Running'
    BY DEF Running
  <2> QED
    BY <2>1, <2>2, <2>3, <2>4, <2>5, <2>6, <2>7, <2>8, <2>9
<1>10. CASE ReleaseCheck
  <2> USE <1>10 DEF ReleaseCheck, Writable, Owned, ResultIsRaw
  <2>1. TypeOK'
    OBVIOUS
  <2>2. ValidTableIsCurrent'
    BY DEF ValidTableIsCurrent
  <2>3. FeedForwardIsValid'
    BY DEF FeedForwardIsValid
  <2>4. Owned'
    BY DEF Owned
  <2>5. Fresh'
    BY DEF Fresh
  <2>6. ResultIsRaw'
    BY DEF ResultIsRaw
  <2>7. Copying'
    BY DEF Copying
  <2>8. ValidIsRun'
    BY DEF ValidIsRun
  <2>9. Running'
    BY DEF Running
  <2> QED
    BY <2>1, <2>2, <2>3, <2>4, <2>5, <2>6, <2>7, <2>8, <2>9
<1>11. CASE CopyBin
  <2> USE <1>11 DEF CopyBin, LastBin, Owned, ResultIsRaw
  <2>1. TypeOK'
    <3>1. ff_table' \in [1..Bins -> [run : 0..MaxRuns, epoch : 0..MaxEpochs]]
      <4>1. result.of \in [run : 0..MaxRuns, epoch : 0..MaxEpochs]
        OBVIOUS
      <4>2. ff_table \in [1..Bins -> [run : 0..MaxRuns, epoch : 0..MaxEpochs]]
        OBVIOUS
      <4>3. ff_table' = [ff_table EXCEPT ![bin] = result.of]
        OBVIOUS
      <4> HIDE DEF MapInv, TypeOK, CopyBin
      <4> QED
        BY <4>1, <4>2, <4>3, Zenon
    <3>2. bin' \in 1..Bins /\ pc' \in {"copy", "publish"}
      OBVIOUS
    <3> QED
      BY <3>1, <3>2
  <2>2. ValidTableIsCurrent'
    BY DEF Copying, ValidTableIsCurrent
  <2>3. FeedForwardIsValid'
    BY DEF FeedForwardIsValid
  <2>4. Owned'
    BY DEF Owned
  <2>5. Fresh'
    BY DEF Fresh
  <2>6. ResultIsRaw'
    BY DEF ResultIsRaw
  <2>7. Copying'
    <3>1. \A b \in 1..bin : ff_table'[b] = result.of
      BY DEF Copying
    <3>2. ff_valid' # 1
      BY DEF Copying
    <3>3. CASE bin = Bins
      BY <3>1, <3>2, <3>3 DEF Copying
    <3>4. CASE bin # Bins
      <4>1. pc' = "copy" /\ bin' = bin + 1 /\ UNCHANGED result /\ bin' - 1 = bin
        BY <3>4
      <4> QED
        BY <3>1, <3>2, <4>1 DEF Copying
    <3> QED
      BY <3>3, <3>4
  <2>8. ValidIsRun'
    BY DEF Copying, ValidIsRun
  <2>9. Running'
    BY DEF Running
  <2> QED
    BY <2>1, <2>2, <2>3, <2>4, <2>5, <2>6, <2>7, <2>8, <2>9
<1>12. CASE CompareAndSwap
  <2> USE <1>12 DEF CompareAndSwap, Publish, Owned, ResultIsRaw, Copying, Fresh
  <2>1. TypeOK'
    OBVIOUS
  <2>2. ValidTableIsCurrent'
    BY DEF ValidTableIsCurrent
  <2>3. FeedForwardIsValid'
    BY DEF FeedForwardIsValid
  <2>4. Owned'
    BY DEF Owned
  <2>5. Fresh'
    BY DEF Fresh
  <2>6. ResultIsRaw'
    BY DEF ResultIsRaw
  <2>7. Copying'
    BY DEF Copying
  <2>8. ValidIsRun'
    BY DEF ValidIsRun
  <2>9. Running'
    BY DEF Running
  <2> QED
    BY <2>1, <2>2, <2>3, <2>4, <2>5, <2>6, <2>7, <2>8, <2>9
<1>13. CASE Free
  <2> USE <1>13 DEF Free, GiveBack, Owned
  <2>1. TypeOK'
    BY ZenonT(30)
  <2>2. ValidTableIsCurrent'
    BY DEF ValidTableIsCurrent
  <2>3. FeedForwardIsValid'
    BY DEF FeedForwardIsValid
  <2>4. Owned'
    BY DEF Owned
  <2>5. Fresh'
    BY DEF Fresh
  <2>6. ResultIsRaw'
    BY DEF ResultIsRaw
  <2>7. Copying'
    BY DEF Copying
  <2>8. ValidIsRun'
    BY DEF ValidIsRun
  <2>9. Running'
    BY DEF Running
  <2> QED
    BY <2>1, <2>2, <2>3, <2>4, <2>5, <2>6, <2>7, <2>8, <2>9
<1>14. CASE UNCHANGED vars
  BY <1>14 DEF vars, ValidTableIsCurrent, FeedForwardIsValid, Owned, Fresh, ResultIsRaw, Copying, ValidIsRun, Running
<1> QED
  BY <1>1, <1>2, <1>3, <1>4, <1>5, <1>6, <1>7, <1>8, <1>9, <1>10, <1>11, <1>12, <1>13, <1>14 DEF Next, Isr, Thread

-----------------------------------------------------------------------------
(* The strengthened invariant holds of every behaviour.                    *)
THEOREM MapInvariant == Spec => []MapInv
<1>1. Init => MapInv
  BY InitInv
<1>2. MapInv /\ [Next]_vars => MapInv'
  BY StepInv
<1> QED
  BY <1>1, <1>2, PTL DEF Spec

(* Type correctness of the exchange.                                       *)
THEOREM MapTypes == Spec => []TypeOK
<1>1. MapInv => TypeOK
  BY DEF MapInv
<1> QED
  BY <1>1, MapInvariant, PTL

(* A valid table is in one piece and of the calibration in force           *)
(* (foc_ctrl_map_release() against mode_enter()).                          *)
THEOREM MapCurrent == Spec => []ValidTableIsCurrent
<1>1. MapInv => ValidTableIsCurrent
  BY DEF MapInv
<1> QED
  BY <1>1, MapInvariant, PTL

(* The current loop applies the feed-forward only from a valid table       *)
(* (current_capture_prepare(), speed_latch(), mode_enter()).               *)
THEOREM MapFeedForward == Spec => []FeedForwardIsValid
<1>1. MapInv => FeedForwardIsValid
  BY DEF MapInv
<1> QED
  BY <1>1, MapInvariant, PTL

-----------------------------------------------------------------------------
(* Nobody writes the raw buffer or its verdict while the thread owns it    *)
(* (cog_map_get(), cog_map_abort(), mode_enter()).                         *)
THEOREM MapRawStable == Spec => RawIsStable
<1>1. MapInv /\ [Next]_vars /\ ready /\ ready' => UNCHANGED <<raw, phase>>
  <2> SUFFICES ASSUME MapInv, [Next]_vars, ready, ready'
               PROVE  UNCHANGED <<raw, phase>>
    OBVIOUS
  <2> USE DEF MapInv, Owned, buffer
  <2>1. CASE StepIdle \/ StepCurrent \/ StepIdent \/ Fault
    BY <2>1 DEF StepIdle, StepCurrent, StepIdent, Fault, LeaveMap, Abort
  <2>2. CASE StepMap
    BY <2>2 DEF StepMap, MayStart
  <2>3. CASE Poll \/ Process \/ ReleaseCheck \/ CopyBin \/ CompareAndSwap \/ Free
    BY <2>3 DEF Poll, Process, ReleaseCheck, CopyBin, CompareAndSwap, Free
  <2>4. CASE UNCHANGED vars
    BY <2>4 DEF vars
  <2> QED
    BY <2>1, <2>2, <2>3, <2>4 DEF Next, Isr, Thread
<1> QED
  BY <1>1, MapInvariant, PTL DEF Spec, RawIsStable

-----------------------------------------------------------------------------
(* The exchange implements FeedForward.                                    *)
Seen == IF ff_valid = 1 THEN ff_table[1] ELSE NoRun

LEMMA AbstractInit == Init => Abstract!Init
  BY DEF Init, Abstract!Init

LEMMA AbstractStep ==
  MapInv /\ [Next]_vars => [Abstract!Next]_<<epoch, Seen>>
<1> SUFFICES ASSUME MapInv, [Next]_vars
             PROVE  [Abstract!Next]_<<epoch, Seen>>
  OBVIOUS
<1> USE DEF MapInv
<1>1. CASE StepIdle \/ StepCurrent \/ Fault
  BY <1>1 DEF StepIdle, StepCurrent, Fault, Seen
<1>2. CASE StepIdent
  <2>1. CASE mode = "IDENT"
    BY <1>2, <2>1 DEF StepIdent, Seen
  <2>2. CASE mode # "IDENT"
    <3>1. epoch' = epoch + 1 /\ Seen' = NoRun
      BY <1>2, <2>2 DEF StepIdent, Invalidate, Seen
    <3> QED
      BY <3>1 DEF Seen, Abstract!Next, Abstract!Recalibrate
  <2> QED
    BY <2>1, <2>2
<1>3. CASE StepMap
  <2>1. CASE MayStart
    <3>1. epoch' = epoch /\ Seen' = NoRun
      BY <1>3, <2>1 DEF StepMap, Seen
    <3> QED
      BY <3>1 DEF Seen, Abstract!Next, Abstract!Withdraw
  <2>2. CASE ~MayStart
    BY <1>3, <2>2 DEF StepMap, Seen
  <2> QED
    BY <2>1, <2>2
<1>4. CASE Poll \/ Process \/ ReleaseCheck \/ Free
  BY <1>4 DEF Poll, Process, ReleaseCheck, Free, ctrl, Seen
<1>5. CASE CopyBin
  BY <1>5 DEF CopyBin, ctrl, Copying, Seen
<1>6. CASE CompareAndSwap
  <2>1. epoch' = epoch /\ ff_table' = ff_table /\ ff_valid # 1
    BY <1>6 DEF CompareAndSwap, ctrl, Copying
  <2>2. CASE ff_valid = 0
    <3>1. ff_valid' = 1
      BY <1>6, <2>2 DEF CompareAndSwap, Publish
    <3>2. ff_table[1] = [run |-> raw.run, epoch |-> raw.epoch] /\ raw.epoch = epoch
      BY <1>6, <2>2, MapAssumption DEF CompareAndSwap, Copying, ResultIsRaw, Fresh
    <3>3. raw.run \in Nat
      BY MapAssumption DEF TypeOK
    <3>4. ff_table[1] \in [run : Nat, epoch : {epoch}]
      BY <3>2, <3>3
    <3> QED
      BY <2>1, <3>1, <3>4 DEF Seen, Abstract!Next, Abstract!Publish
  <2>3. CASE ff_valid # 0
    BY <1>6, <2>1, <2>3 DEF CompareAndSwap, Publish, Seen
  <2> QED
    BY <2>2, <2>3
<1>7. CASE UNCHANGED vars
  BY <1>7 DEF vars, ctrl, Seen
<1> QED
  BY <1>1, <1>2, <1>3, <1>4, <1>5, <1>6, <1>7 DEF Next, Isr, Thread

(* The refinement: a new identification is Recalibrate, the start of a     *)
(* map Withdraw, a successful compare-and-swap Publish; all else stutters. *)
THEOREM MapImplements == Spec => ImplementsFeedForward
<1>1. Init => Abstract!Init
  BY AbstractInit
<1>2. MapInv /\ [Next]_vars => [Abstract!Next]_<<epoch, Seen>>
  BY AbstractStep
<1> QED
  BY <1>1, <1>2, MapInvariant, PTL DEF Spec, ImplementsFeedForward, Abstract!Spec, Seen

Offered == IF ready THEN <<raw, phase>> ELSE <<>>

LEMMA HandoffStep ==
  MapInv /\ [Next]_vars => [HandoffSpec!Next]_<<Offered, pc # "poll">>
<1> SUFFICES ASSUME MapInv, [Next]_vars
             PROVE [HandoffSpec!Next]_<<Offered, pc # "poll">>
  OBVIOUS
<1>1. Owned
  BY DEF MapInv
<1>2. ASSUME ready' = ready, raw' = raw, phase' = phase,
             (pc' # "poll") <=> (pc # "poll")
      PROVE [HandoffSpec!Next]_<<Offered, pc # "poll">>
  <2>1. UNCHANGED <<Offered, pc # "poll">>
    BY <1>2 DEF Offered
  <2> QED
    BY <2>1
<1>3. ASSUME UNCHANGED thread, ready => UNCHANGED buffer
      PROVE [HandoffSpec!Next]_<<Offered, pc # "poll">>
  <2>1. CASE ready' = ready
    BY <1>3, <2>1 DEF thread, buffer, Offered
  <2>2. CASE ready' # ready
    <3>1. ~ready /\ Offered = <<>> /\ pc' = pc
      BY <1>3, <2>2 DEF thread, buffer, Offered
    <3>2. CASE Offered' = <<>>
      BY <3>1, <3>2
    <3>3. CASE Offered' # <<>>
      BY <3>1, <3>3 DEF HandoffSpec!Next, HandoffSpec!Offer, Offered
    <3> QED
      BY <3>2, <3>3
  <2> QED
    BY <2>1, <2>2
<1>4. CASE Isr
  <2>1. UNCHANGED thread
    BY <1>4, Zenon DEF Isr, StepIdle, StepCurrent, StepIdent, StepMap, Fault
  <2>2. Abort => (ready => UNCHANGED buffer)
    BY <1>1 DEF Abort, buffer, Owned
  <2>3. ready => UNCHANGED buffer
    <3>1. StepMap => (ready => UNCHANGED buffer)
      BY <1>1 DEF StepMap, MayStart, Owned, buffer
    <3> QED
      BY <1>4, <2>2, <3>1, Zenon
         DEF Isr, StepIdle, StepCurrent, StepIdent, Fault, LeaveMap
  <2> QED
    BY <1>3, <2>1, <2>3
<1>5. CASE Poll
  <2>1. ready /\ pc = "poll" /\ pc' # "poll" /\ Offered' = Offered
    BY <1>5 DEF Poll, buffer, Offered
  <2>2. Offered # <<>>
    BY <2>1 DEF Offered
  <2> QED
    BY <2>1, <2>2 DEF HandoffSpec!Next, HandoffSpec!Get, Offered
<1>6. CASE Process \/ ReleaseCheck \/ CopyBin \/ CompareAndSwap
  <2>1. UNCHANGED buffer
    BY <1>6, Zenon DEF Process, ReleaseCheck, CopyBin, CompareAndSwap
  <2>2. pc # "poll" /\ pc' # "poll"
    BY <1>1, <1>6 DEF Owned, Process, ReleaseCheck, CopyBin, CompareAndSwap
  <2> QED
    BY <1>2, <2>1, <2>2 DEF buffer
<1>7. CASE Free
  <2>1. pc # "poll" /\ ~(pc' # "poll") /\ Offered' = <<>>
    BY <1>7 DEF Free, GiveBack, Offered
  <2> QED
    BY <2>1 DEF HandoffSpec!Next, HandoffSpec!Release, Offered
<1>8. CASE UNCHANGED vars
  BY <1>2, <1>8 DEF vars, buffer, thread
<1> QED
  BY <1>4, <1>5, <1>6, <1>7, <1>8, Zenon DEF Next, Thread

(* The hand-over: every run that ends is offered to the thread once, stays *)
(* as it ended while the thread processes it, and is taken back by the     *)
(* thread's release alone.                                                 *)
THEOREM MapHandsOff == Spec => ImplementsHandoff
<1>1. Init => HandoffSpec!Init
  <2> SUFFICES ASSUME Init PROVE HandoffSpec!Init
    OBVIOUS
  <2>1. ~ready /\ pc = "poll"
    BY Zenon DEF Init
  <2> QED
    BY <2>1 DEF HandoffSpec!Init
<1> QED
  BY <1>1, HandoffStep, MapInvariant, PTL
     DEF Spec, ImplementsHandoff, HandoffSpec!Spec, Offered
=============================================================================

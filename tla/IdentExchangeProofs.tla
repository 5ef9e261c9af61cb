------------------------ MODULE IdentExchangeProofs -------------------------
(***************************************************************************)
(* Proofs about IdentExchange, for any number of identifications.          *)
(***************************************************************************)
EXTENDS IdentExchange, TLAPS

(* A result not published yet is of a later run than the one published.    *)
Newer ==
  /\ ident_result.run <= run
  /\ state \in Terminal /\ ~ident_published => ident_result.run < run
  /\ state = "RUNNING" => ident_result.run < run /\ ~ident_published

(* The thread prints a real result that it owns.                           *)
Owned ==
  /\ pc = "dump" => ident_ready
  /\ ident_ready => ident_result.run > 0

Started == (state = "IDLE" <=> run = 0) /\ (mode = "IDENT" => run > 0)

ExchangeInv == TypeOK /\ CalibIsOfLastRun /\ Newer /\ Owned /\ Started

LEMMA InitExchange == Init => ExchangeInv
<1> SUFFICES ASSUME Init PROVE ExchangeInv
  OBVIOUS
<1>1. ident_published \in BOOLEAN /\ ident_ready \in BOOLEAN /\ isr_on \in BOOLEAN
  BY Zenon DEF Init
<1>2. TypeOK
  BY <1>1, RunsAssumption DEF Init, TypeOK, NoResult, Terminal
<1>3. CalibIsOfLastRun /\ Newer /\ Owned /\ Started
  BY DEF Init, CalibIsOfLastRun, Newer, Owned, Started, NoResult, Terminal
<1> QED
  BY <1>2, <1>3 DEF ExchangeInv

(* What publishing does to the buffer.                                     *)
LEMMA Published ==
  ASSUME TypeOK, Newer, NEW n \in 1..MaxRuns, NEW s \in {"IDLE", "RUNNING"} \cup Terminal,
         NEW p \in BOOLEAN, Publish(n, s, p),
         ident_result.run <= n, s \in Terminal /\ ~p => ident_result.run < n
  PROVE /\ ident_result' \in [run : 0..MaxRuns, state : {"IDLE"} \cup Terminal]
        /\ ident_ready' \in BOOLEAN /\ ident_published' \in BOOLEAN
        /\ ident_result'.run <= n
        /\ s \in Terminal /\ ~ident_published' => ident_result'.run < n
        /\ ident_ready' /\ ~ident_ready =>
             ident_result'.run = n /\ ident_result'.run > ident_result.run
        /\ ident_ready => ident_ready' /\ ident_result' = ident_result
        /\ s = "RUNNING" => ident_result' = ident_result /\ ident_published' = p
        /\ ~ident_ready' => ident_result' = ident_result
<1>1. CASE Due(s, p)
  <2>1. /\ s \in Terminal /\ ~p /\ ~ident_ready
        /\ ident_result' = [run |-> n, state |-> s] /\ ident_ready' = TRUE
        /\ ident_published' = TRUE
    BY <1>1, Zenon DEF Due, Publish
  <2>2. ident_result' \in [run : 0..MaxRuns, state : {"IDLE"} \cup Terminal]
        /\ ident_result'.run = n
    BY <2>1
  <2>3. ident_ready' \in BOOLEAN /\ ident_published' \in BOOLEAN /\ ident_ready'
        /\ ident_published' /\ s # "RUNNING"
    BY <2>1, Zenon DEF Terminal
  <2>4. ident_result'.run > ident_result.run /\ ident_result'.run <= n
    BY <2>1, <2>2 DEF TypeOK
  <2> QED
    BY <2>1, <2>2, <2>3, <2>4, Zenon
<1>2. CASE ~Due(s, p)
  <2>1. ident_result' = ident_result /\ ident_ready' = ident_ready /\ ident_published' = p
    BY <1>2, Zenon DEF Publish, buffer
  <2>2. ident_ready' \in BOOLEAN /\ ident_published' \in BOOLEAN
    BY <2>1, Zenon DEF TypeOK
  <2> QED
    BY <2>1, <2>2 DEF TypeOK
<1> QED
  BY <1>1, <1>2

(* A step of the interrupt that publishes for run n in state s.            *)
LEMMA StepKeeps ==
  ASSUME ExchangeInv, NEW n \in 1..MaxRuns, NEW s \in {"RUNNING"} \cup Terminal,
         NEW p \in BOOLEAN, Publish(n, s, p), run' = n, state' = s,
         ident_result.run <= n, s \in Terminal /\ ~p => ident_result.run < n,
         s = "RUNNING" => ident_result.run < n /\ ~p,
         mode' \in {"IDENT", "OTHER"}, UNCHANGED <<isr_on, pc>>,
         calib' \in 0..MaxRuns, calib' # 0 => calib' = n /\ s = "DONE"
  PROVE ExchangeInv'
<1>1. TypeOK' /\ Newer'
  BY Published DEF ExchangeInv, TypeOK, Newer
<1>2. Owned' /\ Started'
  BY Published DEF ExchangeInv, Owned, Started, Terminal
<1> QED
  BY <1>1, <1>2 DEF ExchangeInv, CalibIsOfLastRun

LEMMA EnterKeeps ==
  ASSUME ExchangeInv, StepEnter
  PROVE ExchangeInv'
<1>1. PICK s \in Outcomes("RUNNING") :
        /\ state' = s
        /\ calib' = Calibration(run + 1, s, CalibWithdrawn)
        /\ Publish(run + 1, s, PublishedReset)
  BY DEF StepEnter
<1>2. s \in {"RUNNING"} \cup Terminal
  BY DEF Outcomes, Terminal
<1>3. run + 1 \in 1..MaxRuns /\ run' = run + 1 /\ ident_result.run < run + 1
  BY RunsAssumption DEF StepEnter, ExchangeInv, TypeOK, Newer
<1>4. calib' \in {0, run + 1} /\ (calib' # 0 => s = "DONE")
  BY <1>1 DEF Calibration, CalibWithdrawn
<1>5. FALSE \in BOOLEAN /\ Publish(run + 1, s, FALSE)
  BY <1>1 DEF PublishedReset
<1>6. mode' = "IDENT" /\ UNCHANGED <<isr_on, pc>>
  BY DEF StepEnter
<1>7. calib' \in 0..MaxRuns /\ (calib' # 0 => calib' = run + 1) /\ ident_result.run <= run + 1
  BY <1>3, <1>4, RunsAssumption DEF ExchangeInv, TypeOK
<1> QED
  BY <1>1, <1>2, <1>3, <1>4, <1>5, <1>6, <1>7, StepKeeps

LEMMA IdentKeeps ==
  ASSUME ExchangeInv, StepIdent
  PROVE ExchangeInv'
<1>1. PICK s \in Outcomes(state) :
        state' = s /\ calib' = Calibration(run, s, calib) /\ Publish(run, s, ident_published)
  BY DEF StepIdent
<1>2. run \in 1..MaxRuns /\ state \in {"RUNNING"} \cup Terminal
      /\ ident_published \in BOOLEAN /\ mode = "IDENT"
      /\ UNCHANGED <<mode, run, isr_on, pc>>
  BY DEF StepIdent, ExchangeInv, TypeOK, Started
<1>3. s \in {"RUNNING"} \cup Terminal /\ (s = state \/ state = "RUNNING")
  BY <1>2 DEF Outcomes, Terminal
<1>4. /\ ident_result.run <= run
      /\ s \in Terminal /\ ~ident_published => ident_result.run < run
      /\ s = "RUNNING" => ident_result.run < run /\ ~ident_published
  BY <1>2, <1>3 DEF ExchangeInv, Newer, Terminal
<1>5. calib' \in 0..MaxRuns /\ (calib' # 0 => calib' = run /\ s = "DONE")
  BY <1>1, <1>2, <1>3 DEF Calibration, ExchangeInv, TypeOK, CalibIsOfLastRun
<1>6. run' = run /\ mode' \in {"IDENT", "OTHER"} /\ UNCHANGED <<isr_on, pc>>
  BY <1>2
<1> QED
  BY <1>1, <1>2, <1>3, <1>4, <1>5, <1>6, StepKeeps

(* A step outside IDENT, of a run that has ended or been cancelled.        *)
LEMMA LeftKeeps ==
  ASSUME ExchangeInv, state # "IDLE", state' = Left(state),
         Publish(run, Left(state), ident_published), mode' = "OTHER",
         UNCHANGED <<run, calib, isr_on, pc>>
  PROVE ExchangeInv'
<1>1. run \in 1..MaxRuns /\ state \in {"RUNNING"} \cup Terminal /\ ident_published \in BOOLEAN
  BY DEF ExchangeInv, TypeOK, Started
<1>2. Left(state) \in Terminal /\ Left(state) \in {"RUNNING"} \cup Terminal /\ Left(state) # "RUNNING"
  BY <1>1 DEF Left, Terminal
<1>3. ident_result.run <= run /\ (~ident_published => ident_result.run < run)
  BY <1>1 DEF ExchangeInv, Newer
<1>4. calib' \in 0..MaxRuns /\ (calib' # 0 => calib' = run /\ Left(state) = "DONE")
  BY DEF ExchangeInv, TypeOK, CalibIsOfLastRun, Left
<1>5. run' = run /\ mode' \in {"IDENT", "OTHER"} /\ UNCHANGED <<isr_on, pc>>
  OBVIOUS
<1> QED
  BY <1>1, <1>2, <1>3, <1>4, <1>5, StepKeeps

LEMMA OtherKeeps ==
  ASSUME ExchangeInv, StepOther
  PROVE ExchangeInv'
<1>1. CASE state = "IDLE"
  <2>1. ~Due(state, ident_published)
    BY <1>1 DEF Due, Terminal
  <2>2. UNCHANGED <<mode, run, state, ident_published, buffer, calib, isr_on, pc>>
    BY <2>1, Zenon DEF StepOther, Publish
  <2> QED
    BY <2>2 DEF buffer, ExchangeInv, TypeOK, CalibIsOfLastRun, Newer, Owned, Started
<1>2. CASE state = "RUNNING"
  <2>1. ~Due(state, ident_published)
    BY <1>2 DEF Due, Terminal
  <2>2. UNCHANGED <<mode, run, state, ident_published, buffer, calib, isr_on, pc>>
    BY <2>1, Zenon DEF StepOther, Publish
  <2> QED
    BY <2>2 DEF buffer, ExchangeInv, TypeOK, CalibIsOfLastRun, Newer, Owned, Started
<1>3. CASE state \in Terminal
  <2>1. Left(state) = state /\ state # "IDLE" /\ mode' = "OTHER"
    BY <1>3 DEF Left, Terminal, StepOther, ExchangeInv, TypeOK
  <2> QED
    BY <2>1, LeftKeeps DEF StepOther
<1> QED
  BY <1>1, <1>2, <1>3 DEF ExchangeInv, TypeOK

LEMMA NextExchange ==
  ASSUME ExchangeInv, [Next]_vars
  PROVE ExchangeInv'
<1>1. CASE StepEnter
  BY <1>1, EnterKeeps
<1>2. CASE StepIdent
  BY <1>2, IdentKeeps
<1>3. CASE StepLeave
  <2>1. state # "IDLE"
    BY <1>3 DEF StepLeave, ExchangeInv, TypeOK, Started
  <2> QED
    BY <1>3, <2>1, LeftKeeps DEF StepLeave
<1>4. CASE StepOther
  BY <1>4, OtherKeeps
<1>5. CASE Fault
  <2>1. isr_on' \in BOOLEAN
    BY <1>5, Zenon DEF Fault
  <2> QED
    BY <1>5, <2>1 DEF Fault, ident, buffer, ExchangeInv, TypeOK, CalibIsOfLastRun, Newer,
       Owned, Started
<1>6. CASE Get
  BY <1>6 DEF Get, ident, buffer, ExchangeInv, TypeOK, CalibIsOfLastRun, Newer, Owned, Started
<1>7. CASE Release
  <2>1. ident_ready' \in BOOLEAN /\ ~ident_ready'
    BY <1>7, Zenon DEF Release
  <2> QED
    BY <1>7, <2>1 DEF Release, ident, ExchangeInv, TypeOK, CalibIsOfLastRun, Newer, Owned,
       Started
<1>8. CASE UNCHANGED vars
  BY <1>8 DEF vars, ident, buffer, ExchangeInv, TypeOK, CalibIsOfLastRun, Newer, Owned, Started
<1> QED
  BY <1>1, <1>2, <1>3, <1>4, <1>5, <1>6, <1>7, <1>8 DEF Next, Step
-----------------------------------------------------------------------------
(* The inductive invariant of the exchange.                                *)
THEOREM ExchangeInvariant == Spec => []ExchangeInv
<1> QED
  BY InitExchange, NextExchange, PTL DEF Spec

(* Type correctness of the exchange.                                       *)
THEOREM ExchangeTypes == Spec => []TypeOK
<1>1. ExchangeInv => TypeOK
  BY DEF ExchangeInv
<1> QED
  BY ExchangeInvariant, <1>1, PTL

(* foc_ctrl.h:157 - the calibration is of the last run, which completed.   *)
THEOREM ExchangeCalibration == Spec => []CalibIsOfLastRun
<1>1. ExchangeInv => CalibIsOfLastRun
  BY DEF ExchangeInv
<1> QED
  BY ExchangeInvariant, <1>1, PTL

(* foc_ctrl.c:145 - a result is published once, in the order of the runs.  *)
THEOREM ExchangeInOrder == Spec => PublishedOnceInOrder
<1> DEFINE InOrder ==
      ~ident_ready /\ ident_ready' => ident_result'.run > ident_result.run
<1>1. ExchangeInv /\ [Next]_vars => [InOrder]_vars
  <2> SUFFICES ASSUME ExchangeInv, Next, ~ident_ready, ident_ready'
               PROVE ident_result'.run > ident_result.run
    OBVIOUS
  <2>1. CASE StepEnter
    <3>1. PICK s \in Outcomes("RUNNING") : Publish(run + 1, s, PublishedReset)
      BY <2>1 DEF StepEnter
    <3>2. ident_result' = [run |-> run + 1, state |-> s]
      BY <3>1, Zenon DEF Publish, buffer
    <3> QED
      BY <3>2 DEF ExchangeInv, TypeOK, Newer
  <2>2. ASSUME NEW s \in {"RUNNING"} \cup Terminal, Publish(run, s, ident_published),
               s = state \/ state = "RUNNING"
        PROVE ident_result'.run > ident_result.run
    <3>1. Due(s, ident_published) /\ ident_result' = [run |-> run, state |-> s]
      BY <2>2, Zenon DEF Publish, buffer
    <3> QED
      BY <2>2, <3>1 DEF Due, ExchangeInv, TypeOK, Newer, Terminal
  <2>3. CASE StepIdent
    <3>1. PICK s \in Outcomes(state) : Publish(run, s, ident_published)
      BY <2>3 DEF StepIdent
    <3>2. s \in {"RUNNING"} \cup Terminal /\ (s = state \/ state = "RUNNING")
      BY <2>3, <3>1 DEF Outcomes, Terminal, StepIdent, ExchangeInv, TypeOK, Started
    <3> QED
      BY <2>2, <3>1, <3>2
  <2>4. CASE StepLeave
    <3>1. Left(state) \in {"RUNNING"} \cup Terminal
          /\ (Left(state) = state \/ state = "RUNNING")
      BY <2>4 DEF Left, Terminal, StepLeave, ExchangeInv, TypeOK, Started
    <3> QED
      BY <2>2, <2>4, <3>1 DEF StepLeave
  <2>5. CASE StepOther
    <3>1. state \in {"RUNNING"} \cup Terminal
      BY <2>5, Zenon DEF StepOther, Publish, Due, buffer
    <3> QED
      BY <2>2, <2>5, <3>1 DEF StepOther
  <2> QED
    BY <2>1, <2>3, <2>4, <2>5, Zenon DEF Next, Step, Fault, Get, Release, buffer
<1> QED
  BY ExchangeInvariant, <1>1, PTL DEF Spec, PublishedOnceInOrder

(* foc_ctrl.h:227-234 - the exchange implements the hand-over: a result is *)
(* offered whole, stays while the thread prints it, and goes only by the   *)
(* thread's release.                                                       *)
THEOREM ExchangeImplements == Spec => ImplementsHandoff
<1> DEFINE offered == IF ident_ready THEN ident_result ELSE NoResult
<1>1. Init => HandoffSpec!Init
  <2> SUFFICES ASSUME Init PROVE HandoffSpec!Init
    OBVIOUS
  <2>1. ~ident_ready /\ pc = "poll"
    BY Zenon DEF Init
  <2> QED
    BY <2>1 DEF HandoffSpec!Init
<1>2. ExchangeInv /\ [Next]_vars => [HandoffSpec!Next]_<<offered, pc = "dump">>
  <2> SUFFICES ASSUME ExchangeInv, [Next]_vars
               PROVE [HandoffSpec!Next]_<<offered, pc = "dump">>
    OBVIOUS
  <2>1. CASE Step
    <3>1. pc' = pc
      BY <2>1 DEF Step, StepEnter, StepIdent, StepLeave, StepOther
    <3>2. ident_ready => ident_ready' /\ ident_result' = ident_result
      BY <2>1, Zenon DEF Step, StepEnter, StepIdent, StepLeave, StepOther, Publish, Due, buffer
    <3>3. ident_ready' => ident_result'.run > 0
      BY <2>1, NextExchange DEF Next, ExchangeInv, Owned
    <3>4. CASE ident_ready
      BY <3>1, <3>2, <3>4
    <3>5. CASE ~ident_ready /\ ident_ready'
      <4>1. ident_result' # NoResult
        BY <3>3, <3>5 DEF NoResult
      <4> QED
        BY <3>1, <3>5, <4>1 DEF HandoffSpec!Next, HandoffSpec!Offer
    <3>6. CASE ~ident_ready /\ ~ident_ready'
      BY <3>1, <3>6
    <3> QED
      BY <3>4, <3>5, <3>6
  <2>2. CASE Fault \/ UNCHANGED vars
    BY <2>2 DEF Fault, vars, ident, buffer
  <2>3. CASE Get
    <3>1. ident_ready /\ ident_result # NoResult /\ pc = "poll" /\ pc' = "dump"
          /\ ident_ready' = ident_ready /\ ident_result' = ident_result
      BY <2>3 DEF Get, buffer, ExchangeInv, Owned, NoResult
    <3> QED
      BY <3>1 DEF HandoffSpec!Next, HandoffSpec!Get
  <2>4. CASE Release
    <3>1. pc = "dump" /\ pc' = "poll" /\ ~ident_ready'
      BY <2>4, Zenon DEF Release
    <3> QED
      BY <3>1 DEF HandoffSpec!Next, HandoffSpec!Release
  <2> QED
    BY <2>1, <2>2, <2>3, <2>4 DEF Next
<1> QED
  BY ExchangeInvariant, <1>1, <1>2, PTL DEF Spec, ImplementsHandoff, HandoffSpec!Spec
=============================================================================

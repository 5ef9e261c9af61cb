---------------------------- MODULE StatsWindow ----------------------------
(***************************************************************************)
(* The statistics of src/pwm_adc.c: the FOC interrupt accumulates a window *)
(* of periods, the report thread copies it word by word under a sequence   *)
(* lock and asks the interrupt for a new one (pwm_adc_stats_take()).       *)
(*                                                                         *)
(* Data abstraction: a word of the statistics is the stretch of periods    *)
(* accumulated in it, from + 1 to to.  The sticky words are left out.      *)
(***************************************************************************)
EXTENDS Integers

CONSTANTS
  Words,     (* words of the copied structure                              *)
  MaxIsrs    (* bound of the model: interrupts                             *)

ASSUME StatsAssumption == Words \in Nat \ {0} /\ MaxIsrs \in Nat

VARIABLES
  isr_total,  (* interrupts since boot                                     *)
  start,      (* interrupts before the window in stats                     *)
  seq,        (* odd while the interrupt writes                            *)
  reset_req,  (* the thread asks for a new window                          *)
  isr_on,     (* pwm_adc_stop() has not disabled the interrupt             *)
  pc,         (* the thread in pwm_adc_stats_take()                        *)
  copied,     (* words copied so far                                       *)
  before,     (* its local `before'                                        *)
  out,        (* its buffer *out                                           *)
  last,       (* history: the window taken before this one                 *)
  idle_since  (* history: interrupts when that one was taken               *)

isrVars == <<isr_total, start, seq, isr_on>>
threadVars == <<pc, copied, before, out, last, idle_since>>
vars == <<isrVars, reset_req, threadVars>>

Windows == [from : 0..MaxIsrs, to : 0..MaxIsrs]
Empty == [from |-> 0, to |-> 0]

(* What every word of stats holds now.                                     *)
Window == [from |-> start, to |-> isr_total]

Init ==
  /\ isr_total = 0 /\ start = 0 /\ seq = 0 /\ isr_on = TRUE
  /\ reset_req = FALSE
  /\ pc = "idle" /\ copied = 0 /\ before = 0
  /\ out = [w \in 1..Words |-> Empty]
  /\ last = Empty /\ idle_since = 0

-----------------------------------------------------------------------------
(* dma_isr(): atomic for the thread, so both increments of seq are one.    *)
ResetForgotten == start

WindowStart == IF reset_req THEN isr_total ELSE start

Isr ==
  /\ isr_on /\ isr_total < MaxIsrs
  /\ isr_total' = isr_total + 1
  /\ start' = WindowStart
  /\ reset_req' = FALSE
  /\ seq' = seq + 2
  /\ UNCHANGED <<isr_on, threadVars>>

(* pwm_adc_stop() from the supervisor: no interrupt comes any more.        *)
Stop ==
  /\ isr_on
  /\ isr_on' = FALSE
  /\ UNCHANGED <<isr_total, start, seq, reset_req, threadVars>>

-----------------------------------------------------------------------------
(* pwm_adc_stats_take()                                                    *)
ReadSeq ==
  /\ pc \in {"idle", "retry"}
  /\ before' = seq
  /\ copied' = 0
  /\ pc' = "copy"
  /\ UNCHANGED <<isrVars, reset_req, out, last, idle_since>>

More == copied < Words

CopyWord ==
  /\ pc = "copy" /\ More
  /\ out' = [out EXCEPT ![copied + 1] = Window]
  /\ copied' = copied + 1
  /\ UNCHANGED <<isrVars, reset_req, pc, before, last, idle_since>>

RetryOnlyOdd == before % 2 # 0

Retry == before % 2 # 0 \/ seq # before

Check ==
  /\ pc = "copy" /\ ~More
  /\ pc' = IF Retry THEN "retry" ELSE "taken"
  /\ UNCHANGED <<isrVars, reset_req, copied, before, out, last, idle_since>>

Request ==
  /\ pc = "taken"
  /\ reset_req' = TRUE
  /\ last' = out[1]
  /\ idle_since' = isr_total
  /\ pc' = "idle"
  /\ UNCHANGED <<isrVars, copied, before, out>>

Next == Isr \/ Stop \/ ReadSeq \/ CopyWord \/ Check \/ Request

Spec == Init /\ [][Next]_vars

-----------------------------------------------------------------------------
(* Type correctness of the window and its reader.                          *)
TypeOK ==
  /\ isr_total \in 0..MaxIsrs /\ start \in 0..MaxIsrs
  /\ seq \in 0..2 * MaxIsrs /\ before \in 0..2 * MaxIsrs
  /\ reset_req \in BOOLEAN /\ isr_on \in BOOLEAN
  /\ pc \in {"idle", "copy", "retry", "taken"}
  /\ copied \in 0..Words
  /\ out \in [1..Words -> Windows]
  /\ last \in Windows /\ idle_since \in 0..MaxIsrs

(* pwm_adc.h:174 - "the copy is consistent": every word the thread goes on *)
(* to print is of the same stretch of periods, however often the interrupt *)
(* came, and reset the window, during the copy.                            *)
CopyIsConsistent ==
  pc = "taken" => \A v, w \in 1..Words : out[v] = out[w]

(* pwm_adc.h:173 - a taken window shares no period with the one before it, *)
(* unless no interrupt came since then and it is the old window again.     *)
WindowsDisjoint ==
  pc = "taken" => out[1].from >= last.to \/ out[1].to = idle_since

(* main.c:129-130, "no ISR in this window" - when no interrupt came since  *)
(* the last window was taken, the next one has no period.                  *)
SilentWindowIsEmpty ==
  pc = "taken" /\ isr_total = idle_since => out[1].to = out[1].from
=============================================================================

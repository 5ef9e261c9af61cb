------------------------------ MODULE OpenLoop ------------------------------
(***************************************************************************)
(* The open-loop rotation of src/foc_ctrl.c with the code's own numbers:   *)
(* a phase in 1/65536 electrical counts, advanced once per 50 us period at *)
(* a clamped rate, and the part of the increment the division left over.   *)
(***************************************************************************)
EXTENDS Integers

VARIABLES
  ol_phase,      (* st.ol_phase                                            *)
  ol_remainder,  (* st.ol_remainder, signed                                *)
  ol_start,      (* ghost: the angle loaded at entry                       *)
  ol_sum,        (* ghost: sum of the clamped rates since entry            *)
  ol_steps       (* ghost: periods since entry, counts the model's bound   *)

olVars == <<ol_phase, ol_remainder, ol_start, ol_sum, ol_steps>>

OL_PHASE_ONE == 65536
OL_PERIODS_PER_S == 20000
OL_RATE_MAX == 4096
ENCODER_COUNTS_PER_REV == 4096
OL_TURN == 268435456  (* OL_PHASE_MASK + 1 = 4096 * 65536 *)

(* C division truncates towards zero, and its remainder has the sign of    *)
(* the dividend.                                                           *)
TruncDiv(a, b) == IF a >= 0 THEN a \div b ELSE -((-a) \div b)

Clamped(rate) ==
  IF rate > OL_RATE_MAX THEN OL_RATE_MAX
  ELSE IF rate < -OL_RATE_MAX THEN -OL_RATE_MAX ELSE rate

OlInit ==
  /\ ol_phase = 0 /\ ol_remainder = 0
  /\ ol_start = 0 /\ ol_sum = 0 /\ ol_steps = 0

AdvanceUnsignedCarry(phase, remainder, rate) ==
  LET numerator == Clamped(rate) * OL_PHASE_ONE + remainder
  IN  /\ ol_remainder' = numerator % OL_PERIODS_PER_S
      /\ ol_phase' = (phase + TruncDiv(numerator, OL_PERIODS_PER_S)) % OL_TURN

(* openloop_angle(), from a given phase and remainder.  The product, the   *)
(* carry and the increment fit int32_t (below 2^28 + 20000).               *)
Advance(phase, remainder, rate) ==
  LET numerator == Clamped(rate) * OL_PHASE_ONE + remainder
      increment == TruncDiv(numerator, OL_PERIODS_PER_S)
  IN  /\ ol_remainder' = numerator - OL_PERIODS_PER_S * increment
      /\ ol_phase' = (phase + increment) % OL_TURN

Loaded(theta) == (theta % ENCODER_COUNTS_PER_REV) * OL_PHASE_ONE

(* The period in which OPENLOOP is entered loads the commanded angle,      *)
(* clears the carry and advances like every other.                         *)
OlFirst(theta, rate) ==
  /\ Advance(Loaded(theta), 0, rate)
  /\ ol_start' = Loaded(theta)
  /\ ol_sum' = Clamped(rate)
  /\ ol_steps' = 1

OlNext(rate) ==
  /\ Advance(ol_phase, ol_remainder, rate)
  /\ ol_sum' = ol_sum + Clamped(rate)
  /\ ol_steps' = ol_steps + 1
  /\ UNCHANGED ol_start

(* docs/evidence/openloop_software.md:11 - the rate is exact over time:    *)
(* whatever rates of either sign were commanded since entry, the phase is  *)
(* the start plus their sum in 1/65536 counts per 20000 periods, short of  *)
(* it by less than one unit, the one the carry holds.                      *)
OpenLoopExact ==
  LET moved == OL_PHASE_ONE * ol_sum - ol_remainder
      units == moved \div OL_PERIODS_PER_S
  IN  /\ units * OL_PERIODS_PER_S = moved
      /\ -OL_PERIODS_PER_S < ol_remainder /\ ol_remainder < OL_PERIODS_PER_S
      /\ ol_phase = (ol_start + units) % OL_TURN
=============================================================================

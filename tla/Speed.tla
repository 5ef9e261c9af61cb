------------------------------- MODULE Speed --------------------------------
(***************************************************************************)
(* The speed estimator of src/foc_speed.c: shortest encoder differences    *)
(* are accumulated over Div periods into a bucket, Window buckets make the *)
(* published rolling sum, and every full turn of the ring publishes the    *)
(* sum the overspeed decision reads.                                       *)
(*                                                                         *)
(* A bucket is an int16_t, so what is stored in it is cut to that width;   *)
(* the accumulators are int32_t and hold what Window buckets can hold.     *)
(***************************************************************************)
EXTENDS Integers

CONSTANTS
  Turn,   (* ENCODER_COUNTS_PER_REV, 4096 in the code                      *)
  Div,    (* FOC_CTRL_SPD_DIV, 20                                          *)
  Window, (* FOC_CTRL_SPD_WINDOW, 10                                       *)
  OverspeedCounts, (* FOC_CTRL_OVERSPEED_COUNTS, 205                      *)
  BucketMax        (* INT16_MAX, 32767                                    *)

ASSUME SpeedAssumption ==
  /\ Turn \in Nat \ {0} /\ Turn % 2 = 0
  /\ Div \in Nat \ {0} /\ Window \in Nat \ {0}
  /\ OverspeedCounts \in Nat /\ BucketMax \in Nat

(* foc_ctrl_speed_reset()                                                  *)
SpeedReset(enc) ==
  [previous |-> enc, periods |-> 0, index |-> 0, delta |-> 0,
   counts |-> 0, trip_counts |-> 0, ring |-> [k \in 0..Window - 1 |-> 0]]

Unsigned(now, before) == (now - before) % Turn

Shortest(now, before) ==
  ((now - before + Turn \div 2) % Turn) - Turn \div 2

(* The cast to int16_t.                                                    *)
InBucket(n) == ((n + BucketMax + 1) % (2 * BucketMax + 2)) - (BucketMax + 1)

(* The Div-th period since the last publication.                           *)
SpeedTick(s) == s.periods + 1 = Div

(* foc_ctrl_speed_step(): the estimator after one more sample.             *)
SpeedStep(s, enc) ==
  LET delta == s.delta + Shortest(enc, s.previous)
      counts == s.counts + delta - s.ring[s.index]
      wraps == s.index + 1 = Window
  IN  IF ~SpeedTick(s)
      THEN [s EXCEPT !.previous = enc, !.delta = delta,
                     !.periods = s.periods + 1]
      ELSE [previous |-> enc, periods |-> 0, delta |-> 0, counts |-> counts,
            index |-> IF wraps THEN 0 ELSE s.index + 1,
            trip_counts |-> IF wraps THEN counts ELSE s.trip_counts,
            ring |-> [s.ring EXCEPT ![s.index] = InBucket(delta)]]

OverspeedForward(s) == s.trip_counts > OverspeedCounts

(* The threshold is strict and the same in both directions.                *)
Overspeed(s) == s.trip_counts > OverspeedCounts \/ s.trip_counts < -OverspeedCounts
=============================================================================

----------------------------- MODULE FeedForward ----------------------------
(***************************************************************************)
(* What the current loop is promised about the cogging table: the table it *)
(* may apply appears in one piece, was measured by a completed map under   *)
(* the calibration in force, and disappears the moment that calibration or *)
(* that map is superseded.  Implemented by MapExchange.                    *)
(***************************************************************************)
EXTENDS Naturals

CONSTANT NoTable

VARIABLES
  epoch,  (* the identification in force                                   *)
  seen    (* the table the loop may apply, a map of epoch seen.epoch       *)

Init == epoch = 0 /\ seen = NoTable

(* A new identification starts: the rotor angle will be measured anew.     *)
Recalibrate == epoch' = epoch + 1 /\ seen' = NoTable

(* A new map starts.                                                       *)
Withdraw == seen' = NoTable /\ UNCHANGED epoch

(* The table of a map of this epoch appears.                               *)
Publish ==
  /\ seen = NoTable
  /\ seen' \in [run : Nat, epoch : {epoch}]
  /\ UNCHANGED epoch

Next == Recalibrate \/ Withdraw \/ Publish

Spec == Init /\ [][Next]_<<epoch, seen>>
=============================================================================

------------------------------ MODULE Handoff -------------------------------
(***************************************************************************)
(* What the result buffers of the control step promise the report thread   *)
(* (foc_ctrl_capture_get(), foc_ctrl_ident_get(), foc_ctrl_map_get() and   *)
(* their releases): a result appears complete, the thread takes it, it     *)
(* does not change until the thread gives it back, and nobody but the      *)
(* thread makes it disappear, so every result offered can be reported.     *)
(***************************************************************************)
CONSTANT Nothing

VARIABLES
  item,  (* the result offered to the thread, or Nothing                   *)
  held   (* the thread is reading it                                       *)

Init == item = Nothing /\ held = FALSE

Offer == item = Nothing /\ item' # Nothing /\ UNCHANGED held

Get == item # Nothing /\ ~held /\ held' = TRUE /\ UNCHANGED item

Release == held /\ item' = Nothing /\ held' = FALSE

Next == Offer \/ Get \/ Release

Spec == Init /\ [][Next]_<<item, held>>
=============================================================================

------------------------------ MODULE MCMotion -------------------------------
(***************************************************************************)
(* The instance of Motion that TLC checks.                                 *)
(***************************************************************************)
EXTENDS Motion

(* With a turn of four counts, the whole range of the encoder's difference *)
(* is -2..1.  One rotor moves forward by a count or backwards by half a    *)
(* turn in every period, in any order; the other stands still.             *)
MCRotors == {{-2, 1}, {0}}
=============================================================================

---------------------------- MODULE MCCommandForm ----------------------------
(***************************************************************************)
(* Instances of CommandForm for TLC.                                       *)
(***************************************************************************)
EXTENDS CommandForm

TwoRows    == 1..2
TwoFlights == 1..2
=============================================================================

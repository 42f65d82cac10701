-------------------------- MODULE MCStreamConverter --------------------------
(***************************************************************************)
(* StreamConverter with up to three tool calls, for each of the habits an  *)
(* upstream may have.                                                      *)
(***************************************************************************)
EXTENDS StreamConverter

MCThreeCalls == 0..2
===============================================================================

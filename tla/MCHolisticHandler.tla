--------------------------- MODULE MCHolisticHandler ---------------------------
(* Instances of HolisticHandler for TLC.                                     *)
EXTENDS HolisticHandler

CONSTANTS c1, c2

TwoConfs == {c1, c2}
================================================================================

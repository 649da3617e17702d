---------------------------- MODULE MCSharedSecret ----------------------------
(* Instances of SharedSecret for TLC.                                        *)
EXTENDS SharedSecret

CONSTANTS u1, u2

TwoUnits     == {u1, u2}
TwoRelations == {1, 2}
================================================================================

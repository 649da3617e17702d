----------------------------- MODULE MCCredentials -----------------------------
(* Instances of Credentials for TLC.                                         *)
EXTENDS Credentials

CONSTANTS u1, u2

TwoUnits  == {u1, u2}
AllSteps  == Steps
FreshOnly == {NoKey}
FreshOrOld == {NoKey, OldKey}
================================================================================

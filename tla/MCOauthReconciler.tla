-------------------------- MODULE MCOauthReconciler --------------------------
(* Instances of OauthReconciler for TLC.                                     *)
EXTENDS OauthProperties

CONSTANTS c1, c2

TwoConfs == {c1, c2}
OneConf  == {c1}

===============================================================================

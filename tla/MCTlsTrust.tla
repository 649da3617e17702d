------------------------------ MODULE MCTlsTrust ------------------------------
(* Instances of TlsTrust for TLC.                                            *)
EXTENDS TlsTrust

CONSTANTS b1, b2

TwoBundles == {b1, b2}
OneOrNone  == {b1, NoBundle}
AnyBundle  == {b1, b2, NoBundle}
===============================================================================

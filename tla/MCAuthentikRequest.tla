-------------------------- MODULE MCAuthentikRequest --------------------------
(* Instances of AuthentikRequest for TLC.                                    *)
EXTENDS AuthentikRequest

CONSTANTS c1, c2

TwoClients == {c1, c2}
TwoPks     == {1, 2}
TwoConfs   == {"old", "new"}
OneSlot    == {1}
===============================================================================

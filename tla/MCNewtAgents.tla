---------------------------- MODULE MCNewtAgents ----------------------------
(* Instances of NewtAgents for TLC: two hosts whose old connectors share   *)
(* one identity, the second in a compose project of its own in /opt/newt.  *)
EXTENDS NewtAgents

CONSTANTS h1, h2

MCHosts == {h1, h2}
MCOld == [h \in {h1, h2} |-> <<h1, 0>>]
MCLegacy == {h2}
MCNoLegacy == {}
=============================================================================

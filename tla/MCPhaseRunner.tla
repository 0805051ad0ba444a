--------------------------- MODULE MCPhaseRunner ---------------------------
(* Instances of PhaseRunner for TLC.                                       *)
EXTENDS PhaseRunner

\* --replay as an operator uses it: one phase, a tail, and the pair that
\* adopt_newt's closing message recommends after an adoption.
MCReplaySets == {{"pangolin"}, {"restore"}, {"adopt_newt", "newt", "handoff"},
                 {"preflight", "base"}}

\* The same without preflight: with pangolin not done, preflight takes the
\* stack for a foreign one and no plain re-run gets past it any more.
MCReplayLater == {{"pangolin"}, {"restore"}, {"adopt_newt", "newt", "handoff"}}

MCOnlySets == {{"base"}, {"restore"}, {"adopt_newt", "newt"}}

MCNone == {}
MCAllPhases == Phases
=============================================================================

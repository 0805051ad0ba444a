------------------------------ MODULE Resumable ------------------------------
(***************************************************************************)
(* What `charm provision` promises to an operator who runs it again and    *)
(* again (README "How it works", the docstring of phases/base.py): a list  *)
(* of Last jobs is worked off in order, a run is only ever past jobs that  *)
(* are settled, and a run that stops, however it stops, loses at most the  *)
(* job it stopped at.  PhaseRunner is shown to implement this.             *)
(***************************************************************************)
EXTENDS Naturals

CONSTANT Last       \* the number of jobs

VARIABLES
  settled,          \* the jobs with which nothing is left to do
  frontier          \* the job a full run has reached, 0 when there is none

vars == <<settled, frontier>>

Init == settled \subseteq 1..Last /\ frontier = 0

(* Between full runs the jobs are the operator's: configs are edited, jobs *)
(* are marked or run by name.                                              *)
Between == frontier = 0 /\ frontier' = 0 /\ settled' \subseteq 1..Last

Begin == frontier = 0 /\ frontier' = 1 /\ settled' \subseteq 1..Last

Behind == {j \in 1..Last : j < frontier}

(* Working on a job may unsettle those that follow, never one behind it. *)
Work ==
  /\ frontier # 0 /\ frontier' = frontier
  /\ settled' \subseteq 1..Last /\ Behind \subseteq settled'

(* The next job comes when this one, and all before it, are settled. *)
Pass ==
  /\ frontier \in 1..Last /\ frontier' = frontier + 1
  /\ settled' \subseteq 1..Last /\ Behind \cup {frontier} \subseteq settled'

(* The end, a failure, a refusal or the death of the process. *)
Stop ==
  /\ frontier # 0 /\ frontier' = 0
  /\ settled' \subseteq 1..Last /\ settled \ {frontier} \subseteq settled'

Next == Between \/ Begin \/ Work \/ Pass \/ Stop

Spec == Init /\ [][Next]_vars
=============================================================================

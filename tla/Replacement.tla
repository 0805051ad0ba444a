----------------------------- MODULE Replacement -----------------------------
(***************************************************************************)
(* What the `restore` phase promises to the users of a site and to its     *)
(* operator (the docstrings of phases/restore_phase.py, README "restore"): *)
(* the data behind the site is replaced only as the operator wants it and  *)
(* only while nobody is served; what is served next is the whole of what   *)
(* was wanted; it is recorded when it is served, and the phase is done     *)
(* when it is recorded.  Restore is shown to implement this.               *)
(***************************************************************************)
CONSTANTS
  Sources,     \* where data may come from
  Nothing      \* no source: nothing is to be restored

VARIABLES
  wanted,      \* the source the operator names, or Nothing
  allowed,     \* the operator lets what is there be replaced
  source,      \* where the data that is there comes from ...
  whole,       \* ... whether it is all of it ...
  patch,       \* ... and what has been changed in it since
  serving,     \* something runs on it
  recorded,    \* the source that is on record, or Nothing
  done         \* the operator has been told that it is done

data == <<source, whole, patch>>
vars == <<wanted, allowed, data, serving, recorded, done>>

Init ==
  /\ wanted \in Sources \cup {Nothing} /\ allowed \in BOOLEAN
  /\ source \in Sources /\ whole = TRUE
  /\ serving = TRUE /\ recorded = Nothing /\ done = FALSE

Served == serving /\ whole /\ source = wanted

(* The operator changes his mind, or wants it all again. *)
Decide ==
  /\ wanted' \in Sources \cup {Nothing} /\ allowed' \in BOOLEAN
  /\ done' \in {done, FALSE}
  /\ UNCHANGED <<data, serving, recorded>>

Withdraw ==
  /\ ~done /\ allowed /\ wanted # Nothing
  /\ serving' = FALSE
  /\ UNCHANGED <<wanted, allowed, data, recorded, done>>

(* A load that may stop half-way, or a change of what was loaded, whatever *)
(* it is: the patch is not constrained.                                    *)
Replace ==
  /\ ~serving /\ ~done /\ allowed /\ wanted # Nothing
  /\ source' \in {source, wanted} /\ whole' \in BOOLEAN
  /\ UNCHANGED <<wanted, allowed, serving, recorded, done>>

Serve ==
  /\ ~done /\ whole /\ source = wanted
  /\ serving' = TRUE
  /\ UNCHANGED <<wanted, allowed, data, recorded, done>>

Record ==
  /\ ~done /\ Served
  /\ recorded' = wanted
  /\ UNCHANGED <<wanted, allowed, data, serving, done>>

Finish ==
  /\ wanted = Nothing \/ (Served /\ recorded = wanted)
  /\ done' = TRUE
  /\ UNCHANGED <<wanted, allowed, data, serving, recorded>>

Next == Decide \/ Withdraw \/ Replace \/ Serve \/ Record \/ Finish

Spec == Init /\ [][Next]_vars
=============================================================================

-------------------------- MODULE PhaseRunnerProofs --------------------------
(* Proofs about PhaseRunner, for any hosts, any --only and --replay sets,  *)
(* any set of fallible phases and any number of upsets.                    *)
EXTENDS PhaseRunner, TLAPS

(* The seven phases of the pipeline are phases, each listed once. *)
LEMMA PipelinePhases == \A i \in 1..7 : PIPELINE[i] \in Phases
  BY DEF PIPELINE, Phases

LEMMA PipelineInjective ==
  \A i, j \in 1..7 : PIPELINE[i] = PIPELINE[j] => i = j
  BY DEF PIPELINE

(* No step can leave the type invariant: the loop stays within the         *)
(* pipeline, the statuses within the words status knows.                   *)
LEMMA TypeStep == TypeOK /\ [Next]_vars => TypeOK'
<1> SUFFICES ASSUME TypeOK, [Next]_vars PROVE TypeOK'
  OBVIOUS
<1> USE RunnerAssumption DEF TypeOK, Statuses, Steps, End
<1>u. Upset => upsets' \in 0..MaxUpsets
  BY DEF Upset
<1>p. pos < End => Current \in Phases
  BY PipelinePhases DEF Current
<1>c. StackWhenCut \subseteq {"absent", "up", "stopped"}
  BY DEF StackWhenCut
<1>e. ASSUME EndCommand
      PROVE  /\ at' = "idle" /\ pos' \in 1..End
             /\ selected' \subseteq Phases /\ toMark' \subseteq Phases
             /\ replaying' \in BOOLEAN /\ restoreRan' \in BOOLEAN
  <2>1. at' = "idle" /\ pos' = 1
    BY <1>e DEF EndCommand
  <2>2. selected' = {} /\ toMark' = {}
    BY <1>e DEF EndCommand
  <2>3. selected' \subseteq Phases /\ toMark' \subseteq Phases
    BY <2>2
  <2>4. replaying' = FALSE /\ restoreRan' = FALSE
    BY <1>e DEF EndCommand
  <2>5. replaying' \in BOOLEAN /\ restoreRan' \in BOOLEAN
    BY <2>4
  <2>6. pos' \in 1..End
    BY <2>1
  <2> QED
    BY <2>1, <2>3, <2>5, <2>6
<1>i. ASSUME NEW only \in SUBSET Phases, NEW replay \in SUBSET Phases,
             Invoke(only, replay), upsets' \in 0..MaxUpsets
      PROVE  TypeOK'
  <2>1. UNCHANGED <<stateFile, config, site>>
    BY <1>i DEF Invoke
  <2>2. at' \in {"next", "mark"} /\ pos' = 1 /\ toMark' = replay /\ restoreRan' = FALSE
    BY <1>i DEF Invoke
  <2>3. selected' \in SUBSET Phases
    BY <1>i DEF Invoke
  <2>4. replaying' \in BOOLEAN
    BY <1>i DEF Invoke
  <2>5. toMark' \in SUBSET Phases
    BY <2>2
  <2>6. pos' \in 1..End /\ at' \in {"idle", "mark", "next"}
    BY <2>2
  <2>7. restoreRan' \in BOOLEAN
    BY <2>2
  <2> QED
    BY <1>i, <2>1, <2>3, <2>4, <2>5, <2>6, <2>7 DEF stateFile, config, site
<1>1. CASE Provision
  BY <1>i, <1>1 DEF Provision
<1>2. CASE ProvisionOnly
  <2>1. PICK only \in OnlySets : Invoke(only, {})
    BY <1>2 DEF ProvisionOnly
  <2>2. only \in SUBSET Phases /\ {} \in SUBSET Phases
    OBVIOUS
  <2> QED
    BY <1>i, <1>u, <1>2, <2>1, <2>2 DEF ProvisionOnly
<1>3. CASE ProvisionReplay
  <2>1. PICK replay \in ReplaySets : Invoke({}, replay)
    BY <1>3 DEF ProvisionReplay
  <2>2. replay \in SUBSET Phases /\ {} \in SUBSET Phases
    OBVIOUS
  <2> QED
    BY <1>i, <1>u, <1>3, <2>1, <2>2 DEF ProvisionReplay
<1>4. CASE EditConfig
  BY <1>u, <1>4 DEF EditConfig, stateFile, command, site
<1>5. CASE MarkReplayed
  BY <1>5 DEF MarkReplayed, MarkPhase, config, site
<1>6. CASE SkipPhase
  BY <1>6 DEF SkipPhase, NextPhase, stateFile, config, site
<1>7. CASE PlanPhase
  BY <1>7 DEF PlanPhase, GoTo, stateFile, config, site
<1>8. CASE ConfirmPhase
  BY <1>p, <1>8 DEF ConfirmPhase, GoTo, stateFile, config
<1>9. CASE DeclinePhase
  BY <1>e, <1>u, <1>9 DEF DeclinePhase, MarkPhase, NextPhase, config, site, Fault
<1>10. CASE Finish
  BY <1>e, <1>10 DEF Finish, stateFile, config, site
<1>11. CASE ApplyPlain
  BY <1>11 DEF ApplyPlain, GoTo, stateFile, config, site
<1>12. CASE ApplyPangolin
  BY <1>12 DEF ApplyPangolin, GoTo, stateFile, config
<1>13. CASE LoadDump
  BY <1>13 DEF LoadDump, GoTo, stateFile, config
<1>14. CASE RecordRestore
  BY <1>14 DEF RecordRestore, config
<1>15. CASE ResetAdoption
  BY <1>15 DEF ResetAdoption, MarkPhase, GoTo, config, site
<1>16. CASE RedialAgents
  BY <1>16 DEF RedialAgents, GoTo, stateFile, config, site
<1>17. CASE AdoptHost
  BY <1>17 DEF AdoptHost, stateFile, command, site
<1>18. CASE ApplyAdopt
  BY <1>18 DEF ApplyAdopt, GoTo, stateFile, config
<1>19. CASE ApplyNewt
  BY <1>19 DEF ApplyNewt, GoTo, stateFile, config, site
<1>21. CASE ApplyRaises
  <2>1. UNCHANGED <<restoreAt, config, sound>> /\ EndCommand
    BY <1>21 DEF ApplyRaises
  <2>2. stack' \in {"absent", "up", "stopped"}
    BY <1>c, <1>21 DEF ApplyRaises, CutShort
  <2>3. status' \in [Phases -> Statuses]
    BY <1>21 DEF ApplyRaises, MarkPhase
  <2>4. upsets' \in 0..MaxUpsets
    BY <1>u, <1>21 DEF ApplyRaises, Fault
  <2>5. offered' \in {"no", "yes", "lost"}
    BY <1>21 DEF ApplyRaises, CutShort
  <2> QED
    BY <1>e, <2>1, <2>2, <2>3, <2>4, <2>5 DEF config
<1>22. CASE VerifyPasses
  BY <1>p, <1>22 DEF VerifyPasses, MarkPhase, NextPhase, config
<1>23. CASE VerifyFails
  BY <1>e, <1>u, <1>23 DEF VerifyFails, MarkPhase, config, site, Fault
<1>24. CASE Die
  <2>1. UNCHANGED <<restoreAt, config, sound>> /\ EndCommand
    BY <1>24 DEF Die, stateFile
  <2>2. stack' \in {"absent", "up", "stopped"}
    BY <1>c, <1>24 DEF Die, CutShort
  <2>3. status' \in [Phases -> Statuses]
    BY <1>24 DEF Die, stateFile
  <2>4. upsets' \in 0..MaxUpsets
    BY <1>u, <1>24 DEF Die, Fault
  <2>5. offered' \in {"no", "yes", "lost"}
    BY <1>24 DEF Die, CutShort
  <2> QED
    BY <1>e, <2>1, <2>2, <2>3, <2>4, <2>5 DEF config
<1>25. CASE UNCHANGED vars
  BY <1>25 DEF vars, stateFile, config, command, site
<1> QED
  BY <1>1, <1>2, <1>3, <1>4, <1>5, <1>6, <1>7, <1>8, <1>9, <1>10, <1>11, <1>12, <1>13, <1>14, <1>15, <1>16, <1>17, <1>18, <1>19, <1>21, <1>22, <1>23, <1>24, <1>25 DEF Next, Apply

LEMMA InitTypeOK == Init => TypeOK
<1> SUFFICES ASSUME Init PROVE TypeOK
  OBVIOUS
<1>1. selected \subseteq Phases /\ toMark \subseteq Phases /\ sound \subseteq Phases
  BY DEF Init
<1>3. status \in [Phases -> Statuses] /\ upsets \in 0..MaxUpsets
  BY RunnerAssumption DEF Init, Statuses
<1>4. at \in Steps /\ at = "idle" /\ pos \in 1..End /\ agents \subseteq Hosts
  BY DEF Init, Steps, End
<1>5. /\ restoreAt \in BOOLEAN /\ dump \in BOOLEAN /\ replaying \in BOOLEAN
      /\ restoreRan \in BOOLEAN /\ offered \in {"no", "yes", "lost"}
      /\ stack \in {"absent", "up", "stopped"}
  BY DEF Init
<1> QED
  BY <1>1, <1>3, <1>4, <1>5 DEF TypeOK

(* The type invariant holds in every reachable state.                      *)
THEOREM TypeCorrect == Spec => []TypeOK
  BY InitTypeOK, TypeStep, PTL DEF Spec

-----------------------------------------------------------------------------
(* The frontier: what the loop of a full run is past is settled.  The      *)
(* inductive invariant adds where the marking of --replay and the steps of *)
(* a restore take place.                                                   *)
Placed ==
  /\ at = "mark" => pos = 1
  /\ at \in {"loaded", "recorded", "redial"} => pos = 4

LEMMA PlacedStep == TypeOK /\ Placed /\ [Next]_vars => Placed'
<1> SUFFICES ASSUME TypeOK, Placed, [Next]_vars PROVE Placed'
  OBVIOUS
<1> USE DEF Placed
<1>1. pos \in 1..8 /\ (at \notin {"idle", "mark", "next"} => pos < 8)
  BY DEF TypeOK, End
<1>2. pos < 8 /\ Current = "restore" => pos = 4
  BY <1>1 DEF Current, PIPELINE
<1>3. ASSUME NEW only, NEW replay, Invoke(only, replay) PROVE Placed'
  BY <1>3 DEF Invoke
<1>4. CASE EndCommand
  BY <1>4 DEF EndCommand
<1>5. CASE NextPhase
  BY <1>5 DEF NextPhase
<1>6. CASE EditConfig \/ AdoptHost \/ UNCHANGED vars
  BY <1>6 DEF EditConfig, AdoptHost, vars, command
<1>7. CASE MarkReplayed
  BY <1>7 DEF MarkReplayed
<1>8. ASSUME NEW step \in {"confirm", "apply", "verify"}, GoTo(step) PROVE Placed'
  BY <1>8 DEF GoTo
<1>9. CASE LoadDump
  BY <1>1, <1>2, <1>9 DEF LoadDump, GoTo
<1>10. CASE RecordRestore \/ ResetAdoption
  BY <1>10 DEF RecordRestore, ResetAdoption, GoTo
<1>11. CASE Provision \/ ProvisionOnly \/ ProvisionReplay
  BY <1>3, <1>11 DEF Provision, ProvisionOnly, ProvisionReplay
<1>12. CASE SkipPhase \/ VerifyPasses
  BY <1>5, <1>12 DEF SkipPhase, VerifyPasses
<1>13. CASE DeclinePhase
  BY <1>4, <1>5, <1>13 DEF DeclinePhase
<1>14. CASE Finish \/ ApplyRaises \/ VerifyFails \/ Die
  BY <1>4, <1>14 DEF Finish, ApplyRaises, VerifyFails, Die
<1>15. CASE \/ PlanPhase \/ ConfirmPhase \/ ApplyPlain \/ ApplyPangolin \/ RedialAgents
           \/ ApplyAdopt \/ ApplyNewt
  BY <1>8, <1>15 DEF PlanPhase, ConfirmPhase, ApplyPlain, ApplyPangolin, RedialAgents,
                     ApplyAdopt, ApplyNewt
<1> QED
  BY <1>6, <1>7, <1>9, <1>10, <1>11, <1>12, <1>13, <1>14, <1>15 DEF Next, Apply

FrontierInv == TypeOK /\ Placed /\ FrontierSettled

(* A phase that is settled stays so as long as its own status is left      *)
(* alone and it does not become enabled.                                   *)
LEMMA SettledStays ==
  ASSUME NEW p, Settled(p), status'[p] = status[p], Enabled(p)' => Enabled(p)
  PROVE  Settled(p)'
  BY DEF Settled

(* Marking the current phase leaves the earlier ones alone.                *)
LEMMA MarkCurrent ==
  ASSUME TypeOK, pos < End, NEW s, MarkPhase(Current, s), NEW j \in 1..(pos - 1)
  PROVE  status'[PIPELINE[j]] = status[PIPELINE[j]]
<1>1. pos \in 1..7 /\ j \in 1..7 /\ j # pos
  BY DEF TypeOK, End
<1>2. PIPELINE[j] # PIPELINE[pos] /\ PIPELINE[j] \in Phases
  BY <1>1, PipelineInjective, PipelinePhases
<1> QED
  BY <1>2 DEF MarkPhase, Current, TypeOK

LEMMA FrontierStep == FrontierInv /\ [Next]_vars => FrontierSettled'
<1> SUFFICES ASSUME FrontierInv, [Next]_vars PROVE FrontierSettled'
  OBVIOUS
<1>0. TypeOK /\ TypeOK' /\ Placed
  BY TypeStep DEF FrontierInv
<1>1. PICK n \in 1..8 : n = pos'
  BY <1>0 DEF TypeOK, End
<1> SUFFICES ASSUME Working', FullRun', NEW j \in 1..(n - 1)
             PROVE  Settled(PIPELINE[j])'
  BY <1>1 DEF FrontierSettled
<1> DEFINE p == PIPELINE[j]
<1>2. pos \in 1..8 /\ (at \notin {"idle", "mark", "next"} => pos < 8)
  BY <1>0 DEF TypeOK, End
<1>2a. j \in 1..7 /\ p \in Phases
  BY PipelinePhases
\* The phases the loop was past already: settled, and nothing disturbs them.
<1>3. ASSUME Working, FullRun, j < pos, status'[p] = status[p], Enabled(p)' => Enabled(p)
      PROVE  Settled(p)'
  <2>1. Settled(p)
    BY <1>2, <1>3 DEF FrontierInv, FrontierSettled
  <2> QED
    BY <1>3, <2>1, SettledStays
<1>4. ASSUME UNCHANGED <<restoreAt, restoreRan, agents>> PROVE Enabled(p)' => Enabled(p)
  <2>1. restoreAt' = restoreAt /\ restoreRan' = restoreRan /\ agents' = agents
    BY <1>4
  <2>2. CASE p = "adopt_newt"
    BY <2>1, <2>2 DEF Enabled
  <2>3. CASE p = "newt"
    BY <2>1, <2>3 DEF Enabled
  <2>4. CASE p \notin {"adopt_newt", "newt"}
    BY <2>4 DEF Enabled
  <2> QED
    BY <2>2, <2>3, <2>4
<1>5. ASSUME at' = "idle" \/ at' = "mark" \/ pos' = 1 PROVE FALSE
  <2>1. CASE at' = "idle" \/ at' = "mark"
    BY <2>1 DEF Working
  <2>2. CASE pos' = 1
    <3>1. n = 1
      BY <1>1, <2>2
    <3> QED
      BY <3>1
  <2> QED
    BY <1>5, <2>1, <2>2
<1>6. CASE Provision \/ ProvisionOnly \/ ProvisionReplay
  BY <1>5, <1>6 DEF Provision, ProvisionOnly, ProvisionReplay, Invoke
<1>7. CASE EditConfig
  BY <1>5, <1>7 DEF EditConfig, command
<1>8. CASE MarkReplayed
  BY <1>0, <1>1, <1>5, <1>8 DEF MarkReplayed, Placed
<1>9. CASE Finish \/ ApplyRaises \/ VerifyFails \/ Die
  BY <1>5, <1>9 DEF Finish, ApplyRaises, VerifyFails, Die, EndCommand
\* The steps that leave the loop where it is.
<1>10. CASE \/ PlanPhase \/ ConfirmPhase \/ ApplyPlain \/ ApplyPangolin \/ LoadDump \/ RedialAgents
            \/ ApplyAdopt \/ ApplyNewt
  <2>1. /\ Working /\ pos' = pos /\ selected' = selected /\ status' = status
        /\ UNCHANGED <<restoreAt, restoreRan, agents>>
    BY <1>10 DEF PlanPhase, ConfirmPhase, ApplyPlain, ApplyPangolin, LoadDump, RedialAgents,
                 ApplyAdopt, ApplyNewt, GoTo, Working, stateFile, config
  <2> QED
    BY <1>1, <1>2, <1>3, <1>4, <2>1 DEF FullRun
<1>11. CASE RecordRestore
  <2>1. /\ Working /\ pos' = pos /\ pos = 4 /\ selected' = selected /\ status' = status
        /\ agents' = agents
    BY <1>0, <1>11 DEF RecordRestore, Working, Placed, config
  <2>2. p # "adopt_newt"
    BY <1>1, <1>2, <2>1 DEF PIPELINE
  <2>3. Enabled(p)' => Enabled(p)
    BY <2>1, <2>2 DEF Enabled
  <2> QED
    BY <1>1, <1>2, <1>3, <2>1, <2>3 DEF FullRun
<1>12. CASE ResetAdoption
  <2>1. /\ Working /\ pos' = pos /\ pos = 4 /\ selected' = selected
        /\ MarkPhase("adopt_newt", "pending")
        /\ UNCHANGED <<restoreAt, restoreRan, agents>>
    BY <1>0, <1>12 DEF ResetAdoption, GoTo, Working, Placed, config
  <2>2. p # "adopt_newt"
    BY <1>1, <1>2, <2>1 DEF PIPELINE
  <2>3. status'[p] = status[p]
    BY <1>0, <1>2a, <2>1, <2>2 DEF MarkPhase, TypeOK
  <2> QED
    BY <1>1, <1>2, <1>3, <1>4, <2>1, <2>3 DEF FullRun
<1>13. CASE AdoptHost
  <2>1. /\ Working /\ pos' = pos /\ Current = "adopt_newt" /\ selected' = selected
        /\ status' = status /\ UNCHANGED <<restoreAt, restoreRan>> /\ pos < 8
    BY <1>2, <1>13 DEF AdoptHost, Working, command, stateFile
  <2>2. pos = 5
    BY <1>2, <2>1 DEF Current, PIPELINE
  <2>3. p # "newt"
    BY <1>1, <1>2, <2>1, <2>2 DEF PIPELINE
  <2>4. Enabled(p)' => Enabled(p)
    BY <2>1, <2>3 DEF Enabled
  <2> QED
    BY <1>1, <1>2, <1>3, <2>1, <2>4 DEF FullRun
\* The steps that take the loop past the current phase.
<1>14. ASSUME Working, FullRun, pos' = pos + 1, UNCHANGED <<restoreAt, restoreRan, agents>>,
              j < pos => status'[p] = status[p],
              NEW q, q = Current, Settled(q)'
       PROVE  Settled(p)'
  <2>1. CASE j < pos
    BY <1>3, <1>4, <1>14, <2>1
  <2>2. CASE j = pos
    BY <1>14, <2>2 DEF Current
  <2> QED
    BY <1>1, <1>2, <1>14, <2>1, <2>2
<1>15. CASE SkipPhase
  <2>1. /\ Working /\ pos' = pos + 1 /\ selected' = selected /\ status' = status
        /\ UNCHANGED <<restoreAt, restoreRan, agents>> /\ PassedOver(Current) /\ pos < 8
    BY <1>15 DEF SkipPhase, NextPhase, Working, stateFile, config, End
  <2>2. Current \in Phases /\ FullRun
    BY <1>2, <2>1, PipelinePhases DEF Current, FullRun
  <2>3. PICK q : q = Current
    OBVIOUS
  <2>4. Settled(q)
    BY <2>1, <2>2, <2>3 DEF PassedOver, Settled, FullRun
  <2>5. Enabled(q)' => Enabled(q)
    BY <2>1, <2>2, <2>3 DEF Enabled
  <2>6. Settled(q)'
    BY <2>1, <2>4, <2>5, SettledStays
  <2> QED
    BY <1>14, <2>1, <2>2, <2>3, <2>6
\* The steps that mark the current phase and go past it.
<1>16. ASSUME Working, at' = "next", NextPhase, pos < 8, UNCHANGED <<restoreAt, agents>>,
              NEW s, MarkPhase(Current, s), s = "done" \/ (s = "skipped" /\ Current \in Optional)
       PROVE  Settled(p)'
  <2>1. pos' = pos + 1 /\ selected' = selected /\ restoreRan' = restoreRan
    BY <1>16 DEF NextPhase
  <2>2. Current \in Phases /\ FullRun
    BY <1>2, <1>16, <2>1, PipelinePhases DEF Current, FullRun
  <2>3. PICK q : q = Current
    OBVIOUS
  <2>4. status'[q] = s
    BY <1>0, <1>16, <2>2, <2>3 DEF MarkPhase, TypeOK
  <2>5. Settled(q)'
    BY <1>16, <2>3, <2>4 DEF Settled
  <2>6. j < pos => status'[p] = status[p]
    BY <1>0, <1>1, <1>2, <1>16, MarkCurrent DEF End
  <2> QED
    BY <1>14, <1>16, <2>1, <2>2, <2>3, <2>5, <2>6
<1>17. CASE VerifyPasses
  BY <1>2, <1>16, <1>17 DEF VerifyPasses, NextPhase, Working, config
<1>18. CASE DeclinePhase
  <2>1. CASE EndCommand
    BY <1>5, <2>1 DEF EndCommand
  <2>2. CASE Current \in Optional /\ MarkPhase(Current, "skipped") /\ NextPhase
    BY <1>2, <1>16, <1>18, <2>2 DEF DeclinePhase, NextPhase, Working, config
  <2> QED
    BY <1>18, <2>1, <2>2 DEF DeclinePhase
<1>19. CASE UNCHANGED vars
  <2>1. /\ UNCHANGED <<pos, at, selected, status, restoreAt, restoreRan, agents>>
    BY <1>19 DEF vars, command, config, stateFile
  <2> QED
    BY <1>1, <1>2, <1>3, <1>4, <2>1 DEF Working, FullRun
<1> QED
  BY <1>6, <1>7, <1>8, <1>9, <1>10, <1>11, <1>12, <1>13, <1>15, <1>17, <1>18, <1>19
     DEF Next, Apply

LEMMA FrontierInvariant == Spec => []FrontierInv
<1>1. Init => FrontierInv
  BY InitTypeOK DEF Init, FrontierInv, Placed, FrontierSettled, Working
<1>2. FrontierInv /\ [Next]_vars => FrontierInv'
  BY TypeStep, PlacedStep, FrontierStep DEF FrontierInv
<1> QED
  BY <1>1, <1>2, PTL DEF Spec

(* A full run is never past a phase that is not settled.                   *)
THEOREM FrontierIsSettled == Spec => []FrontierSettled
  BY FrontierInvariant, PTL DEF FrontierInv

-----------------------------------------------------------------------------
(* The foundation: without --only the loop never replays, so a phase it is *)
(* working on is not "done" in the state file, and what is "done" there    *)
(* was applied to the end and verified.                                    *)
NotYetDone ==
  /\ replaying = FALSE
  /\ at \notin {"idle", "mark", "next"} => status[Current] # "done"

FoundationInv == FrontierInv /\ NotYetDone /\ DoneIsSound

LEMMA NotYetDoneStep ==
  ASSUME OnlySets = {}, TypeOK, Placed, NotYetDone, [Next]_vars
  PROVE  NotYetDone'
<1> USE DEF NotYetDone
<1>1. CASE Provision \/ ProvisionReplay
  <2>1. PICK replay : Invoke({}, replay)
    BY <1>1 DEF Provision, ProvisionReplay
  <2>2. replaying' = FALSE /\ at' \in {"next", "mark"}
    BY <2>1 DEF Invoke
  <2> QED
    BY <2>2
<1>2. CASE ProvisionOnly
  BY <1>2 DEF ProvisionOnly
<1>3. CASE EndCommand
  <2>1. replaying' = FALSE /\ at' = "idle"
    BY <1>3 DEF EndCommand
  <2> QED
    BY <2>1
<1>4. CASE NextPhase \/ EditConfig \/ MarkReplayed
  <2>1. replaying' = FALSE /\ at' \in {"idle", "next", "mark"}
    BY <1>4 DEF NextPhase, EditConfig, MarkReplayed, command
  <2> QED
    BY <2>1
<1>5. CASE PlanPhase
  <2>1. replaying' = FALSE /\ pos' = pos /\ status' = status /\ status[Current] # "done"
    BY <1>5 DEF PlanPhase, PassedOver, GoTo, stateFile
  <2> QED
    BY <2>1 DEF Current
\* The steps between the plan of a phase and its verdict.
<1>6. ASSUME at \notin {"idle", "mark", "next"}, pos' = pos, replaying' = replaying,
             status'[Current] # "done"
      PROVE  NotYetDone'
  BY <1>6 DEF Current
<1>7. CASE \/ ConfirmPhase \/ ApplyPlain \/ ApplyPangolin \/ LoadDump \/ RecordRestore \/ RedialAgents
           \/ AdoptHost \/ ApplyAdopt \/ ApplyNewt
  <2>1. /\ at \notin {"idle", "mark", "next"} /\ pos' = pos /\ replaying' = replaying
        /\ status' = status
    BY <1>7 DEF ConfirmPhase, ApplyPlain, ApplyPangolin, LoadDump, RecordRestore, RedialAgents,
                AdoptHost, ApplyAdopt, ApplyNewt, GoTo, stateFile, command
  <2> QED
    BY <1>6, <2>1
<1>8. CASE ResetAdoption
  <2>1. at = "recorded" /\ pos' = pos /\ replaying' = replaying /\ MarkPhase("adopt_newt", "pending")
    BY <1>8 DEF ResetAdoption, GoTo
  <2>2. Current = "restore"
    BY <2>1 DEF Placed, Current, PIPELINE
  <2>3. status'[Current] = status[Current]
    BY <2>1, <2>2 DEF MarkPhase, TypeOK, Phases
  <2> QED
    BY <1>6, <2>1, <2>3
<1>9. CASE UNCHANGED vars
  <2>1. at' = at /\ pos' = pos /\ replaying' = replaying /\ status' = status
    BY <1>9 DEF vars, command, stateFile
  <2> QED
    BY <2>1 DEF Current
<1>10. CASE SkipPhase \/ VerifyPasses \/ DeclinePhase
  BY <1>3, <1>4, <1>10 DEF SkipPhase, VerifyPasses, DeclinePhase
<1>11. CASE Finish \/ ApplyRaises \/ VerifyFails \/ Die
  BY <1>3, <1>11 DEF Finish, ApplyRaises, VerifyFails, Die
<1> QED
  BY <1>1, <1>2, <1>4, <1>5, <1>7, <1>8, <1>9, <1>10, <1>11 DEF Next, Apply

LEMMA DoneIsSoundStep ==
  ASSUME TypeOK, NotYetDone, DoneIsSound, [Next]_vars
  PROVE  DoneIsSound'
<1> SUFFICES ASSUME NEW p \in Phases, status'[p] = "done" PROVE p \in sound'
  BY DEF DoneIsSound
\* A step that marks nothing done and takes nothing back.
<1>1. ASSUME status'[p] = status[p] \/ status'[p] # "done", sound \subseteq sound'
      PROVE  p \in sound'
  BY <1>1 DEF DoneIsSound
<1>2. ASSUME NEW q, NEW s, MarkPhase(q, s), s # "done" PROVE status'[p] = status[p] \/ status'[p] # "done"
  BY <1>2 DEF MarkPhase, TypeOK
<1>3. CASE \/ Provision \/ ProvisionOnly \/ ProvisionReplay \/ EditConfig \/ SkipPhase \/ PlanPhase
           \/ Finish \/ ApplyPlain \/ ApplyPangolin \/ LoadDump \/ RecordRestore \/ RedialAgents
           \/ AdoptHost \/ ApplyAdopt \/ ApplyNewt \/ Die \/ UNCHANGED vars
  <2>1. status' = status /\ sound' = sound
    BY <1>3 DEF Provision, ProvisionOnly, ProvisionReplay, Invoke, EditConfig, SkipPhase, PlanPhase,
                Finish, ApplyPlain, ApplyPangolin, LoadDump, RecordRestore, RedialAgents, AdoptHost,
                ApplyAdopt, ApplyNewt, Die, vars, stateFile, site
  <2> QED
    BY <1>1, <2>1
<1>4. CASE MarkReplayed \/ ResetAdoption
  <2>1. sound' = sound /\ \E q : MarkPhase(q, "pending")
    BY <1>4 DEF MarkReplayed, ResetAdoption, site
  <2> QED
    BY <1>1, <1>2, <2>1
<1>5. CASE DeclinePhase \/ ApplyRaises \/ VerifyFails
  <2>1. sound' = sound /\ \E s \in {"skipped", "declined", "failed"} : MarkPhase(Current, s)
    BY <1>5 DEF DeclinePhase, ApplyRaises, VerifyFails, site
  <2> QED
    BY <1>1, <1>2, <2>1
<1>6. CASE ConfirmPhase
  <2>1. status' = status /\ sound' = sound \ {Current} /\ status[Current] # "done"
    BY <1>6 DEF ConfirmPhase, NotYetDone, stateFile
  <2> QED
    BY <2>1 DEF DoneIsSound
<1>7. CASE VerifyPasses
  <2>1. MarkPhase(Current, "done") /\ sound' = sound \cup {Current}
    BY <1>7 DEF VerifyPasses
  <2>2. p # Current => status'[p] = status[p]
    BY <2>1 DEF MarkPhase, TypeOK
  <2> QED
    BY <2>1, <2>2 DEF DoneIsSound
<1> QED
  BY <1>3, <1>4, <1>5, <1>6, <1>7 DEF Next, Apply

LEMMA FoundationInvariant == ASSUME OnlySets = {} PROVE Spec => []FoundationInv
<1>1. Init => FoundationInv
  <2> SUFFICES ASSUME Init PROVE FoundationInv
    OBVIOUS
  <2>1. FrontierInv
    BY InitTypeOK DEF Init, FrontierInv, Placed, FrontierSettled, Working
  <2>2. NotYetDone
    BY DEF Init, NotYetDone
  <2>3. DoneIsSound
    BY DEF Init, DoneIsSound
  <2> QED
    BY <2>1, <2>2, <2>3 DEF FoundationInv
<1>2. FoundationInv /\ [Next]_vars => FoundationInv'
  BY TypeStep, PlacedStep, FrontierStep, NotYetDoneStep, DoneIsSoundStep
     DEF FoundationInv, FrontierInv
<1> QED
  BY <1>1, <1>2, PTL DEF Spec

(* Without --only, "done" in the state file means applied and verified.    *)
THEOREM LedgerIsHonest == ASSUME OnlySets = {} PROVE Spec => []DoneIsSound
  BY FoundationInvariant, PTL DEF FoundationInv

(* Without --only, a full run never builds on a phase that was not applied *)
(* to the end and verified, whatever failed, was declined, was interrupted *)
(* or was replayed before.                                                 *)
THEOREM Foundation == ASSUME OnlySets = {} PROVE Spec => []SoundFoundation
<1>1. FoundationInv => SoundFoundation
  <2> SUFFICES ASSUME FoundationInv, Working, FullRun, NEW j \in 1..(pos - 1)
               PROVE  \/ PIPELINE[j] \in sound
                      \/ PIPELINE[j] \in Optional /\ status[PIPELINE[j]] = "skipped"
                      \/ ~Enabled(PIPELINE[j])
    BY DEF SoundFoundation
  <2>1. PIPELINE[j] \in Phases
    BY PipelinePhases DEF FoundationInv, FrontierInv, TypeOK, End
  <2>2. Settled(PIPELINE[j])
    BY DEF FoundationInv, FrontierInv, FrontierSettled
  <2> QED
    BY <2>1, <2>2 DEF Settled, FoundationInv, DoneIsSound
<1> QED
  BY <1>1, FoundationInvariant, PTL

-----------------------------------------------------------------------------
(* The refinement of Resumable.  A step either belongs to no full run, or  *)
(* begins one, or leaves the loop at its phase or takes it one further, or *)
(* ends the command and touches no status but that of the current phase.   *)
Begins == ~Working /\ pos' = 1
Idles  == ~Working /\ ~Working'
Works  == Working /\ Working' /\ selected' = selected /\ (pos' = pos \/ (pos < 8 /\ pos' = pos + 1))
Stops  == /\ EndCommand /\ UNCHANGED <<restoreAt, agents>>
          /\ status' = status \/ (pos < 8 /\ \E s : MarkPhase(Current, s))

LEMMA Moves == TypeOK /\ Placed /\ [Next]_vars => Begins \/ Idles \/ Works \/ Stops
<1> SUFFICES ASSUME TypeOK, Placed, [Next]_vars PROVE Begins \/ Idles \/ Works \/ Stops
  OBVIOUS
<1>0. at \notin {"idle", "mark", "next"} => pos < 8
  BY DEF TypeOK, End
<1>1. CASE Provision \/ ProvisionOnly \/ ProvisionReplay
  BY <1>1 DEF Provision, ProvisionOnly, ProvisionReplay, Invoke, Working, Begins
<1>2. CASE EditConfig
  BY <1>2 DEF EditConfig, command, Working, Idles
<1>3. CASE MarkReplayed
  BY <1>3 DEF MarkReplayed, Placed, Working, Begins
<1>4. CASE SkipPhase \/ VerifyPasses
  BY <1>0, <1>4 DEF SkipPhase, VerifyPasses, NextPhase, Working, Works, End
<1>5. CASE \/ PlanPhase \/ ConfirmPhase \/ ApplyPlain \/ ApplyPangolin \/ LoadDump \/ RecordRestore
           \/ ResetAdoption \/ RedialAgents \/ AdoptHost \/ ApplyAdopt \/ ApplyNewt
  BY <1>5 DEF PlanPhase, ConfirmPhase, ApplyPlain, ApplyPangolin, LoadDump, RecordRestore, ResetAdoption,
              RedialAgents, AdoptHost, ApplyAdopt, ApplyNewt, GoTo, command, Working, Works
<1>6. CASE DeclinePhase
  <2>1. CASE MarkPhase(Current, "declined") /\ EndCommand
    BY <1>0, <1>6, <2>1 DEF DeclinePhase, config, Stops
  <2>2. CASE NextPhase
    BY <1>0, <1>6, <2>2 DEF DeclinePhase, NextPhase, Working, Works
  <2> QED
    BY <1>6, <2>1, <2>2 DEF DeclinePhase
<1>7. CASE Finish \/ Die
  BY <1>7 DEF Finish, Die, stateFile, config, Stops
<1>8. CASE ApplyRaises \/ VerifyFails
  <2>1. pos < 8
    BY <1>0, <1>8 DEF ApplyRaises, VerifyFails, StackMissing
  <2> QED
    BY <1>8, <2>1 DEF ApplyRaises, VerifyFails, config, Stops
<1>9. CASE UNCHANGED vars
  BY <1>9 DEF vars, command, Working, Idles, Works
<1> QED
  BY <1>1, <1>2, <1>3, <1>4, <1>5, <1>6, <1>7, <1>8, <1>9 DEF Next, Apply

(* The end of a command unsettles no phase but the current one. *)
LEMMA StopKeeps ==
  ASSUME TypeOK, Stops, NEW j \in 1..7, j # pos, Settled(PIPELINE[j])
  PROVE  Settled(PIPELINE[j])'
<1> DEFINE p == PIPELINE[j]
<1>1. status'[p] = status[p]
  <2>1. CASE status' = status
    BY <2>1
  <2>2. CASE pos < 8 /\ \E s : MarkPhase(Current, s)
    <3>1. pos \in 1..7 /\ p \in Phases
      BY <2>2, PipelinePhases DEF TypeOK, End
    <3>2. p # Current
      BY <3>1, PipelineInjective DEF Current
    <3> QED
      BY <2>2, <3>1, <3>2 DEF MarkPhase, TypeOK
  <2> QED
    BY <2>1, <2>2 DEF Stops
<1>2. restoreRan' = FALSE /\ restoreAt' = restoreAt /\ agents' = agents
  BY DEF Stops, EndCommand
<1>3. Enabled(p)' => Enabled(p)
  <2>1. CASE p = "adopt_newt"
    BY <1>2, <2>1 DEF Enabled
  <2>2. CASE p = "newt"
    BY <1>2, <2>2 DEF Enabled
  <2>3. CASE p \notin {"adopt_newt", "newt"}
    BY <2>3 DEF Enabled
  <2> QED
    BY <2>1, <2>2, <2>3
<1> QED
  BY <1>1, <1>3, SettledStays

LEMMA LedgerStep == FrontierInv /\ [Next]_vars => [Ledger!Next]_(Ledger!vars)
<1> SUFFICES ASSUME FrontierInv, [Next]_vars PROVE Ledger!Next
  OBVIOUS
<1>0. TypeOK /\ Placed /\ TypeOK' /\ FrontierSettled'
  BY TypeStep, FrontierStep DEF FrontierInv
<1>1. SettledJobs' \subseteq 1..7 /\ pos \in 1..8 /\ pos' \in 1..8
  BY <1>0 DEF SettledJobs, TypeOK, End
\* What a full run is past is settled after the step as well.
<1>2. ASSUME Working', FullRun', NEW j \in 1..7, j < pos' PROVE j \in SettledJobs'
  <2>1. PICK n \in 1..8 : n = pos'
    BY <1>1
  <2>0. j < n
    BY <1>2, <2>1
  <2>2. j \in 1..(n - 1)
    BY <2>0
  <2>3. \A i \in 1..(n - 1) : Settled(PIPELINE[i])'
    BY <1>0, <1>2, <2>1 DEF FrontierSettled
  <2> QED
    BY <2>2, <2>3 DEF SettledJobs
<1>3. CASE Begins
  <2>1. Frontier = 0 /\ Frontier' \in {0, 1}
    BY <1>3 DEF Begins, Frontier
  <2> QED
    BY <1>1, <2>1 DEF Ledger!Next, Ledger!Begin, Ledger!Between
<1>4. CASE Idles
  <2>1. Frontier = 0 /\ Frontier' = 0
    BY <1>4 DEF Idles, Frontier
  <2> QED
    BY <1>1, <2>1 DEF Ledger!Next, Ledger!Between
<1>5. CASE Works
  <2>1. CASE ~FullRun
    <3>1. Frontier = 0 /\ Frontier' = 0
      BY <1>5, <2>1 DEF Works, Frontier, FullRun
    <3> QED
      BY <1>1, <3>1 DEF Ledger!Next, Ledger!Between
  <2>2. CASE FullRun
    <3>1. Frontier = pos /\ Frontier' = pos' /\ Working' /\ FullRun'
      BY <1>5, <2>2 DEF Works, Frontier, FullRun
    <3>2. CASE pos' = pos
      <4>1. Ledger!Behind \subseteq SettledJobs'
        BY <1>2, <3>1, <3>2 DEF Ledger!Behind
      <4>2. Frontier # 0 /\ Frontier' = Frontier
        BY <1>1, <3>1, <3>2
      <4> QED
        BY <1>1, <4>1, <4>2 DEF Ledger!Next, Ledger!Work
    <3>3. CASE pos < 8 /\ pos' = pos + 1
      <4>1. \A j \in 1..7 : j < pos + 1 => j \in SettledJobs'
        BY <1>2, <3>1, <3>3
      <4>2. Ledger!Behind \cup {Frontier} \subseteq SettledJobs'
        BY <1>1, <3>1, <3>3, <4>1 DEF Ledger!Behind
      <4>3. Frontier \in 1..7 /\ Frontier' = Frontier + 1
        BY <1>1, <3>1, <3>3
      <4> QED
        BY <1>1, <4>2, <4>3 DEF Ledger!Next, Ledger!Pass
    <3> QED
      BY <1>5, <3>2, <3>3 DEF Works
  <2> QED
    BY <2>1, <2>2
<1>6. CASE Stops
  <2>1. Frontier' = 0
    BY <1>6 DEF Stops, EndCommand, Frontier, Working
  <2>2. CASE Frontier = 0
    BY <1>1, <2>1, <2>2 DEF Ledger!Next, Ledger!Between
  <2>3. CASE Frontier # 0
    <3>1. Frontier = pos
      BY <2>3 DEF Frontier
    <3>2. SettledJobs \ {Frontier} \subseteq SettledJobs'
      BY <1>0, <1>6, <3>1, StopKeeps DEF SettledJobs
    <3> QED
      BY <1>1, <2>1, <2>3, <3>2 DEF Ledger!Next, Ledger!Stop
  <2> QED
    BY <2>2, <2>3
<1> QED
  BY <1>0, <1>3, <1>4, <1>5, <1>6, Moves

(* The runner implements Resumable, for every set of commands and faults.  *)
THEOREM RunnerIsResumable == Spec => IsResumable
<1>1. Init => Ledger!Init
  <2> SUFFICES ASSUME Init PROVE Ledger!Init
    OBVIOUS
  <2>1. Frontier = 0
    BY DEF Init, Frontier, Working
  <2>2. SettledJobs \subseteq 1..7
    BY DEF SettledJobs
  <2> QED
    BY <2>1, <2>2 DEF Ledger!Init
<1> QED
  BY <1>1, LedgerStep, FrontierInvariant, PTL DEF Spec, IsResumable, Ledger!Spec

-----------------------------------------------------------------------------
(* Adoption after a restore.  Only the steps of a restore take back what    *)
(* adopt_newt saw, and they send it back in the state file before they are  *)
(* through; a "done" of adopt_newt is written again only after it has run.  *)
ReOffered ==
  /\ at \in {"loaded", "recorded"} => offered = "no"
  /\ at = "verify" /\ pos = 5 => offered = "yes"
  /\ status["adopt_newt"] = "done" /\ at \notin {"loaded", "recorded"} => offered \in {"yes", "lost"}

LEMMA ReOfferedStep ==
  ASSUME TypeOK, Placed, ReOffered, [Next]_vars
  PROVE  ReOffered'
<1> USE DEF ReOffered
<1>0. /\ pos \in 1..8 /\ (at \notin {"idle", "mark", "next"} => pos < 8)
      /\ "adopt_newt" \in Phases /\ status \in [Phases -> Statuses]
      /\ at \in {"loaded", "recorded"} => pos = 4
  BY DEF TypeOK, Placed, End, Phases
<1>1. /\ pos < 8 /\ Current = "adopt_newt" => pos = 5
      /\ pos = 5 => Current = "adopt_newt"
  BY <1>0 DEF Current, PIPELINE
\* Marking a phase: adopt_newt's own status changes only when it is adopt_newt's turn.
<1>2. ASSUME NEW s, MarkPhase(Current, s), pos < 8
      PROVE  status'["adopt_newt"] = "done" => \/ status["adopt_newt"] = "done"
                                               \/ pos = 5 /\ s = "done"
  BY <1>0, <1>1, <1>2 DEF MarkPhase
\* Steps that touch neither the database nor the status of adopt_newt.
<1>3. ASSUME offered' = offered, at \notin {"loaded", "recorded"},
             at' \in {"idle", "mark", "next", "confirm", "apply", "redial"} \/ (at' = "verify" /\ pos' # 5),
             status'["adopt_newt"] = "done" => status["adopt_newt"] = "done"
      PROVE  ReOffered'
  BY <1>3
<1>4. CASE Provision \/ ProvisionOnly \/ ProvisionReplay
  <2>1. PICK only, replay : Invoke(only, replay)
    BY <1>4 DEF Provision, ProvisionOnly, ProvisionReplay
  <2>2. /\ at = "idle" /\ at' \in {"next", "mark"}
        /\ offered' = offered /\ status' = status
    BY <2>1 DEF Invoke, site, stateFile
  <2> QED
    BY <1>3, <2>2
<1>5. CASE EditConfig
  <2>1. at = "idle" /\ at' = "idle" /\ offered' = offered /\ status' = status
    BY <1>5 DEF EditConfig, stateFile, command, site
  <2> QED
    BY <1>3, <2>1
<1>6. CASE MarkReplayed
  <2>1. at = "mark" /\ at' \in {"next", "mark"} /\ offered' = offered
    BY <1>6 DEF MarkReplayed, site
  <2>2. status'["adopt_newt"] = "done" => status["adopt_newt"] = "done"
    BY <1>0, <1>6 DEF MarkReplayed, MarkPhase
  <2> QED
    BY <1>3, <2>1, <2>2
<1>7. CASE SkipPhase \/ Finish \/ PlanPhase \/ ConfirmPhase
  <2>1. /\ at \in {"next", "confirm"} /\ at' \in {"idle", "next", "confirm", "apply"}
        /\ offered' = offered /\ status' = status
    BY <1>7 DEF SkipPhase, Finish, PlanPhase, ConfirmPhase, NextPhase, EndCommand, GoTo, stateFile, site
  <2> QED
    BY <1>3, <2>1
<1>8. CASE ApplyPlain \/ ApplyPangolin \/ RedialAgents \/ ApplyNewt
  <2>1. /\ at \in {"apply", "redial"} /\ at' = "verify" /\ pos' = pos
        /\ offered' = offered /\ status' = status
    BY <1>8 DEF ApplyPlain, ApplyPangolin, RedialAgents, ApplyNewt, GoTo, stateFile, site
  <2>2. pos # 5
    BY <1>1, <1>8 DEF ApplyPlain, ApplyPangolin, RedialAgents, ApplyNewt, Placed
  <2> QED
    BY <1>3, <2>1, <2>2
<1>9. CASE LoadDump
  <2>1. at' = "loaded" /\ offered' = "no"
    BY <1>9 DEF LoadDump, GoTo
  <2> QED
    BY <2>1
<1>10. CASE RecordRestore
  <2>1. at = "loaded" /\ at' = "recorded" /\ offered' = offered
    BY <1>10 DEF RecordRestore
  <2> QED
    BY <2>1
<1>11. CASE ResetAdoption
  <2>1. at' = "redial"
    BY <1>11 DEF ResetAdoption, GoTo
  <2>2. status'["adopt_newt"] = "pending"
    BY <1>0, <1>11 DEF ResetAdoption, MarkPhase
  <2> QED
    BY <2>1, <2>2
<1>12. CASE AdoptHost
  <2>1. at = "apply" /\ at' = "apply" /\ offered' = offered /\ status' = status
    BY <1>12 DEF AdoptHost, stateFile, command, site
  <2> QED
    BY <1>3, <2>1
<1>13. CASE ApplyAdopt
  <2>1. at' = "verify" /\ offered' = "yes"
    BY <1>13 DEF ApplyAdopt, GoTo
  <2> QED
    BY <2>1
<1>14. CASE DeclinePhase
  <2>1. at = "confirm" /\ at' \in {"next", "idle"} /\ offered' = offered
    BY <1>14 DEF DeclinePhase, NextPhase, EndCommand, site
  <2>2. \E s \in {"skipped", "declined"} : MarkPhase(Current, s)
    BY <1>14 DEF DeclinePhase
  <2> QED
    BY <1>0, <1>2, <1>3, <2>1, <2>2
<1>15. CASE VerifyPasses
  <2>1. /\ at = "verify" /\ at' = "next" /\ offered' = offered
        /\ MarkPhase(Current, "done") /\ pos < 8
    BY <1>0, <1>15 DEF VerifyPasses, NextPhase
  <2>2. status'["adopt_newt"] = "done" => status["adopt_newt"] = "done" \/ pos = 5
    BY <1>2, <2>1
  <2> QED
    BY <2>1, <2>2
<1>16. CASE VerifyFails
  <2>1. at = "verify" /\ at' = "idle" /\ offered' = offered /\ MarkPhase(Current, "failed")
    BY <1>16 DEF VerifyFails, EndCommand, site
  <2> QED
    BY <1>0, <1>2, <1>3, <2>1
\* A phase that is cut: what it leaves of adopt_newt's view is what it was, or lost.
<1>17. CASE ApplyRaises \/ Die
  <2>1. /\ at # "idle" /\ at' = "idle" /\ CutShort
        /\ (\E s \in {"failed"} : MarkPhase(Current, s)) \/ status' = status
    BY <1>17 DEF ApplyRaises, Die, EndCommand, stateFile, StackMissing
  <2>2. status'["adopt_newt"] = "done" => status["adopt_newt"] = "done"
    <3>1. CASE Die
      BY <3>1 DEF Die, stateFile
    <3>2. CASE ApplyRaises
      <4>1. MarkPhase(Current, "failed") /\ pos < 8
        BY <1>0, <3>2 DEF ApplyRaises, StackMissing
      <4> QED
        BY <1>2, <4>1
    <3> QED
      BY <1>17, <3>1, <3>2
  <2>3. offered' = "lost" \/ (offered' = offered /\ at \notin {"loaded", "recorded"})
    BY <2>1 DEF CutShort
  <2> QED
    BY <2>1, <2>2, <2>3
<1>18. CASE UNCHANGED vars
  BY <1>18 DEF vars, stateFile, command, site
<1> QED
  BY <1>4, <1>5, <1>6, <1>7, <1>8, <1>9, <1>10, <1>11, <1>12, <1>13, <1>14, <1>15, <1>16, <1>17, <1>18
     DEF Next, Apply

LEMMA ReOfferedInvariant == Spec => []ReOffered
<1>1. Init => ReOffered
  BY DEF Init, ReOffered, Phases
<1>2. FrontierInv /\ ReOffered /\ [Next]_vars => ReOffered'
  BY ReOfferedStep DEF FrontierInv
<1> QED
  BY <1>1, <1>2, FrontierInvariant, PTL DEF Spec

(* A full run past adopt_newt, after any load of any run, has asked about   *)
(* the connectors of that database or was told not to; only a load that was *)
(* cut before it sent adopt_newt back is excepted.                          *)
THEOREM AdoptionFollows == Spec => []AdoptionFollowsRestore
<1>1. FrontierInv /\ ReOffered => AdoptionFollowsRestore
  <2> SUFFICES ASSUME FrontierInv, ReOffered, Working, FullRun, restoreAt, pos > 5, offered # "lost"
               PROVE  status["adopt_newt"] = "skipped" \/ (status["adopt_newt"] = "done" /\ offered = "yes")
    BY DEF AdoptionFollowsRestore
  <2>1. pos \in 6..8 /\ (at \in {"loaded", "recorded"} => pos = 4)
    BY DEF FrontierInv, TypeOK, Placed, End
  <2>2. 5 \in 1..(pos - 1) /\ PIPELINE[5] = "adopt_newt"
    BY <2>1 DEF PIPELINE
  <2>3. Settled("adopt_newt")
    BY <2>2 DEF FrontierInv, FrontierSettled
  <2>4. Enabled("adopt_newt")
    BY DEF Enabled
  <2>5. status["adopt_newt"] \in {"done", "skipped"}
    BY <2>3, <2>4 DEF Settled
  <2> QED
    BY <2>1, <2>5 DEF ReOffered
<1> QED
  BY <1>1, FrontierInvariant, ReOfferedInvariant, PTL

-----------------------------------------------------------------------------
(* Completed phases.  The loop works on a phase that the state file calls  *)
(* done only if the operator named it; that was looked at before the plan, *)
(* and nothing between the plan and the verify marks the phase done.  The  *)
(* only other status a phase touches is that of adopt_newt, at a time when *)
(* nobody has looked at the new database.                                  *)
InPhase == {"confirm", "apply", "loaded", "recorded", "redial", "verify"}

Named ==
  /\ at \in InPhase => Current \in selected /\ (status[Current] = "done" => replaying)
  /\ at \in {"loaded", "recorded"} => offered = "no"

LEMMA NamedStep == TypeOK /\ Placed /\ Named /\ [Next]_vars => Named'
<1> SUFFICES ASSUME TypeOK, Placed, Named, [Next]_vars PROVE Named'
  OBVIOUS
<1> USE DEF Named, InPhase
<1>1. at \notin {"idle", "mark", "next"} => pos \in 1..7
  BY DEF TypeOK, End
<1>2. CASE at' \in {"idle", "mark", "next"}
  BY <1>2
\* Steps within a phase that leave the statuses alone.
<1>3. ASSUME at \in InPhase, UNCHANGED <<pos, selected, replaying, status>>,
             at' \in {"loaded", "recorded"} => offered' = "no"
      PROVE  Named'
  BY <1>3 DEF Current
<1>4. CASE PlanPhase
  BY <1>4 DEF PlanPhase, PassedOver, GoTo, stateFile, Current
<1>5. CASE \/ ConfirmPhase \/ ApplyPlain \/ ApplyPangolin \/ LoadDump \/ RecordRestore \/ RedialAgents
           \/ ApplyAdopt \/ AdoptHost \/ ApplyNewt
  <2>1. at \in InPhase /\ UNCHANGED <<pos, selected, replaying, status>>
    BY <1>5 DEF ConfirmPhase, ApplyPlain, ApplyPangolin, LoadDump, RecordRestore, RedialAgents, ApplyAdopt,
                AdoptHost, ApplyNewt, GoTo, stateFile, command
  <2>2. at' \in {"loaded", "recorded"} => offered' = "no"
    BY <1>5 DEF ConfirmPhase, ApplyPlain, ApplyPangolin, LoadDump, RecordRestore, RedialAgents, ApplyAdopt,
                AdoptHost, ApplyNewt, GoTo, command, site
  <2> QED
    BY <1>3, <2>1, <2>2
<1>6. CASE ResetAdoption
  <2>1. /\ at = "recorded" /\ at' = "redial" /\ UNCHANGED <<pos, selected, replaying>> /\ pos = 4
        /\ status' = [status EXCEPT !["adopt_newt"] = "pending"]
    BY <1>6 DEF ResetAdoption, MarkPhase, GoTo, Placed
  <2>2. Current = "restore" /\ Current' = "restore"
    BY <2>1 DEF Current, PIPELINE
  <2>3. status'["restore"] = status["restore"]
    BY <2>1 DEF TypeOK, Phases
  <2> QED
    BY <2>1, <2>2, <2>3
<1>7. CASE \/ Provision \/ ProvisionOnly \/ ProvisionReplay \/ EditConfig \/ MarkReplayed \/ SkipPhase
           \/ DeclinePhase \/ Finish \/ ApplyRaises \/ VerifyPasses \/ VerifyFails \/ Die
  <2>1. at' \in {"idle", "mark", "next"}
    BY <1>7 DEF Provision, ProvisionOnly, ProvisionReplay, Invoke, EditConfig, MarkReplayed, SkipPhase,
                DeclinePhase, Finish, ApplyRaises, VerifyPasses, VerifyFails, Die, NextPhase, EndCommand,
                command
  <2> QED
    BY <1>2, <2>1
<1>8. CASE UNCHANGED vars
  BY <1>8 DEF vars, stateFile, command, site, Current
<1> QED
  BY <1>4, <1>5, <1>6, <1>7, <1>8 DEF Next, Apply

(* A completed phase is left alone, unless the operator names it or a      *)
(* restore took away what adopt_newt had looked at; with --only as well.   *)
THEOREM CompletedStays == Spec => CompletedIsLeftAlone
<1> DEFINE Kept(p) ==
      /\ status[p] = "done" /\ p \in sound /\ p \notin sound' => replaying /\ p \in selected
      /\ status[p] = "done" /\ status'[p] # "done" =>
           \/ replaying /\ p \in selected
           \/ p \in toMark
           \/ p = "adopt_newt" /\ offered = "no"
<1>1. ASSUME TypeOK, Named, [Next]_vars PROVE \A p \in Phases : Kept(p)
  <2> TAKE p \in Phases
  <2>1. status[p] = "done" /\ p \in sound /\ p \notin sound' => replaying /\ p \in selected
    <3>1. CASE ConfirmPhase
      BY <1>1, <3>1 DEF ConfirmPhase, Named, InPhase
    <3>2. CASE VerifyPasses
      BY <3>2 DEF VerifyPasses
    <3>3. CASE ~ConfirmPhase /\ ~VerifyPasses
      <4>1. sound' = sound
        BY <1>1, <3>3 DEF Next, Apply, vars, site, Provision, ProvisionOnly, ProvisionReplay, Invoke,
             EditConfig, MarkReplayed, SkipPhase, PlanPhase, DeclinePhase, Finish, ApplyPlain, ApplyPangolin,
             LoadDump, RecordRestore, ResetAdoption, RedialAgents, AdoptHost, ApplyAdopt, ApplyNewt,
             ApplyRaises, VerifyFails, Die
      <4> QED
        BY <4>1
    <3> QED
      BY <3>1, <3>2, <3>3
  <2>2. ASSUME status[p] = "done", status'[p] # "done"
        PROVE  (replaying /\ p \in selected) \/ p \in toMark \/ (p = "adopt_newt" /\ offered = "no")
    <3>1. CASE MarkReplayed
      BY <1>1, <2>2, <3>1 DEF MarkReplayed, MarkPhase, TypeOK
    <3>2. CASE ResetAdoption
      BY <1>1, <2>2, <3>2 DEF ResetAdoption, MarkPhase, TypeOK, Named
    <3>3. CASE DeclinePhase \/ ApplyRaises \/ VerifyPasses \/ VerifyFails
      <4>1. at \in InPhase /\ \E s : MarkPhase(Current, s)
        BY <3>3 DEF DeclinePhase, ApplyRaises, StackMissing, VerifyPasses, VerifyFails, InPhase
      <4>2. p = Current
        BY <1>1, <2>2, <4>1 DEF MarkPhase, TypeOK
      <4> QED
        BY <1>1, <2>2, <4>1, <4>2 DEF Named
    <3>4. CASE ~(MarkReplayed \/ ResetAdoption \/ DeclinePhase \/ ApplyRaises \/ VerifyPasses \/ VerifyFails)
      <4>1. status' = status
        BY <1>1, <3>4 DEF Next, Apply, vars, stateFile, Provision, ProvisionOnly, ProvisionReplay, Invoke,
             EditConfig, SkipPhase, PlanPhase, ConfirmPhase, Finish, ApplyPlain, ApplyPangolin, LoadDump,
             RecordRestore, RedialAgents, AdoptHost, ApplyAdopt, ApplyNewt, Die
      <4> QED
        BY <2>2, <4>1
    <3> QED
      BY <3>1, <3>2, <3>3, <3>4
  <2> QED
    BY <2>1, <2>2
<1>2. Init => Named
  BY DEF Init, Named, InPhase
<1>3. TypeOK /\ Placed /\ Named /\ [Next]_vars => Named'
  BY NamedStep
<1>4. TypeOK /\ Named /\ [Next]_vars => [\A p \in Phases : Kept(p)]_vars
  BY <1>1
<1>5. Spec => []Named
  BY <1>2, <1>3, FrontierInvariant, PTL DEF Spec, FrontierInv
<1> QED
  BY <1>4, <1>5, TypeCorrect, PTL DEF Spec, CompletedIsLeftAlone
=============================================================================

----------------------------- MODULE PhaseRunner -----------------------------
(***************************************************************************)
(* `charm provision`: the resumable phase runner (phases/base.py), the     *)
(* state file it records progress in (state.py) and the command line that  *)
(* drives it (cli.py).  Every phase is planned, confirmed, applied and     *)
(* verified; the state file keeps one status per phase and is saved on     *)
(* every mark_phase(), so what survives a crash is exactly `status`,       *)
(* `restoreAt` and the config file.  What the phases do to the hosts is    *)
(* kept only as far as the runner's promises depend on it: which phases    *)
(* really ran to the end, whether the stack is up, and what has been       *)
(* looked at since the database was last replaced.                         *)
(***************************************************************************)
EXTENDS Naturals, Sequences

CONSTANTS
  Hosts,       \* hosts that can be listed under newt_agents
  OnlySets,    \* the sets of names an operator passes to --only
  ReplaySets,  \* the sets of names an operator passes to --replay
  MayEdit,     \* whether the operator edits the config file between commands
  Fallible,    \* the phases at which something may go wrong
  MaxUpsets    \* bound on everything out of the ordinary (see Upset)

PIPELINE == <<"preflight", "base", "pangolin", "restore", "adopt_newt", "newt", "handoff">>
Phases   == {"preflight", "base", "pangolin", "restore", "adopt_newt", "newt", "handoff"}
End      == 8
Optional == {"restore", "adopt_newt"}
Statuses == {"pending", "done", "skipped", "declined", "failed"}

ASSUME RunnerAssumption ==
  /\ OnlySets \subseteq (SUBSET Phases) \ {{}}
  /\ ReplaySets \subseteq (SUBSET Phases) \ {{}}
  /\ MayEdit \in BOOLEAN
  /\ Fallible \subseteq Phases
  /\ MaxUpsets \in Nat

VARIABLES
  status,      \* state file: phase -> status
  restoreAt,   \* state file: "restore_at" is pinned
  dump,        \* config file: restore.postgres_dump is set
  agents,      \* config file: newt_agents
  at,          \* how far the running command is; "idle" when there is none
  pos,         \* the phase of PIPELINE the loop has reached
  selected,    \* the phases the loop runs over (all, or those of --only)
  replaying,   \* run_phases()' replay argument
  toMark,      \* names of --replay still to be marked pending
  restoreRan,  \* PhaseContext.restore_ran
  sound,       \* phases whose last apply ended and passed its verify
  stack,       \* containers on the Pangolin host: "absent", "up", "stopped"
  offered,     \* whether adopt_newt has run on the database that is there now
  upsets       \* number of upsets so far

stateFile == <<status, restoreAt>>
config    == <<dump, agents>>
command   == <<at, pos, selected, replaying, toMark, restoreRan>>
site      == <<sound, stack, offered>>
vars      == <<stateFile, config, command, site, upsets>>

Steps == {"idle", "mark", "next", "confirm", "apply", "loaded", "recorded", "redial", "verify"}

TypeOK ==
  /\ status \in [Phases -> Statuses]
  /\ restoreAt \in BOOLEAN
  /\ dump \in BOOLEAN
  /\ agents \subseteq Hosts
  /\ at \in Steps
  /\ pos \in 1..End /\ (at \notin {"idle", "mark", "next"} => pos < End)
  /\ selected \subseteq Phases
  /\ replaying \in BOOLEAN
  /\ toMark \subseteq Phases
  /\ restoreRan \in BOOLEAN
  /\ sound \subseteq Phases
  /\ stack \in {"absent", "up", "stopped"}
  /\ offered \in {"no", "yes", "lost"}
  /\ upsets \in 0..MaxUpsets

(* A new site: no state file, nothing on the hosts, any config. *)
Init ==
  /\ status = [p \in Phases |-> "pending"]
  /\ restoreAt = FALSE
  /\ dump \in BOOLEAN
  /\ agents \in SUBSET Hosts
  /\ at = "idle" /\ pos = 1 /\ selected = {} /\ replaying = FALSE
  /\ toMark = {} /\ restoreRan = FALSE
  /\ sound = {} /\ stack = "absent" /\ offered = "no"
  /\ upsets = 0

-----------------------------------------------------------------------------
(* Helpers *)

Current == PIPELINE[pos]

(* Phase.enabled(): adopt_newt only after a load, newt only with agents. *)
Enabled(p) ==
  CASE p = "adopt_newt" -> restoreRan \/ restoreAt
    [] p = "newt"       -> agents # {}
    [] OTHER            -> TRUE

(* Phase.needs_confirm() *)
NeedsConfirm(p) == p \notin {"preflight", "handoff"} /\ (p = "restore" => dump)

MarkPhase(p, s) == status' = [status EXCEPT ![p] = s]

(* The command ends, returning or not, and the loop's variables go with it. *)
EndCommand ==
  /\ at' = "idle" /\ pos' = 1 /\ selected' = {} /\ replaying' = FALSE
  /\ toMark' = {} /\ restoreRan' = FALSE

(* The loop moves on to the following phase. *)
NextPhase ==
  /\ at' = "next" /\ pos' = pos + 1
  /\ UNCHANGED <<selected, replaying, toMark, restoreRan>>

GoTo(step) ==
  /\ at' = step
  /\ UNCHANGED <<pos, selected, replaying, toMark, restoreRan>>

(* Faults, unusual commands and config edits all use up the same bound. *)
Upset == upsets < MaxUpsets /\ upsets' = upsets + 1
Fault == Current \in Fallible /\ Upset

-----------------------------------------------------------------------------
(* The operator *)

Invoke(only, replay) ==
  /\ at = "idle"
  /\ at' = IF replay = {} THEN "next" ELSE "mark"
  /\ pos' = 1
  /\ selected' = IF only = {} THEN Phases ELSE only
  /\ replaying' = IF only = {} THEN FALSE ELSE TRUE
  /\ toMark' = replay
  /\ restoreRan' = FALSE
  /\ UNCHANGED <<stateFile, config, site>>

(* `charm provision CONFIG` *)
Provision == Invoke({}, {}) /\ UNCHANGED upsets

(* `charm provision CONFIG --only ...` *)
ProvisionOnly == Upset /\ \E only \in OnlySets : Invoke(only, {})

(* `charm provision CONFIG --replay ...` *)
ProvisionReplay == Upset /\ \E replay \in ReplaySets : Invoke({}, replay)

(* The operator sets or unsets restore.postgres_dump, or lists other agents. *)
EditConfig ==
  /\ MayEdit /\ at = "idle" /\ Upset
  /\ \/ dump' \in BOOLEAN \ {dump} /\ UNCHANGED agents
     \/ agents' \in SUBSET Hosts \ {agents} /\ UNCHANGED dump
  /\ UNCHANGED <<stateFile, command, site>>

(* --replay marks its names one by one, saving after each. *)
MarkReplayed ==
  /\ at = "mark"
  /\ \E p \in toMark :
       /\ MarkPhase(p, "pending")
       /\ toMark' = toMark \ {p}
       /\ at' = IF toMark = {p} THEN "next" ELSE "mark"
  /\ UNCHANGED <<restoreAt, config, pos, selected, replaying, restoreRan, site, upsets>>

-----------------------------------------------------------------------------
(* run_phases() *)

(* Mutants of PassedOver: "done" is not looked at; a failed phase is not retried. *)
PassedOverReruns(p) == p \notin selected \/ ~Enabled(p)
PassedOverFailed(p) ==
  p \notin selected \/ ~Enabled(p) \/ (status[p] \in {"done", "failed"} /\ ~replaying)

(* A phase that is not selected, not enabled, or done and not replayed. *)
PassedOver(p) ==
  p \notin selected \/ ~Enabled(p) \/ (status[p] = "done" /\ ~replaying)

SkipPhase ==
  /\ at = "next" /\ pos < End
  /\ PassedOver(Current)
  /\ NextPhase
  /\ UNCHANGED <<stateFile, config, site, upsets>>

PlanPhase ==
  /\ at = "next" /\ pos < End
  /\ ~PassedOver(Current)
  /\ GoTo("confirm")
  /\ UNCHANGED <<stateFile, config, site, upsets>>

(* Mutant: the phase is recorded before it is applied. *)
ConfirmPhaseEarly ==
  /\ at = "confirm"
  /\ GoTo("apply")
  /\ MarkPhase(Current, "done") /\ sound' = sound \ {Current}
  /\ UNCHANGED <<restoreAt, config, stack, offered, upsets>>

ConfirmPhase ==
  /\ at = "confirm"
  /\ GoTo("apply")
  /\ sound' = sound \ {Current}
  /\ UNCHANGED <<stateFile, config, stack, offered, upsets>>

(* Mutant: a declined phase never stops the runner. *)
DeclinePhaseContinues ==
  /\ at = "confirm" /\ NeedsConfirm(Current) /\ Fault
  /\ MarkPhase(Current, IF Current \in Optional THEN "skipped" ELSE "declined")
  /\ NextPhase
  /\ UNCHANGED <<restoreAt, config, site>>

DeclinePhase ==
  /\ at = "confirm" /\ NeedsConfirm(Current) /\ Fault
  /\ \/ Current \in Optional /\ MarkPhase(Current, "skipped") /\ NextPhase
     \/ Current \notin Optional /\ MarkPhase(Current, "declined") /\ EndCommand
  /\ UNCHANGED <<restoreAt, config, site>>

(* The loop is through: exit code 0. *)
Finish ==
  /\ at = "next" /\ pos = End
  /\ EndCommand
  /\ UNCHANGED <<stateFile, config, site, upsets>>

-----------------------------------------------------------------------------
(* apply() *)

(* Phases whose apply() the runner's promises do not depend on, and restore *)
(* with no dump configured, which returns at once.                          *)
ApplyPlain ==
  /\ at = "apply"
  /\ Current \in {"preflight", "base", "handoff"} \/ (Current = "restore" /\ ~dump)
  /\ GoTo("verify")
  /\ UNCHANGED <<stateFile, config, site, upsets>>

ApplyPangolin ==
  /\ at = "apply" /\ Current = "pangolin"
  /\ stack' = "up"
  /\ GoTo("verify")
  /\ UNCHANGED <<stateFile, config, sound, offered, upsets>>

(* restore stops the stack and replaces the database. *)
LoadDump ==
  /\ at = "apply" /\ Current = "restore" /\ dump
  /\ stack # "absent"
  /\ stack' = "stopped" /\ offered' = "no"
  /\ GoTo("loaded")
  /\ UNCHANGED <<stateFile, config, sound, upsets>>

(* The stack is back and gated: restore_at is saved, restore_ran set. *)
RecordRestore ==
  /\ at = "loaded"
  /\ stack' = "up" /\ restoreAt' = TRUE /\ restoreRan' = TRUE
  /\ at' = "recorded"
  /\ UNCHANGED <<status, config, pos, selected, replaying, toMark,
                 sound, offered, upsets>>

(* Mutant: adoption is not offered again. *)
ResetAdoptionForgotten ==
  /\ at = "recorded"
  /\ GoTo("redial")
  /\ UNCHANGED <<stateFile, config, site, upsets>>

(* A second save: "a fresh database means fresh unmanaged sites". *)
ResetAdoption ==
  /\ at = "recorded"
  /\ MarkPhase("adopt_newt", "pending")
  /\ GoTo("redial")
  /\ UNCHANGED <<restoreAt, config, site, upsets>>

RedialAgents ==
  /\ at = "redial"
  /\ GoTo("verify")
  /\ UNCHANGED <<stateFile, config, site, upsets>>

(* adopt_newt appends one host after another to the config file and to the *)
(* configuration of the running command ...                                *)
AdoptHost ==
  /\ at = "apply" /\ Current = "adopt_newt"
  /\ \E h \in Hosts \ agents : agents' = agents \cup {h}
  /\ UNCHANGED <<stateFile, dump, command, site, upsets>>

(* ... until the operator has no further host to add. *)
ApplyAdopt ==
  /\ at = "apply" /\ Current = "adopt_newt"
  /\ offered' = "yes"
  /\ GoTo("verify")
  /\ UNCHANGED <<stateFile, config, sound, stack, upsets>>

(* newt goes over the agents; with no Pangolin there, it cannot mint. *)
ApplyNewt ==
  /\ at = "apply" /\ Current = "newt"
  /\ stack # "absent"
  /\ GoTo("verify")
  /\ UNCHANGED <<stateFile, config, site, upsets>>

(* There is no stack for a restore to stop, or for newt to mint from. *)
StackMissing ==
  /\ at = "apply" /\ stack = "absent"
  /\ Current = "newt" \/ (Current = "restore" /\ dump)

(* What a pangolin or a restore interrupted half-way leaves running. *)
StackWhenCut ==
  CASE at = "apply" /\ Current = "pangolin" -> {stack, "up"}
    [] StackMissing                         -> {stack}
    [] at = "apply" /\ Current = "restore"  -> IF dump THEN {stack, "stopped"} ELSE {stack}
    [] at = "loaded"                        -> {"stopped", "up"}
    [] OTHER                                -> {stack}

(* A command that stops within a phase.  A restore that had begun to load  *)
(* and did not come to send adopt_newt back leaves whatever adopt_newt saw *)
(* of the database "lost": its status speaks of another one.               *)
CutShort ==
  /\ stack' \in StackWhenCut
  /\ \/ offered' = "lost"
        /\ \/ at \in {"loaded", "recorded"}
           \/ at = "apply" /\ Current = "restore" /\ dump /\ stack' = "stopped"
     \/ offered' = offered /\ at \notin {"loaded", "recorded"}

(* apply() raises: the phase is marked failed and the runner returns.      *)
(* mark_phase() itself, between the two saves of a restore, does not raise.*)
ApplyRaises ==
  /\ \/ at \in {"apply", "loaded", "redial"} /\ Fault
     \/ StackMissing /\ UNCHANGED upsets
  /\ MarkPhase(Current, "failed")
  /\ CutShort
  /\ EndCommand
  /\ UNCHANGED <<restoreAt, config, sound>>

-----------------------------------------------------------------------------
(* verify(), outside the try block *)

(* preflight finds the containers of the stack (postgres stays up when the *)
(* rest is stopped), and discounts them only while the state file says     *)
(* "done" for pangolin.                                                    *)
PreflightBlocked == stack # "absent" /\ status["pangolin"] # "done"

VerifyPasses ==
  /\ at = "verify"
  /\ Current = "preflight" => ~PreflightBlocked
  /\ MarkPhase(Current, "done")
  /\ sound' = sound \cup {Current}
  /\ NextPhase
  /\ UNCHANGED <<restoreAt, config, stack, offered, upsets>>

(* Mutants: verify only warns and the phase is done; an unknown status word. *)
VerifyFailsWarns ==
  /\ at = "verify" /\ Fault
  /\ MarkPhase(Current, "done")
  /\ NextPhase
  /\ UNCHANGED <<restoreAt, config, site>>
VerifyFailsError ==
  /\ at = "verify" /\ Fault
  /\ MarkPhase(Current, "error")
  /\ EndCommand
  /\ UNCHANGED <<restoreAt, config, site>>

VerifyFails ==
  /\ at = "verify"
  /\ \/ Fault
     \/ Current = "preflight" /\ PreflightBlocked /\ UNCHANGED upsets
  /\ MarkPhase(Current, "failed")
  /\ EndCommand
  /\ UNCHANGED <<restoreAt, config, site>>

(* The process dies, or plan(), the prompt or verify() raises: nothing is  *)
(* caught, nothing more is saved.                                          *)
Die ==
  /\ at # "idle" /\ pos < End /\ Fault
  /\ CutShort
  /\ EndCommand
  /\ UNCHANGED <<stateFile, config, sound>>

-----------------------------------------------------------------------------
Apply == ApplyPlain \/ ApplyPangolin \/ LoadDump \/ RecordRestore \/ ResetAdoption
           \/ RedialAgents \/ ApplyAdopt \/ AdoptHost \/ ApplyNewt

(* What the runner does of itself once a command has been given. *)
RunnerStep == MarkReplayed \/ SkipPhase \/ PlanPhase \/ ConfirmPhase \/ Finish
                \/ Apply \/ VerifyPasses
                \/ ((ApplyRaises \/ VerifyFails) /\ UNCHANGED upsets)

Next ==
  \/ Provision \/ ProvisionOnly \/ ProvisionReplay \/ EditConfig
  \/ MarkReplayed \/ SkipPhase \/ PlanPhase \/ ConfirmPhase \/ DeclinePhase \/ Finish
  \/ Apply \/ ApplyRaises
  \/ VerifyPasses \/ VerifyFails \/ Die

Spec == Init /\ [][Next]_vars

(* The operator keeps re-running the plain command, and every command goes *)
(* on: each remote call and each health wait of a phase has a timeout.     *)
FairSpec == Spec /\ WF_vars(Provision) /\ WF_vars(RunnerStep)

-----------------------------------------------------------------------------
(* Properties *)

Working == at \notin {"idle", "mark"}
FullRun == selected = Phases

(* Nothing is left to do for phase p. *)
Settled(p) ==
  \/ status[p] = "done"
  \/ p \in Optional /\ status[p] = "skipped"
  \/ ~Enabled(p)

(* The loop of a full run is past a phase only when the state file says so: *)
(* it is done, or it was optional and declined, or it was not needed.  A    *)
(* crash then never leaves a later phase applied over an unsettled one.     *)
FrontierSettled ==
  Working /\ FullRun => \A j \in 1..(pos - 1) : Settled(PIPELINE[j])

(* base.py:8-9, README "it never builds on an unhealthy foundation": what a *)
(* full run has passed really was applied to the end and verified, unless   *)
(* it was optional and declined, or not enabled.  Holds when --only is not  *)
(* used; with --only an interrupted re-run leaves a stale "done" behind.    *)
SoundFoundation ==
  Working /\ FullRun =>
    \A j \in 1..(pos - 1) :
      \/ PIPELINE[j] \in sound
      \/ PIPELINE[j] \in Optional /\ status[PIPELINE[j]] = "skipped"
      \/ ~Enabled(PIPELINE[j])

(* Outside of a command the state file never claims more than what happened: *)
(* "done" means that the last apply of the phase ended and was verified.     *)
DoneIsSound == \A p \in Phases : status[p] = "done" => p \in sound

(* restore_phase.py:296 "a fresh database means fresh unmanaged sites: offer *)
(* adoption again": once a dump was loaded, by this run or an earlier one, a *)
(* full run does not get past adopt_newt unless the operator was asked about *)
(* the connectors of this database, or declined to be.  Excepted is a load   *)
(* that failed or died before adopt_newt was sent back: when the operator    *)
(* then declines the restore, the old "done" of adopt_newt stays.            *)
AdoptionFollowsRestore ==
  Working /\ FullRun /\ restoreAt /\ pos > 5 /\ offered # "lost" =>
    status["adopt_newt"] = "skipped" \/ (status["adopt_newt"] = "done" /\ offered = "yes")

(* README "a completed phase can never be re-bootstrapped": a phase that the *)
(* state file calls done is applied again only when the operator named it,   *)
(* with --only or, through "pending", with --replay, or when a restore has   *)
(* replaced the database that it (adopt_newt) looked at.                     *)
CompletedIsLeftAlone ==
  [][\A p \in Phases :
       /\ status[p] = "done" /\ p \in sound /\ p \notin sound' => replaying /\ p \in selected
       /\ status[p] = "done" /\ status'[p] # "done" =>
            \/ replaying /\ p \in selected
            \/ p \in toMark
            \/ p = "adopt_newt" /\ offered = "no"]_vars

(* README "a re-run skips completed phases and resumes at the frontier":     *)
(* once nothing goes wrong any more, re-running the plain command brings     *)
(* every phase to an end, whatever was interrupted, failed or declined.      *)
Converges == <>[](\A p \in Phases : Settled(p))

(* The jobs of Resumable that are settled, and the one a full run is at.    *)
SettledJobs == {j \in 1..7 : Settled(PIPELINE[j])}
Frontier == IF Working /\ FullRun THEN pos ELSE 0

Ledger == INSTANCE Resumable WITH Last <- 7, settled <- SettledJobs, frontier <- Frontier

(* README "a re-run skips completed phases and resumes at the frontier", as  *)
(* the specification Resumable: phases settle in order under a full run, and *)
(* a run that ends, fails, is declined or dies takes back at most the phase  *)
(* it was working on.                                                        *)
IsResumable == Ledger!Spec
=============================================================================

-------------------------------- MODULE Stack --------------------------------
(***************************************************************************)
(* The containers of the Pangolin host and the four commands that start    *)
(* and stop them: the rollout of the pangolin phase (pangolin_phase.py),   *)
(* the stop and restart inside restore (restore_phase.py), `shutdown` and  *)
(* `start` (lifecycle.py), with the redial of the Newt agents they owe     *)
(* whenever they bounce gerbil (newt_ops.py).  Each step is one remote     *)
(* call, or a wait; between any two of them the process may die, a call    *)
(* may fail, and a container may crash and be restarted by Docker.         *)
(*                                                                         *)
(* Traefik lives in gerbil's network namespace and never follows gerbil    *)
(* into a new one; `stranded` says whether its namespace is still gerbil's *)
(* and, if it is not, whose doing that was.                                *)
(***************************************************************************)
EXTENDS Naturals, FiniteSets

CONSTANTS
  Redefinable,  \* services whose compose definition an edit may change
  Editable,     \* the rendered files an edit of the site config may change
  Crashable,    \* services that may crash on their own
  CrashStates,  \* how a crash, or a reboot of the host, leaves a container
  Fallible,     \* the steps at which a call may fail or the process may die
  MaxUpsets     \* bound on edits, crashes, failures and deaths taken together

Services == {"postgres", "pangolin", "gerbil", "traefik", "maintenance"}
Files    == {"cert", "compose", "config", "traefik"}
Commands == {"pangolin", "restore", "shutdown", "start"}
Steps    == {"idle", "cert", "compose", "config", "traefik", "services", "up", "force",
             "rollout", "restart", "rejoin", "health", "redial", "verify",
             "stop", "load", "up pangolin", "up gerbil", "record",
             "up gerbil maintenance", "save", "stop pangolin", "up all"}

ASSUME StackAssumption ==
  /\ Redefinable \subseteq Services
  /\ Editable \subseteq Files
  /\ Crashable \subseteq Services
  /\ CrashStates \subseteq {"restarting", "exited"}
  /\ Fallible \subseteq Steps
  /\ MaxUpsets \in Nat

VARIABLES
  cont,       \* docker: state of each container
  health,     \* docker: health of pangolin, while it runs
  outdated,   \* containers whose definition is no longer the compose file's
  unread,     \* containers to restart: their files, or the database, are newer
  stranded,   \* "no", or who moved gerbil off traefik's namespace
  owed,       \* the command that bounced gerbil, if no redial followed yet
  want,       \* files on the host that differ from what would be rendered
  shutdown,   \* state file: status of the shutdown phase
  redialPending, \* state file: shutdown's newt_redial_pending
  cmd, at,    \* the running command (the last one when idle) and its step
  ok,         \* the last command ended well
  cut,        \* some apply() was left half-way, or could not read the stack
  before,     \* apply: `before` is not empty
  pangolinFiles, traefikFiles,  \* apply: files that were written by this run
  fresh,      \* apply: services recreated by `up -d`
  restarts,   \* apply: services still to be restarted
  recreateTraefik, forced, bounced,
  upsets

docker    == <<cont, health, outdated, unread, stranded, owed>>
stateFile == <<shutdown, redialPending>>
locals    == <<before, pangolinFiles, traefikFiles, fresh, restarts,
               recreateTraefik, forced, bounced>>
command   == <<cmd, at, ok, cut>>
vars      == <<docker, want, stateFile, command, locals, upsets>>

DockerType ==
  /\ cont \in [Services -> {"absent", "created", "running", "restarting", "exited"}]
  /\ health \in {"starting", "healthy", "unhealthy"}
  /\ outdated \subseteq Services
  /\ unread \subseteq {"pangolin", "traefik"}
  /\ stranded \in {"no", "crash", "charmer"}
  /\ owed \in Commands \cup {"none"}

CommandType ==
  /\ cmd \in Commands /\ at \in Steps
  /\ ok \in BOOLEAN /\ cut \in BOOLEAN
  /\ want \subseteq Files
  /\ shutdown \in {"pending", "done", "failed", "reversed"}
  /\ redialPending \in BOOLEAN

LocalsType ==
  /\ before \in BOOLEAN /\ pangolinFiles \in BOOLEAN /\ traefikFiles \in BOOLEAN
  /\ fresh \subseteq Services /\ restarts \subseteq Services
  /\ recreateTraefik \in BOOLEAN /\ forced \in BOOLEAN /\ bounced \in BOOLEAN

TypeOK == DockerType /\ CommandType /\ LocalsType /\ upsets \in 0..MaxUpsets

NoLocals ==
  /\ before = FALSE /\ pangolinFiles = FALSE /\ traefikFiles = FALSE
  /\ fresh = {} /\ restarts = {}
  /\ recreateTraefik = FALSE /\ forced = FALSE /\ bounced = FALSE

(* A prepared host without a stack. *)
Init ==
  /\ cont = [s \in Services |-> "absent"] /\ health = "starting"
  /\ outdated = {} /\ unread = {} /\ stranded = "no" /\ owed = "none"
  /\ want = Files
  /\ shutdown = "pending" /\ redialPending = FALSE
  /\ cmd = "pangolin" /\ at = "idle" /\ ok = FALSE /\ cut = FALSE
  /\ NoLocals
  /\ upsets = 0

-----------------------------------------------------------------------------
(* Docker *)

Down(s)   == cont[s] \in {"absent", "created", "exited"}
Broken(s) == cont[s] \in {"created", "restarting", "exited"}   \* _BROKEN_STATES
Running(s) == cont[s] = "running"
Existing  == {s \in Services : cont[s] # "absent"}

(* The services in S are (re)started, those in R in a new container, those *)
(* in C get a new container that is not started.  A started traefik joins  *)
(* gerbil's namespace of that moment; a gerbil that is (re)started or      *)
(* replaced without it leaves traefik in the old one, and the agents too.  *)
Touch(S, R, C) ==
  LET moved == "gerbil" \in S \/ "gerbil" \in C IN
  /\ cont' = [s \in Services |->
                IF s \in S THEN "running" ELSE IF s \in C THEN "created" ELSE cont[s]]
  /\ outdated' = outdated \ (R \cup C)
  /\ unread' = (unread \cup IF "postgres" \in R THEN {"pangolin"} \cap Existing ELSE {}) \ S
  /\ stranded' = IF "traefik" \in S THEN "no"
                 ELSE IF moved /\ cont["traefik"] # "absent" THEN "charmer" ELSE stranded
  /\ owed' = IF moved /\ cont["gerbil"] \notin {"absent", "created"} THEN cmd ELSE owed

HealthAfter(S) == IF "pangolin" \in S THEN "starting" ELSE health

(* Traefik can only be started into the namespace of a running gerbil. *)
CanJoin(S) == "traefik" \in S => "gerbil" \in S \/ Running("gerbil")

(* `up -d` of the services T, or with --force-recreate: what is down is    *)
(* started, what is absent or outdated gets a new container, and the rest  *)
(* is left alone, a container in Docker's restart backoff included.        *)
UpTouches(T) == {s \in T : Down(s) \/ s \in outdated}
UpCreates(T) == {s \in T : cont[s] = "absent" \/ s \in outdated}

(* Faults, crashes and edits all use up the same bound. *)
Upset == upsets < MaxUpsets /\ upsets' = upsets + 1
Fault == at \in Fallible /\ Upset

(* gerbil and traefik depend on a healthy pangolin, so without --no-deps   *)
(* `up` waits for it; when that fails, what depends on it may have been    *)
(* recreated and is not started.                                           *)
UpWaitsOn(S) == "pangolin" \in S \/ (Running("pangolin") /\ health # "unhealthy")

UpSucceeds(S, R) ==
  /\ UpWaitsOn(S) /\ CanJoin(S)
  /\ Touch(S, R, {}) /\ health' = "healthy"

UpFails(S, R) ==
  LET late == {"gerbil", "traefik"} IN
  \/ /\ \/ ~UpWaitsOn(S) /\ UNCHANGED upsets
        \/ UpWaitsOn(S) /\ health # "healthy" /\ Fault
        \/ "pangolin" \in S /\ health = "healthy" /\ Fault
     /\ Touch(S \ late, R \ late, R \cap late)
     /\ health' = "unhealthy"
  \/ /\ UpWaitsOn(S) /\ ~CanJoin(S) /\ UNCHANGED upsets
     /\ Touch(S \ {"traefik"}, R \ {"traefik"}, R \cap {"traefik"})
     /\ health' = "healthy"
  \/ Fault /\ UNCHANGED docker

(* A container crashes, or does not survive a reboot; Docker restarts it   *)
(* or gives up.  Gerbil comes back in a new namespace, and a traefik that  *)
(* comes back joins it.                                                    *)
Crash(s) ==
  /\ s \in Crashable /\ Running(s) /\ Upset
  /\ \E state \in CrashStates : cont' = [cont EXCEPT ![s] = state]
  /\ stranded' = IF s = "gerbil" /\ stranded = "no" THEN "crash" ELSE stranded
  /\ UNCHANGED <<health, outdated, unread, owed, want, stateFile, command, locals>>

DockerRestarts(s) ==
  /\ cont[s] = "restarting"
  /\ s = "traefik" => Running("gerbil")
  /\ cont' = [cont EXCEPT ![s] = "running"]
  /\ health' = HealthAfter({s})
  /\ unread' = unread \ {s}
  /\ stranded' = IF s = "traefik" THEN "no" ELSE stranded
  /\ UNCHANGED <<outdated, owed, want, stateFile, command, locals, upsets>>

(* pangolin's healthcheck comes to a verdict. *)
HealthSettles ==
  /\ Running("pangolin") /\ health = "starting"
  /\ \/ health' = "healthy" /\ UNCHANGED upsets
     \/ health' = "unhealthy" /\ Upset
  /\ UNCHANGED <<cont, outdated, unread, stranded, owed, want, stateFile, command, locals>>

-----------------------------------------------------------------------------
(* Commands *)

Invoke(c, first) ==
  /\ at = "idle"
  /\ cmd' = c /\ at' = first /\ ok' = FALSE
  /\ UNCHANGED <<docker, want, stateFile, cut, locals, upsets>>

(* `charm provision`, when it comes to (or back to) the pangolin phase ... *)
Pangolin == Invoke("pangolin", "cert")

(* ... and to a restore with a dump, which needs the stack. *)
Restore == Existing # {} /\ Invoke("restore", "stop")

Shutdown == Existing # {} /\ Invoke("shutdown", "up gerbil maintenance")

(* `charm start` refuses unless shutdown last completed. *)
Start == shutdown = "done" /\ Invoke("start", "up all")

(* The operator edits the site config (or the certificate, or the tags). *)
EditSite ==
  /\ at = "idle" /\ Upset
  /\ \E f \in Editable \ want : want' = want \cup {f}
  /\ UNCHANGED <<docker, stateFile, command, locals>>

GoTo(step)    == at' = step /\ UNCHANGED <<cmd, ok, cut>>
GoToCut(step) == at' = step /\ UNCHANGED <<cmd, ok>> /\ cut' = TRUE

-----------------------------------------------------------------------------
(* PangolinPhase.apply(): the files, one push after another *)

AfterFile(f) ==
  CASE f = "cert" -> "compose" [] f = "compose" -> "config"
    [] f = "config" -> "traefik" [] f = "traefik" -> "services"

Readers(f) == IF f = "config" THEN {"pangolin"}
              ELSE IF f \in {"cert", "traefik"} THEN {"traefik"} ELSE {}

(* push_file() reports a change only to the run that writes it. *)
PushFile ==
  /\ at \in Files
  /\ want' = want \ {at}
  /\ IF at = "compose" /\ at \in want
     THEN \E D \in SUBSET (Redefinable \cap Existing) :
            /\ Redefinable \cap Existing # {} => D # {}
            /\ outdated' = outdated \cup D
     ELSE outdated' = outdated
  /\ unread' = IF at \in want THEN unread \cup (Existing \cap Readers(at)) ELSE unread
  /\ pangolinFiles' = IF at = "config" /\ at \in want THEN TRUE ELSE pangolinFiles
  /\ traefikFiles' = IF at \in {"cert", "traefik"} \cap want THEN TRUE ELSE traefikFiles
  /\ GoTo(AfterFile(at))
  /\ UNCHANGED <<cont, health, stranded, owed, stateFile, before, fresh, restarts,
                 recreateTraefik, forced, bounced, upsets>>

-----------------------------------------------------------------------------
(* PangolinPhase.apply(): the rollout *)

RestartPangolinFirst ==
  /\ cont["pangolin"] # "absent"
  /\ pangolinFiles \/ ~Running("pangolin") \/ health # "healthy"

(* _services() returns {} as well when `docker compose ps` fails: the run  *)
(* then goes on as if there was no stack.                                  *)
ReadServices ==
  /\ at = "services"
  /\ \/ /\ before' = IF Existing = {} THEN FALSE ELSE TRUE
        /\ IF RestartPangolinFirst
           THEN Touch({"pangolin"}, {}, {}) /\ health' = "starting"
           ELSE UNCHANGED docker
        /\ GoTo("up") /\ UNCHANGED upsets
     \/ Fault /\ UNCHANGED <<docker, before>> /\ GoToCut("up")
  /\ UNCHANGED <<want, stateFile, pangolinFiles, traefikFiles, fresh, restarts,
                 recreateTraefik, forced, bounced>>

(* Mutant: the whole stack is recreated whenever the phase runs. *)
ComposeUpForced ==
  /\ at = "up"
  /\ \/ /\ UpSucceeds(Services, Services) /\ UNCHANGED upsets
        /\ fresh' = Services
        /\ GoTo(IF before THEN "rollout" ELSE "health")
     \/ /\ before /\ UpFails(Services, Services)
        /\ GoTo("force") /\ UNCHANGED fresh
  /\ UNCHANGED <<want, stateFile, before, pangolinFiles, traefikFiles, restarts,
                 recreateTraefik, forced, bounced>>

ComposeUp ==
  LET S == UpTouches(Services)
      R == UpCreates(Services) IN
  /\ at = "up"
  /\ \/ /\ UpSucceeds(S, R) /\ UNCHANGED upsets
        /\ fresh' = R
        /\ GoTo(IF before THEN "rollout" ELSE "health")
     \/ /\ before /\ UpFails(S, R)
        /\ GoTo("force") /\ UNCHANGED fresh
  /\ UNCHANGED <<want, stateFile, before, pangolinFiles, traefikFiles, restarts,
                 recreateTraefik, forced, bounced>>

ForceRecreate ==
  /\ at = "force"
  /\ UpSucceeds(Services, Services) /\ UNCHANGED upsets
  /\ before' = FALSE /\ forced' = TRUE
  /\ GoTo("health")
  /\ UNCHANGED <<want, stateFile, pangolinFiles, traefikFiles, fresh, restarts,
                 recreateTraefik, bounced>>

(* Services due for a restart, and whether traefik has to be recreated.     *)
(* Mutant: a recreated postgres is not followed by a restart of pangolin.   *)
DueNoReconnect ==
  ( (IF traefikFiles THEN {"traefik"} ELSE {}) \cup {s \in Services : Broken(s)} ) \ fresh

Due ==
  ( (IF "postgres" \in fresh THEN {"pangolin"} ELSE {})
      \cup (IF traefikFiles THEN {"traefik"} ELSE {})
      \cup {s \in Services : Broken(s)} ) \ fresh

(* rollout_actions(): what `up` could not see.  When the second look at the *)
(* services fails, only the traefik files are left to go by.                *)
RolloutActions ==
  /\ at = "rollout"
  /\ \E seen \in BOOLEAN :
       LET due   == IF seen THEN Due ELSE IF traefikFiles THEN {"traefik"} ELSE {}
           renew == seen /\ "gerbil" \in fresh \cup due
           left  == IF renew THEN due \ {"traefik"} ELSE due
           next  == IF left # {} THEN "restart" ELSE IF renew THEN "rejoin" ELSE "health" IN
       /\ IF seen THEN GoTo(next) /\ UNCHANGED upsets ELSE Fault /\ GoToCut(next)
       /\ restarts' = left
       /\ recreateTraefik' = IF renew THEN TRUE ELSE FALSE
  /\ UNCHANGED <<docker, want, stateFile, before, pangolinFiles, traefikFiles,
                 fresh, forced, bounced>>

RESTART_ORDER == [postgres |-> 1, pangolin |-> 2, gerbil |-> 3, maintenance |-> 4, traefik |-> 5]

RestartService ==
  /\ at = "restart"
  /\ \E s \in restarts :
       /\ \A t \in restarts : RESTART_ORDER[s] <= RESTART_ORDER[t]
       /\ CanJoin({s})
       /\ Touch({s}, {}, {}) /\ health' = HealthAfter({s})
       /\ restarts' = restarts \ {s}
  /\ GoTo(IF restarts' # {} THEN "restart" ELSE IF recreateTraefik THEN "rejoin" ELSE "health")
  /\ UNCHANGED <<want, stateFile, before, pangolinFiles, traefikFiles, fresh,
                 recreateTraefik, forced, bounced, upsets>>

(* Once gerbil is stable, traefik is force-recreated into its namespace:   *)
(* the pangolin phase, restore and shutdown.                               *)
RecreateTraefik ==
  /\ at = "rejoin"
  /\ Running("gerbil")
  /\ Touch({"traefik"}, {"traefik"}, {}) /\ UNCHANGED health
  /\ \/ cmd = "pangolin" /\ GoTo("health")
     \/ cmd = "restore"  /\ GoTo("record")
     \/ cmd = "shutdown" /\ GoTo("stop pangolin")
  /\ UNCHANGED <<want, stateFile, locals, upsets>>

(* Mutant: a start that did not bounce gerbil itself forgets shutdown's redial. *)
WaitHealthyForgets ==
  /\ at = "health"
  /\ Running("pangolin") /\ health \in {"healthy", "unhealthy"}
  /\ \/ cmd = "pangolin" /\ GoTo(IF recreateTraefik \/ forced THEN "redial" ELSE "verify")
     \/ cmd = "restore"  /\ GoTo("up gerbil")
     \/ cmd = "start"    /\ GoTo(IF bounced THEN "redial" ELSE "record")
  /\ UNCHANGED <<docker, want, stateFile, locals, upsets>>

(* wait_for(expect="healthy") looks for a substring, which "unhealthy" has. *)
WaitHealthy ==
  /\ at = "health"
  /\ Running("pangolin") /\ health \in {"healthy", "unhealthy"}
  /\ \/ cmd = "pangolin" /\ GoTo(IF recreateTraefik \/ forced THEN "redial" ELSE "verify")
     \/ cmd = "restore"  /\ GoTo("up gerbil")
     \/ cmd = "start"    /\ GoTo(IF redialPending \/ bounced THEN "redial" ELSE "record")
  /\ UNCHANGED <<docker, want, stateFile, locals, upsets>>

(* redial_all(): an agent that does not come back is a warning. *)
RedialAll ==
  /\ at = "redial"
  /\ owed' = "none"
  /\ GoTo(IF cmd = "start" THEN "record" ELSE "verify")
  /\ UNCHANGED <<cont, health, outdated, unread, stranded, want, stateFile, locals, upsets>>

-----------------------------------------------------------------------------
(* RestorePhase.apply(), from the stop to the record *)

StopStack ==
  /\ at = "stop"
  /\ cont' = [s \in Services |-> IF s \in {"pangolin", "gerbil", "traefik"} \cap Existing
                                 THEN "exited" ELSE cont[s]]
  /\ GoTo("load")
  /\ UNCHANGED <<health, outdated, unread, stranded, owed, want, stateFile, locals, upsets>>

LoadDump ==
  /\ at = "load"
  /\ GoTo("up pangolin")
  /\ UNCHANGED <<docker, want, stateFile, locals, upsets>>

(* `up -d --no-deps` of one service. *)
UpPangolin ==
  /\ at = "up pangolin"
  /\ LET S == UpTouches({"pangolin"}) IN
       Touch(S, UpCreates({"pangolin"}), {}) /\ health' = HealthAfter(S)
  /\ GoTo("health")
  /\ UNCHANGED <<want, stateFile, locals, upsets>>

UpGerbil ==
  /\ at = "up gerbil"
  /\ Touch(UpTouches({"gerbil"}), UpCreates({"gerbil"}), {}) /\ UNCHANGED health
  /\ GoTo("rejoin")
  /\ UNCHANGED <<want, stateFile, locals, upsets>>

(* Mutant: another status word. *)
RecordRestarted ==
  /\ at = "record"
  /\ \/ cmd = "restore" /\ GoTo("redial") /\ UNCHANGED stateFile
     \/ /\ cmd = "start" /\ GoTo("verify")
        /\ shutdown' = "started" /\ redialPending' = FALSE
  /\ UNCHANGED <<docker, want, locals, upsets>>

(* restore pins restore_at; start marks shutdown "reversed", and with that *)
(* saves the popped newt_redial_pending.                                   *)
Record ==
  /\ at = "record"
  /\ \/ cmd = "restore" /\ GoTo("redial") /\ UNCHANGED stateFile
     \/ /\ cmd = "start" /\ GoTo("verify")
        /\ shutdown' = "reversed" /\ redialPending' = FALSE
  /\ UNCHANGED <<docker, want, locals, upsets>>

-----------------------------------------------------------------------------
(* ShutdownPhase.apply() and StartPhase.apply() *)

(* gerbil_marker() before and after: was gerbil (re)started by the call?   *)
(* An unreadable marker says one thing or the other.                       *)
CompareMarkers(started) ==
  \/ bounced' = (IF started THEN TRUE ELSE FALSE) /\ UNCHANGED <<cut, upsets>>
  \/ Fault /\ bounced' \in BOOLEAN /\ cut' = TRUE

(* Mutant: traefik is recreated only when gerbil was just bounced. *)
AfterUpTrusting(started) == IF started THEN "save" ELSE "stop pangolin"

AfterUp(started) == IF started THEN "save" ELSE "rejoin"

(* Mutant: `up` without --no-deps. *)
UpGerbilWithDeps ==
  LET T == {"gerbil", "maintenance", "pangolin", "postgres"} IN
  /\ at = "up gerbil maintenance"
  /\ Touch(UpTouches(T), UpCreates(T), {}) /\ health' = HealthAfter(UpTouches(T))
  /\ CompareMarkers("gerbil" \in UpTouches(T))
  /\ at' = AfterUp(bounced') /\ UNCHANGED <<cmd, ok>>
  /\ UNCHANGED <<want, stateFile, before, pangolinFiles, traefikFiles, fresh, restarts,
                 recreateTraefik, forced>>

UpGerbilMaintenance ==
  LET T == {"gerbil", "maintenance"} IN
  /\ at = "up gerbil maintenance"
  /\ Touch(UpTouches(T), UpCreates(T), {}) /\ UNCHANGED health
  /\ CompareMarkers("gerbil" \in UpTouches(T))
  /\ at' = AfterUp(bounced') /\ UNCHANGED <<cmd, ok>>
  /\ UNCHANGED <<want, stateFile, before, pangolinFiles, traefikFiles, fresh, restarts,
                 recreateTraefik, forced>>

SaveRedialPending ==
  /\ at = "save"
  /\ redialPending' = TRUE
  /\ GoTo("rejoin")
  /\ UNCHANGED <<docker, want, shutdown, locals, upsets>>

StopPangolin ==
  /\ at = "stop pangolin"
  /\ cont' = [cont EXCEPT !["pangolin"] = IF @ = "absent" THEN @ ELSE "exited"]
  /\ GoTo("verify")
  /\ UNCHANGED <<health, outdated, unread, stranded, owed, want, stateFile, locals, upsets>>

UpAll ==
  LET S == UpTouches(Services) IN
  /\ at = "up all"
  /\ UpSucceeds(S, UpCreates(Services))
  /\ CompareMarkers("gerbil" \in S)
  /\ at' = "health" /\ UNCHANGED <<cmd, ok>>
  /\ UNCHANGED <<want, stateFile, before, pangolinFiles, traefikFiles, fresh, restarts,
                 recreateTraefik, forced>>

-----------------------------------------------------------------------------
(* How a command ends *)

EndCommand(well) ==
  /\ at' = "idle" /\ ok' = well /\ UNCHANGED cmd
  /\ before' = FALSE /\ pangolinFiles' = FALSE /\ traefikFiles' = FALSE
  /\ fresh' = {} /\ restarts' = {}
  /\ recreateTraefik' = FALSE /\ forced' = FALSE /\ bounced' = FALSE

(* The compose call or the wait of this step fails for what it finds. *)
StepFails ==
  \/ at = "up"     /\ ~before /\ UpFails(UpTouches(Services), UpCreates(Services))
  \/ at = "force"  /\ UpFails(Services, Services)
  \/ at = "up all" /\ UpFails(UpTouches(Services), UpCreates(Services))
  \/ /\ \/ at = "rejoin" /\ ~Running("gerbil")
        \/ at = "health" /\ ~Running("pangolin")
        \/ at = "restart" /\ restarts = {"traefik"} /\ ~Running("gerbil")
     /\ UNCHANGED <<docker, upsets>>

(* apply() raises and the phase is marked failed.  mark_phase() saves the  *)
(* whole state, so a newt_redial_pending that start has popped is gone.    *)
ApplyRaises ==
  /\ at \notin {"idle", "verify"}
  /\ StepFails \/ (Fault /\ UNCHANGED docker)
  /\ shutdown' = IF cmd = "shutdown" THEN "failed" ELSE shutdown
  /\ redialPending' = IF cmd = "start" /\ at \in {"redial", "record"} THEN FALSE
                      ELSE redialPending
  /\ cut' = TRUE
  /\ EndCommand(FALSE)
  /\ UNCHANGED want

Die ==
  /\ at # "idle" /\ Fault
  /\ cut' = TRUE
  /\ EndCommand(FALSE)
  /\ UNCHANGED <<docker, want, stateFile>>

(* verify_public_reachable(): any HTTP answer will do. *)
Reachable == Running("gerbil") /\ Running("traefik") /\ stranded = "no"
ApiAnswers == Running("pangolin") /\ health = "healthy"

Verified ==
  CASE cmd = "pangolin" -> ApiAnswers /\ Running("maintenance") /\ Reachable
    [] cmd = "restore"  -> Reachable
    [] cmd = "shutdown" -> ~Running("pangolin") /\ Running("maintenance") /\ Reachable
    [] cmd = "start"    -> ApiAnswers

Verify ==
  /\ at = "verify"
  /\ \E well \in BOOLEAN :
       /\ IF well THEN Verified /\ UNCHANGED upsets
          ELSE IF Verified THEN Fault ELSE UNCHANGED upsets
       /\ shutdown' = IF cmd # "shutdown" THEN shutdown ELSE IF well THEN "done" ELSE "failed"
       /\ EndCommand(well)
  /\ UNCHANGED <<docker, want, redialPending, cut>>

-----------------------------------------------------------------------------
Rollout == PushFile \/ ReadServices \/ ComposeUp \/ ForceRecreate \/ RolloutActions
             \/ RestartService \/ RecreateTraefik \/ WaitHealthy \/ RedialAll
Lifecycle == UpGerbilMaintenance \/ SaveRedialPending \/ StopPangolin \/ UpAll
Restoring == StopStack \/ LoadDump \/ UpPangolin \/ UpGerbil \/ Record

Next ==
  \/ Pangolin \/ Restore \/ Shutdown \/ Start \/ EditSite
  \/ Rollout \/ Lifecycle \/ Restoring
  \/ ApplyRaises \/ Die \/ Verify
  \/ HealthSettles
  \/ \E s \in Services : Crash(s) \/ DockerRestarts(s)

Spec == Init /\ [][Next]_vars

-----------------------------------------------------------------------------
(* Properties *)

(* README "Re-running the `pangolin` phase on a live stack": as long as no *)
(* apply() was left half-way, a rollout that reaches verify has brought    *)
(* every change to the containers: no old definition runs, and nobody      *)
(* still runs on the files, or the database connection, of before.         *)
RolloutIsComplete ==
  at = "verify" /\ cmd = "pangolin" /\ ~cut => outdated = {} /\ unread = {}

(* lifecycle.py:81-90 "regardless of history", restore_phase.py:279-283:   *)
(* whatever was interrupted before, a shutdown or a restore that reaches   *)
(* verify leaves traefik in gerbil's namespace, unless gerbil crashed.     *)
TraefikFollowsGerbil ==
  at = "verify" /\ cmd \in {"shutdown", "restore"} => stranded # "charmer"

(* README "keeps gerbil and traefik up whenever it can ... Newt tunnels    *)
(* don't drop": the pangolin phase bounces a running gerbil only for a new *)
(* definition, in the --force-recreate fallback, or when it found gerbil   *)
(* not running after `up`.                                                 *)
TunnelsKeptUp ==
  [][cmd = "pangolin" /\ Running("gerbil") =>
       /\ owed = "none" /\ owed' # "none" =>
            "gerbil" \in outdated \/ at = "force" \/ "gerbil" \in restarts
       /\ "gerbil" \notin restarts' \ restarts]_vars

(* lifecycle.py:46-50: once pangolin is down, nothing shutdown does brings *)
(* it back, also when it repairs gerbil, and also on a second shutdown.    *)
ShutdownKeepsPangolinDown ==
  [][cmd = "shutdown" /\ at # "idle" /\ Down("pangolin") => cont'["pangolin"] # "running"]_vars

(* README "Which restarts need the Newt agents redialed": as long as no    *)
(* apply() was left half-way, a gerbil bounced by restore, shutdown or     *)
(* start is redialled before the command is over, or shutdown has written  *)
(* down that start has to; and so is one recreated by the pangolin phase.  *)
RedialRemembered ==
  ~cut =>
    /\ at = "idle" /\ owed \in {"restore", "shutdown", "start"} => redialPending
    /\ at = "verify" /\ cmd = "pangolin" /\ (forced \/ "gerbil" \in fresh) => owed = "none"

(* README "`config.yml` changed -> pangolin restarted", "Traefik config/cert *)
(* changed -> traefik restarted": after a pangolin phase that ended well the *)
(* containers run what the files say.  Violated: the change is seen only by  *)
(* the run that pushes the file, and that run may fail before the restart.   *)
DoneIsCurrent ==
  at = "idle" /\ ok /\ cmd = "pangolin" => outdated = {} /\ unread = {}

(* README, restore: "the stack restarts and health-gates before the phase is *)
(* marked done".  Violated: the wait for "healthy" accepts "unhealthy", and  *)
(* verify_public_reachable() accepts the maintenance page.                   *)
RestoreIsGated ==
  at = "idle" /\ ok /\ cmd = "restore" => ApiAnswers
=============================================================================

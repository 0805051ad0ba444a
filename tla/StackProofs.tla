---------------------------- MODULE StackProofs ----------------------------
(* Proofs about Stack, for any edits, crashes and failures, and any number *)
(* of them.                                                                *)
EXTENDS Stack, TLAPS

-----------------------------------------------------------------------------
(* The inductive invariant, in parts *)

(* A command is at one of its own steps. *)
Placed ==
  /\ cmd = "pangolin" =>
       at \in {"idle", "cert", "compose", "config", "traefik", "services", "up", "force",
               "rollout", "restart", "rejoin", "health", "redial", "verify"}
  /\ cmd = "restore" =>
       at \in {"idle", "stop", "load", "up pangolin", "health", "up gerbil", "rejoin",
               "record", "redial", "verify"}
  /\ cmd = "shutdown" =>
       at \in {"idle", "up gerbil maintenance", "save", "rejoin", "stop pangolin", "verify"}
  /\ cmd = "start" =>
       at \in {"idle", "up all", "health", "redial", "record", "verify"}

(* Compose creates the containers of the stack together. *)
NoStack ==
  /\ \A s \in Services : cont[s] = "absent"
  /\ outdated = {} /\ unread = {} /\ owed = "none"
  /\ at \in Files \cup {"idle", "services", "up", "up all"}
  /\ before = FALSE

AllExist == \A s \in Services : cont[s] # "absent"

Whole == NoStack \/ AllExist

(* From the step after traefik's recreation on, charmer does not move      *)
(* gerbil any more.                                                        *)
Rejoined ==
  cmd \in {"shutdown", "restore"} /\ at \in {"record", "redial", "stop pangolin", "verify"}
    => stranded # "charmer"

Clean == outdated = {} /\ unread = {}
TraefikDue == IF traefikFiles THEN {"traefik"} ELSE {}

(* What is still to be brought to the containers, step by step. *)
Behind ==
  /\ cmd # "pangolin" \/ at \in {"idle", "cert", "health", "redial", "verify"} => Clean
  /\ cmd = "pangolin" =>
       /\ at \in {"compose", "config", "traefik", "services"} =>
            unread \subseteq TraefikDue \cup (IF pangolinFiles THEN {"pangolin"} ELSE {})
       /\ at = "up" => /\ unread \subseteq TraefikDue
                       /\ ~before => \A s \in Services : cont[s] = "absent"
       /\ at = "rollout" =>
            /\ outdated = {} /\ unread \cap fresh = {}
            /\ unread \subseteq TraefikDue \cup (IF "postgres" \in fresh THEN {"pangolin"} ELSE {})
       /\ at = "restart" =>
            /\ outdated = {}
            /\ unread \subseteq restarts \cup (IF recreateTraefik THEN {"traefik"} ELSE {})
       /\ at = "rejoin" => outdated = {} /\ unread \subseteq {"traefik"}

Carried == ~cut => Behind

(* Who still has to make a redial that is owed. *)
Owing ==
  \/ cmd = "restore"  /\ at \in {"rejoin", "record", "redial"}
  \/ cmd = "shutdown" /\ at = "save"
  \/ cmd = "start"    /\ at \in {"health", "redial"} /\ (at = "health" => bounced)

Redials ==
  /\ owed \in {"restore", "shutdown", "start"} =>
       \/ cmd = owed /\ Owing
       \/ redialPending /\ ~(cmd = "start" /\ at \in {"record", "verify"})
  /\ cmd = "pangolin" /\ "gerbil" \in fresh =>
       /\ at = "restart" => recreateTraefik
       /\ at \in {"rejoin", "health", "redial", "verify"} =>
            recreateTraefik \/ forced \/ owed = "none"
  /\ cmd = "pangolin" /\ at = "verify" /\ (recreateTraefik \/ forced) => owed = "none"

Accounted == ~cut => Redials
-----------------------------------------------------------------------------
(* Types *)

LEMMA TouchType ==
  ASSUME DockerType, cmd \in Commands, NEW S, NEW R, NEW C, Touch(S, R, C)
  PROVE  /\ cont' \in [Services -> {"absent", "created", "running", "restarting", "exited"}]
         /\ outdated' \subseteq Services
         /\ unread' \subseteq {"pangolin", "traefik"}
         /\ stranded' \in {"no", "crash", "charmer"}
         /\ owed' \in Commands \cup {"none"}
<1>1. cont' \in [Services -> {"absent", "created", "running", "restarting", "exited"}]
  BY DEF Touch, DockerType
<1>2. outdated' \subseteq Services /\ unread' \subseteq {"pangolin", "traefik"}
  BY DEF Touch, DockerType
<1>3. stranded' \in {"no", "crash", "charmer"}
  BY DEF Touch, DockerType
<1>4. owed' \in Commands \cup {"none"}
  BY DEF Touch, DockerType
<1> QED
  BY <1>1, <1>2, <1>3, <1>4

LEMMA UpSucceedsType ==
  ASSUME DockerType, cmd \in Commands, NEW S, NEW R, UpSucceeds(S, R)
  PROVE  DockerType'
  BY TouchType DEF UpSucceeds, DockerType

LEMMA UpFailsType ==
  ASSUME DockerType, cmd \in Commands, NEW S, NEW R, UpFails(S, R)
  PROVE  DockerType'
<1>1. CASE UNCHANGED docker
  BY <1>1 DEF DockerType, docker
<1>2. ASSUME NEW S1, NEW R1, NEW C1, Touch(S1, R1, C1), health' \in {"healthy", "unhealthy"}
      PROVE  DockerType'
  BY <1>2, TouchType DEF DockerType
<1> QED
  BY <1>1, <1>2 DEF UpFails

LEMMA DockerStep == TypeOK /\ [Next]_vars => DockerType'
<1> SUFFICES ASSUME TypeOK, [Next]_vars PROVE DockerType'
  OBVIOUS
<1>d. DockerType /\ cmd \in Commands
  BY DEF TypeOK, CommandType
<1>0. CASE UNCHANGED docker
  BY <1>d, <1>0 DEF DockerType, docker
<1>t. ASSUME NEW S, NEW R, NEW C, Touch(S, R, C), health' \in {"starting", "healthy", "unhealthy"}
      PROVE  DockerType'
  BY <1>d, <1>t, TouchType DEF DockerType
<1>h. \A S : HealthAfter(S) \in {"starting", "healthy", "unhealthy"}
  BY <1>d DEF HealthAfter, DockerType
<1>k. health \in {"starting", "healthy", "unhealthy"}
  BY <1>d DEF DockerType
<1>1. CASE PushFile
  <2>1. unread' \subseteq {"pangolin", "traefik"}
    BY <1>d, <1>1 DEF PushFile, DockerType, Readers
  <2>2. outdated' \subseteq Services
    BY <1>d, <1>1 DEF PushFile, DockerType, Existing
  <2> QED
    BY <1>d, <1>1, <2>1, <2>2 DEF PushFile, DockerType
<1>2. CASE ReadServices
  BY <1>0, <1>2, <1>t DEF ReadServices
<1>3. CASE ComposeUp
  BY <1>d, <1>3, UpSucceedsType, UpFailsType DEF ComposeUp
<1>4. CASE ForceRecreate
  BY <1>d, <1>4, UpSucceedsType DEF ForceRecreate
<1>5. CASE RestartService
  BY <1>5, <1>t, <1>h DEF RestartService
<1>6. CASE RecreateTraefik
  BY <1>6, <1>t, <1>k DEF RecreateTraefik
<1>7. CASE RedialAll
  BY <1>d, <1>7 DEF RedialAll, DockerType
<1>8. CASE StopStack \/ StopPangolin
  BY <1>d, <1>8 DEF StopStack, StopPangolin, DockerType
<1>9. CASE UpPangolin \/ UpGerbil \/ UpGerbilMaintenance
  BY <1>9, <1>t, <1>h, <1>k DEF UpPangolin, UpGerbil, UpGerbilMaintenance
<1>10. CASE UpAll
  BY <1>d, <1>10, UpSucceedsType DEF UpAll
<1>11. CASE ApplyRaises
  BY <1>d, <1>0, <1>11, UpFailsType DEF ApplyRaises, StepFails
<1>12. CASE HealthSettles
  BY <1>d, <1>12 DEF HealthSettles, DockerType
<1>13. ASSUME NEW s \in Services, Crash(s) PROVE DockerType'
  BY <1>d, <1>13, StackAssumption DEF Crash, DockerType
<1>14. ASSUME NEW s \in Services, DockerRestarts(s) PROVE DockerType'
  BY <1>d, <1>h, <1>14 DEF DockerRestarts, DockerType
<1>15. CASE Pangolin \/ Restore \/ Shutdown \/ Start \/ EditSite
  BY <1>0, <1>15 DEF Pangolin, Restore, Shutdown, Start, EditSite, Invoke
<1>16. CASE RolloutActions \/ WaitHealthy \/ LoadDump \/ Record \/ SaveRedialPending \/ Die \/ Verify
  BY <1>0, <1>16 DEF RolloutActions, WaitHealthy, LoadDump, Record, SaveRedialPending, Die, Verify
<1>17. CASE UNCHANGED vars
  BY <1>0, <1>17 DEF vars
<1> QED
  BY <1>1, <1>2, <1>3, <1>4, <1>5, <1>6, <1>7, <1>8, <1>9, <1>10, <1>11, <1>12, <1>13, <1>14,
     <1>15, <1>16, <1>17 DEF Next, Rollout, Lifecycle, Restoring

LEMMA CommandStep == TypeOK /\ [Next]_vars => CommandType'
<1> SUFFICES ASSUME TypeOK, [Next]_vars PROVE CommandType'
  OBVIOUS
<1>c. CommandType
  BY DEF TypeOK
<1>g. ASSUME NEW step \in Steps, GoTo(step) \/ GoToCut(step), UNCHANGED <<want, stateFile>>
      PROVE  CommandType'
  BY <1>c, <1>g DEF GoTo, GoToCut, CommandType, stateFile
<1>u. CASE UNCHANGED <<want, stateFile, command>>
  BY <1>c, <1>u DEF CommandType, stateFile, command
<1>i. ASSUME NEW c \in Commands, NEW step \in Steps, Invoke(c, step) PROVE CommandType'
  BY <1>c, <1>i DEF Invoke, CommandType, stateFile
<1>1. CASE Pangolin \/ Restore \/ Shutdown \/ Start
  BY <1>i, <1>1 DEF Pangolin, Restore, Shutdown, Start, Commands, Steps
<1>2. CASE EditSite
  BY <1>c, <1>2, StackAssumption DEF EditSite, CommandType, stateFile, command
<1>3. CASE PushFile
  <2>1. AfterFile(at) \in Steps
    BY <1>3 DEF PushFile, AfterFile, Files, Steps
  <2> QED
    BY <1>c, <1>3, <2>1 DEF PushFile, GoTo, CommandType, stateFile
<1>4. CASE ReadServices
  BY <1>g, <1>4 DEF ReadServices, Steps
<1>5. CASE ComposeUp \/ ForceRecreate
  BY <1>g, <1>5 DEF ComposeUp, ForceRecreate, Steps
<1>6. CASE RolloutActions
  BY <1>g, <1>6 DEF RolloutActions, Steps
<1>7. CASE RestartService
  BY <1>g, <1>7 DEF RestartService, Steps
<1>8. CASE RecreateTraefik \/ WaitHealthy
  BY <1>g, <1>8 DEF RecreateTraefik, WaitHealthy, Steps
<1>10. CASE RedialAll \/ StopStack \/ LoadDump \/ UpPangolin \/ UpGerbil \/ StopPangolin
  BY <1>g, <1>10 DEF RedialAll, StopStack, LoadDump, UpPangolin, UpGerbil, StopPangolin, Steps
<1>11. CASE Record
  BY <1>c, <1>11 DEF Record, GoTo, Steps, CommandType, stateFile
<1>12. CASE SaveRedialPending
  BY <1>c, <1>12 DEF SaveRedialPending, GoTo, Steps, CommandType
<1>13. CASE UpGerbilMaintenance
  <2>1. cut' \in BOOLEAN
    BY <1>c, <1>13 DEF UpGerbilMaintenance, CompareMarkers, CommandType
  <2> QED
    BY <1>c, <1>13, <2>1 DEF UpGerbilMaintenance, AfterUp, Steps, CommandType, stateFile
<1>14. CASE UpAll
  <2>1. cut' \in BOOLEAN
    BY <1>c, <1>14 DEF UpAll, CompareMarkers, CommandType
  <2> QED
    BY <1>c, <1>14, <2>1 DEF UpAll, Steps, CommandType, stateFile
<1>15. CASE ApplyRaises
  BY <1>c, <1>15 DEF ApplyRaises, EndCommand, CommandType, Steps
<1>16. CASE Die
  BY <1>c, <1>16 DEF Die, EndCommand, CommandType, Steps, stateFile
<1>17. CASE Verify
  <2> PICK well \in BOOLEAN :
         /\ shutdown' = IF cmd # "shutdown" THEN shutdown ELSE IF well THEN "done" ELSE "failed"
         /\ EndCommand(well)
    BY <1>17 DEF Verify
  <2>1. ok' \in BOOLEAN /\ at' \in Steps /\ UNCHANGED cmd
    BY DEF EndCommand, Steps
  <2> QED
    BY <1>c, <1>17, <2>1 DEF Verify, CommandType
<1>18. CASE HealthSettles
  BY <1>u, <1>18 DEF HealthSettles
<1>19. CASE \E s \in Services : Crash(s) \/ DockerRestarts(s)
  BY <1>u, <1>19 DEF Crash, DockerRestarts
<1>20. CASE UNCHANGED vars
  BY <1>u, <1>20 DEF vars
<1> QED
  BY <1>1, <1>2, <1>3, <1>4, <1>5, <1>6, <1>7, <1>8, <1>10, <1>11, <1>12, <1>13, <1>14,
     <1>15, <1>16, <1>17, <1>18, <1>19, <1>20 DEF Next, Rollout, Lifecycle, Restoring

LEMMA LocalsStep == TypeOK /\ [Next]_vars => LocalsType'
<1> SUFFICES ASSUME TypeOK, [Next]_vars PROVE LocalsType'
  OBVIOUS
<1>l. LocalsType
  BY DEF TypeOK
<1>u. CASE UNCHANGED locals
  BY <1>l, <1>u DEF LocalsType, locals
<1>e. ASSUME NEW well, EndCommand(well) PROVE LocalsType'
  <2>1. fresh' \subseteq Services /\ restarts' \subseteq Services
    BY <1>e DEF EndCommand
  <2>2. before' \in BOOLEAN /\ pangolinFiles' \in BOOLEAN /\ traefikFiles' \in BOOLEAN
    BY <1>e DEF EndCommand
  <2>3. recreateTraefik' \in BOOLEAN /\ forced' \in BOOLEAN /\ bounced' \in BOOLEAN
    BY <1>e DEF EndCommand
  <2> QED
    BY <2>1, <2>2, <2>3 DEF LocalsType
<1>b. ASSUME NEW started, CompareMarkers(started),
             UNCHANGED <<before, pangolinFiles, traefikFiles, fresh, restarts,
                         recreateTraefik, forced>>
      PROVE  LocalsType'
  <2>1. bounced' \in BOOLEAN
    BY <1>b DEF CompareMarkers
  <2> QED
    BY <1>l, <1>b, <2>1 DEF LocalsType
<1>1. CASE PushFile
  BY <1>l, <1>1 DEF PushFile, LocalsType
<1>2. CASE ReadServices
  <2>1. before' \in BOOLEAN
    BY <1>l, <1>2 DEF ReadServices, LocalsType
  <2> QED
    BY <1>l, <1>2, <2>1 DEF ReadServices, LocalsType
<1>3. CASE ComposeUp
  <2>1. fresh' \subseteq Services
    BY <1>l, <1>3 DEF ComposeUp, UpCreates, LocalsType
  <2> QED
    BY <1>l, <1>3, <2>1 DEF ComposeUp, LocalsType
<1>4. CASE ForceRecreate
  BY <1>l, <1>4 DEF ForceRecreate, LocalsType
<1>5. CASE RolloutActions
  <2>1. Due \subseteq Services
    BY DEF Due, Services
  <2>2. recreateTraefik' \in BOOLEAN
    BY <1>5 DEF RolloutActions
  <2>3. restarts' \subseteq Services
    BY <1>5, <2>1 DEF RolloutActions, Services
  <2> QED
    BY <1>l, <1>5, <2>2, <2>3 DEF RolloutActions, LocalsType
<1>6. CASE RestartService
  <2>1. restarts' \subseteq restarts
    BY <1>6 DEF RestartService
  <2> QED
    BY <1>l, <1>6, <2>1 DEF RestartService, LocalsType
<1>7. CASE UpGerbilMaintenance \/ UpAll
  BY <1>b, <1>7 DEF UpGerbilMaintenance, UpAll
<1>8. CASE ApplyRaises \/ Die \/ Verify
  BY <1>e, <1>8 DEF ApplyRaises, Die, Verify
<1>9. CASE Pangolin \/ Restore \/ Shutdown \/ Start \/ EditSite
  BY <1>u, <1>9 DEF Pangolin, Restore, Shutdown, Start, Invoke, EditSite
<1>10. CASE RecreateTraefik \/ WaitHealthy \/ RedialAll \/ Restoring \/ SaveRedialPending
            \/ StopPangolin
  BY <1>u, <1>10 DEF RecreateTraefik, WaitHealthy, RedialAll, Restoring, StopStack, LoadDump,
                    UpPangolin, UpGerbil, Record, SaveRedialPending, StopPangolin
<1>11. CASE HealthSettles \/ \E s \in Services : Crash(s) \/ DockerRestarts(s)
  BY <1>u, <1>11 DEF HealthSettles, Crash, DockerRestarts
<1>12. CASE UNCHANGED vars
  BY <1>u, <1>12 DEF vars
<1> QED
  BY <1>1, <1>2, <1>3, <1>4, <1>5, <1>6, <1>7, <1>8, <1>9, <1>10, <1>11, <1>12
     DEF Next, Rollout, Lifecycle

LEMMA UpsetsStep == TypeOK /\ [Next]_vars => upsets' \in 0..MaxUpsets
<1> SUFFICES ASSUME TypeOK, [Next]_vars PROVE upsets' \in 0..MaxUpsets
  OBVIOUS
<1>1. UNCHANGED upsets \/ Upset
  BY DEF Next, Pangolin, Restore, Shutdown, Start, Invoke, EditSite, Rollout, PushFile,
         ReadServices, ComposeUp, UpFails, Fault, ForceRecreate, RolloutActions, RestartService,
         RecreateTraefik, WaitHealthy, RedialAll, Lifecycle, UpGerbilMaintenance, CompareMarkers,
         SaveRedialPending, StopPangolin, UpAll, Restoring, StopStack, LoadDump, UpPangolin,
         UpGerbil, Record, ApplyRaises, StepFails, Die, Verify, HealthSettles, Crash,
         DockerRestarts, vars
<1> QED
  BY <1>1, StackAssumption DEF Upset, TypeOK

(* For any edits, crashes and failures, the commands and the containers    *)
(* keep to their types.                                                    *)
THEOREM TypeCorrect == Spec => []TypeOK
<1>1. Init => TypeOK
  <2> SUFFICES ASSUME Init PROVE TypeOK
    OBVIOUS
  <2>1. DockerType
    BY DEF Init, DockerType
  <2>2. CommandType
    BY DEF Init, CommandType, Commands, Steps
  <2>3. LocalsType
    <3>1. fresh \subseteq Services /\ restarts \subseteq Services
      BY DEF Init, NoLocals
    <3>2. before \in BOOLEAN /\ pangolinFiles \in BOOLEAN /\ traefikFiles \in BOOLEAN
      BY DEF Init, NoLocals
    <3>3. recreateTraefik \in BOOLEAN /\ forced \in BOOLEAN /\ bounced \in BOOLEAN
      BY DEF Init, NoLocals
    <3> QED
      BY <3>1, <3>2, <3>3 DEF LocalsType
  <2>4. upsets \in 0..MaxUpsets
    BY StackAssumption DEF Init
  <2> QED
    BY <2>1, <2>2, <2>3, <2>4 DEF TypeOK
<1>2. TypeOK /\ [Next]_vars => TypeOK'
  BY DockerStep, CommandStep, LocalsStep, UpsetsStep DEF TypeOK
<1> QED
  BY <1>1, <1>2, PTL DEF Spec

-----------------------------------------------------------------------------
(* Steps of the commands *)

LEMMA PlacedStep == TypeOK /\ Placed /\ [Next]_vars => Placed'
<1> SUFFICES ASSUME TypeOK, Placed, [Next]_vars PROVE Placed'
  OBVIOUS
<1>c. cmd \in Commands /\ at \in Steps
  BY DEF TypeOK, CommandType
<1>u. CASE UNCHANGED command
  BY <1>u DEF Placed, command
<1>e. ASSUME NEW well, EndCommand(well) PROVE Placed'
  BY <1>e DEF EndCommand, Placed
<1>1. CASE Pangolin \/ Restore \/ Shutdown \/ Start
  BY <1>1 DEF Pangolin, Restore, Shutdown, Start, Invoke, Placed
<1>2. CASE PushFile
  <2>1. cmd = "pangolin" /\ at \in Files
    BY <1>c, <1>2 DEF PushFile, Placed, Files, Commands
  <2>2. AfterFile(at) \in {"compose", "config", "traefik", "services"}
    BY <2>1 DEF AfterFile, Files
  <2> QED
    BY <1>2, <2>1, <2>2 DEF PushFile, GoTo, Placed
<1>3. CASE ReadServices \/ ComposeUp \/ ForceRecreate \/ RolloutActions \/ RestartService
  <2>1. cmd' = "pangolin" /\ at' \in {"up", "rollout", "restart", "rejoin", "health", "force"}
    BY <1>c, <1>3 DEF ReadServices, ComposeUp, ForceRecreate, RolloutActions, RestartService,
                     GoTo, GoToCut, Placed, Commands
  <2> QED
    BY <2>1 DEF Placed
<1>4. CASE RecreateTraefik \/ WaitHealthy \/ RedialAll
  BY <1>c, <1>4 DEF RecreateTraefik, WaitHealthy, RedialAll, GoTo, Placed, Commands
<1>5. CASE Restoring
  BY <1>c, <1>5 DEF Restoring, StopStack, LoadDump, UpPangolin, UpGerbil, Record, GoTo, Placed,
                   Commands
<1>6. CASE UpGerbilMaintenance \/ SaveRedialPending \/ StopPangolin \/ UpAll
  BY <1>c, <1>6 DEF UpGerbilMaintenance, AfterUp, SaveRedialPending, StopPangolin, UpAll, GoTo,
                   Placed, Commands
<1>7. CASE ApplyRaises \/ Die \/ Verify
  BY <1>e, <1>7 DEF ApplyRaises, Die, Verify
<1>8. CASE EditSite \/ HealthSettles \/ \E s \in Services : Crash(s) \/ DockerRestarts(s)
  BY <1>u, <1>8 DEF EditSite, HealthSettles, Crash, DockerRestarts
<1>9. CASE UNCHANGED vars
  BY <1>u, <1>9 DEF vars
<1> QED
  BY <1>1, <1>2, <1>3, <1>4, <1>5, <1>6, <1>7, <1>8, <1>9 DEF Next, Rollout, Lifecycle

LEMMA PlacedInvariant == Spec => []Placed
<1>1. Init => Placed
  BY DEF Init, Placed
<1> QED
  BY <1>1, PlacedStep, TypeCorrect, PTL DEF Spec

(* Only a call that touches gerbil owes a redial. *)
LEMMA OwedByTouch ==
  ASSUME NEW S, NEW R, NEW C, Touch(S, R, C), owed' # owed
  PROVE  "gerbil" \in S \cup C
  BY DEF Touch

(* README "keeps gerbil and traefik up whenever it can": the pangolin phase *)
(* bounces a running gerbil for three reasons only.                         *)
THEOREM TunnelsSurvive == Spec => TunnelsKeptUp
<1> DEFINE Reason == "gerbil" \in outdated \/ at = "force" \/ "gerbil" \in restarts
<1>1. ASSUME TypeOK, [Next]_vars, Running("gerbil"), owed = "none", owed' # "none"
      PROVE  Reason
  <2>t. ASSUME NEW T, "gerbil" \in UpTouches(T) PROVE Reason
    BY <1>1, <2>t DEF UpTouches, Down, Running
  <2>k. ASSUME NEW T, "gerbil" \in UpCreates(T) PROVE Reason
    BY <1>1, <2>k DEF UpCreates, Running
  <2>s. ASSUME NEW T, UpSucceeds(UpTouches(T), UpCreates(T)) PROVE Reason
    BY <1>1, <2>s, <2>t, OwedByTouch DEF UpSucceeds
  <2>f. ASSUME NEW T, UpFails(UpTouches(T), UpCreates(T)) PROVE Reason
    <3>1. UNCHANGED docker \/ "gerbil" \in UpTouches(T) \/ "gerbil" \in UpCreates(T)
      BY <1>1, <2>f, OwedByTouch DEF UpFails
    <3> QED
      BY <1>1, <3>1, <2>t, <2>k DEF docker
  <2>1. CASE ReadServices
    <3>1. Touch({"pangolin"}, {}, {}) \/ UNCHANGED docker
      BY <2>1 DEF ReadServices
    <3> QED
      BY <1>1, <3>1, OwedByTouch DEF docker
  <2>2. CASE ComposeUp
    BY <2>2, <2>s, <2>f DEF ComposeUp
  <2>3. CASE ForceRecreate
    BY <2>3 DEF ForceRecreate
  <2>4. CASE RestartService
    BY <1>1, <2>4, OwedByTouch DEF RestartService
  <2>5. CASE RecreateTraefik
    <3>1. Touch({"traefik"}, {"traefik"}, {})
      BY <2>5 DEF RecreateTraefik
    <3> QED
      BY <1>1, <3>1 DEF Touch
  <2>6. CASE UpPangolin \/ UpGerbil \/ UpGerbilMaintenance
    <3>t. ASSUME NEW T, Touch(UpTouches(T), UpCreates(T), {}) PROVE Reason
      BY <1>1, <2>t, <3>t, OwedByTouch
    <3> QED
      BY <2>6, <3>t DEF UpPangolin, UpGerbil, UpGerbilMaintenance
  <2>7. CASE UpAll
    BY <2>7, <2>s DEF UpAll
  <2>8. CASE ApplyRaises
    BY <1>1, <2>8, <2>f DEF ApplyRaises, StepFails, docker
  <2>9. CASE RedialAll
    BY <1>1, <2>9 DEF RedialAll
  <2> QED
    BY <1>1, <2>1, <2>2, <2>3, <2>4, <2>5, <2>6, <2>7, <2>8, <2>9
       DEF Next, Rollout, Lifecycle, Restoring, Pangolin, Restore, Shutdown, Start, Invoke,
           EditSite, PushFile, RolloutActions, WaitHealthy, StopStack, LoadDump, Record,
           SaveRedialPending, StopPangolin, Die, Verify, HealthSettles, Crash, DockerRestarts,
           docker, vars
<1>2. ASSUME [Next]_vars, Running("gerbil"), "gerbil" \in restarts' PROVE "gerbil" \in restarts
  <2>1. CASE RolloutActions
    BY <1>2, <2>1 DEF RolloutActions, Due, Broken, Running
  <2>2. CASE RestartService
    BY <1>2, <2>2 DEF RestartService
  <2>3. CASE ApplyRaises \/ Die \/ Verify
    <3>1. restarts' = {}
      BY <2>3 DEF ApplyRaises, Die, Verify, EndCommand
    <3> QED
      BY <1>2, <3>1
  <2> QED
    BY <1>2, <2>1, <2>2, <2>3
       DEF Next, Rollout, Lifecycle, Restoring, Pangolin, Restore, Shutdown, Start, Invoke,
           EditSite, PushFile, ReadServices, ComposeUp, ForceRecreate, RecreateTraefik,
           WaitHealthy, RedialAll, StopStack, LoadDump, UpPangolin, UpGerbil, Record,
           UpGerbilMaintenance, SaveRedialPending, StopPangolin, UpAll, HealthSettles, Crash,
           DockerRestarts, locals, vars
<1>3. TypeOK /\ [Next]_vars =>
        [cmd = "pangolin" /\ Running("gerbil") =>
           /\ owed = "none" /\ owed' # "none" => Reason
           /\ "gerbil" \notin restarts' \ restarts]_vars
  BY <1>1, <1>2
<1> QED
  BY <1>3, TypeCorrect, PTL DEF Spec, TunnelsKeptUp

(* lifecycle.py:46-50: with pangolin down, no step of a shutdown starts it. *)
THEOREM PangolinStaysDown == Spec => ShutdownKeepsPangolinDown
<1>1. ASSUME TypeOK, Placed, [Next]_vars, cmd = "shutdown", at # "idle", Down("pangolin")
      PROVE  cont'["pangolin"] # "running"
  <2>a. at \in {"up gerbil maintenance", "save", "rejoin", "stop pangolin", "verify"}
    BY <1>1 DEF Placed
  <2>c. cont \in [Services -> {"absent", "created", "running", "restarting", "exited"}]
    BY <1>1 DEF TypeOK, DockerType
  <2>u. CASE UNCHANGED cont
    BY <1>1, <2>u DEF Down
  <2>t. ASSUME NEW S, NEW R, NEW C, Touch(S, R, C), "pangolin" \notin S
        PROVE  cont'["pangolin"] # "running"
    BY <1>1, <2>t DEF Touch, Down, Services
  <2>1. CASE RecreateTraefik
    BY <2>1, <2>t DEF RecreateTraefik
  <2>2. CASE UpGerbilMaintenance
    BY <2>2, <2>t DEF UpGerbilMaintenance, UpTouches
  <2>3. CASE StopPangolin
    BY <2>3, <2>c DEF StopPangolin, Services
  <2>4. CASE ApplyRaises
    BY <2>a, <2>u, <2>4 DEF ApplyRaises, StepFails, docker
  <2>5. ASSUME NEW s \in Services, Crash(s) PROVE cont'["pangolin"] # "running"
    BY <1>1, <2>5, <2>c, StackAssumption DEF Crash, Down, Services, Running
  <2>6. ASSUME NEW s \in Services, DockerRestarts(s) PROVE cont'["pangolin"] # "running"
    BY <1>1, <2>6, <2>c DEF DockerRestarts, Down, Services
  <2>7. CASE HealthSettles \/ SaveRedialPending \/ Die \/ Verify \/ UNCHANGED vars
    BY <2>u, <2>7 DEF HealthSettles, SaveRedialPending, Die, Verify, docker, vars
  <2>8. at \notin Files
    BY <2>a DEF Files
  <2> QED
    BY <1>1, <2>a, <2>1, <2>2, <2>3, <2>4, <2>5, <2>6, <2>7, <2>8
       DEF Next, Rollout, Lifecycle, Restoring, Pangolin, Restore, Shutdown, Start, Invoke,
           EditSite, PushFile, ReadServices, ComposeUp, ForceRecreate, RolloutActions,
           RestartService, WaitHealthy, RedialAll, StopStack, LoadDump, UpPangolin, UpGerbil,
           Record, UpAll
<1>2. TypeOK /\ Placed /\ [Next]_vars =>
        [cmd = "shutdown" /\ at # "idle" /\ Down("pangolin") => cont'["pangolin"] # "running"]_vars
  BY <1>1
<1> QED
  BY <1>2, TypeCorrect, PlacedInvariant, PTL DEF Spec, ShutdownKeepsPangolinDown

-----------------------------------------------------------------------------
(* Traefik and gerbil *)

LEMMA RejoinedStep == TypeOK /\ Placed /\ Rejoined /\ [Next]_vars => Rejoined'
<1> SUFFICES ASSUME TypeOK, Placed, Rejoined, [Next]_vars PROVE Rejoined'
  OBVIOUS
<1> DEFINE After == {"record", "redial", "stop pangolin", "verify"}
<1>c. cmd \in Commands
  BY DEF TypeOK, CommandType
<1>u. CASE UNCHANGED <<cmd, at, stranded>>
  BY <1>u DEF Rejoined
<1>e. CASE at' \notin After
  BY <1>e DEF Rejoined
<1>n. CASE stranded' = "no" \/ cmd' \in {"pangolin", "start"}
  BY <1>n DEF Rejoined
<1>a. CASE cmd' = cmd /\ at \in After /\ stranded' = stranded
  BY <1>a DEF Rejoined
<1>1. CASE Pangolin \/ Restore \/ Shutdown \/ Start
  BY <1>e, <1>1 DEF Pangolin, Restore, Shutdown, Start, Invoke
<1>2. CASE PushFile \/ ReadServices \/ ComposeUp \/ ForceRecreate \/ RolloutActions
           \/ RestartService
  <2>1. cmd = "pangolin"
    BY <1>c, <1>2 DEF PushFile, ReadServices, ComposeUp, ForceRecreate, RolloutActions,
                     RestartService, Files, Placed, Commands
  <2>2. cmd' = cmd
    BY <1>2 DEF PushFile, ReadServices, ComposeUp, ForceRecreate, RolloutActions,
                RestartService, GoTo, GoToCut
  <2> QED
    BY <1>n, <2>1, <2>2
<1>3. CASE RecreateTraefik
  <2>1. Touch({"traefik"}, {"traefik"}, {})
    BY <1>3 DEF RecreateTraefik
  <2>2. stranded' = "no"
    BY <2>1 DEF Touch
  <2> QED
    BY <1>n, <2>2
<1>4. CASE WaitHealthy
  BY <1>n, <1>e, <1>4 DEF WaitHealthy, GoTo
<1>5. CASE RedialAll \/ Record \/ StopPangolin
  BY <1>a, <1>5 DEF RedialAll, Record, StopPangolin, GoTo, docker
<1>6. CASE StopStack \/ LoadDump \/ UpPangolin \/ UpGerbil \/ UpGerbilMaintenance
           \/ SaveRedialPending \/ UpAll
  BY <1>e, <1>6 DEF StopStack, LoadDump, UpPangolin, UpGerbil, UpGerbilMaintenance, AfterUp,
                   SaveRedialPending, UpAll, GoTo
<1>7. CASE ApplyRaises \/ Die \/ Verify
  BY <1>e, <1>7 DEF ApplyRaises, Die, Verify, EndCommand
<1>8. CASE EditSite \/ HealthSettles \/ UNCHANGED vars
  BY <1>u, <1>8 DEF EditSite, HealthSettles, docker, command, vars
<1>9. ASSUME NEW s \in Services, Crash(s) \/ DockerRestarts(s) PROVE Rejoined'
  <2>1. UNCHANGED <<cmd, at>>
    BY <1>9 DEF Crash, DockerRestarts, command
  <2>2. stranded' \in {stranded, "no", "crash"}
    BY <1>9 DEF Crash, DockerRestarts
  <2> QED
    BY <2>1, <2>2 DEF Rejoined
<1> QED
  BY <1>1, <1>2, <1>3, <1>4, <1>5, <1>6, <1>7, <1>8, <1>9 DEF Next, Rollout, Lifecycle, Restoring

(* lifecycle.py:81-90, restore_phase.py:279-283: whatever was interrupted   *)
(* before, a shutdown or restore at verify has traefik with gerbil.         *)
THEOREM TraefikIsRejoined == Spec => []TraefikFollowsGerbil
<1>1. Init => Rejoined
  BY DEF Init, Rejoined
<1>2. Rejoined => TraefikFollowsGerbil
  BY DEF Rejoined, TraefikFollowsGerbil
<1> QED
  BY <1>1, <1>2, RejoinedStep, PlacedInvariant, TypeCorrect, PTL DEF Spec

-----------------------------------------------------------------------------
(* The stack is there as a whole, or not at all *)

LEMMA TouchKeepsExisting ==
  ASSUME AllExist, NEW S, NEW R, NEW C, Touch(S, R, C) PROVE AllExist'
  BY DEF AllExist, Touch

(* Of no stack, `up` leaves the whole one. *)
LEMMA UpOfNothing ==
  ASSUME NoStack
  PROVE  UpTouches(Services) = Services /\ UpCreates(Services) = Services
  BY DEF NoStack, UpTouches, UpCreates, Down

LEMMA UpSucceedsCreatesAll ==
  ASSUME NEW R, UpSucceeds(Services, R) PROVE AllExist'
  BY DEF UpSucceeds, Touch, AllExist

LEMMA UpFailsCreatesAll ==
  ASSUME UpFails(Services, Services), ~UNCHANGED docker PROVE AllExist'
<1> DEFINE late == {"gerbil", "traefik"}
<1>1. CASE Touch(Services \ late, Services \ late, Services \cap late)
  BY <1>1 DEF Touch, AllExist
<1>2. CASE Touch(Services \ {"traefik"}, Services \ {"traefik"}, Services \cap {"traefik"})
  BY <1>2 DEF Touch, AllExist
<1> QED
  BY <1>1, <1>2 DEF UpFails

LEMMA ExistingStay == TypeOK /\ AllExist /\ [Next]_vars => AllExist'
<1> SUFFICES ASSUME TypeOK, AllExist, [Next]_vars PROVE AllExist'
  OBVIOUS
<1>c. cont \in [Services -> {"absent", "created", "running", "restarting", "exited"}]
  BY DEF TypeOK, DockerType
<1>u. CASE UNCHANGED cont
  BY <1>u DEF AllExist
<1>d. CASE UNCHANGED docker
  BY <1>d DEF AllExist, docker
<1>s. ASSUME NEW S, NEW R, UpSucceeds(S, R) PROVE AllExist'
  BY <1>s, TouchKeepsExisting DEF UpSucceeds
<1>f. ASSUME NEW S, NEW R, UpFails(S, R) PROVE AllExist'
  BY <1>f, <1>d, TouchKeepsExisting DEF UpFails
<1>1. CASE PushFile \/ RolloutActions \/ WaitHealthy \/ RedialAll \/ LoadDump \/ Record
           \/ SaveRedialPending \/ Die \/ Verify \/ HealthSettles \/ UNCHANGED vars
  BY <1>u, <1>1 DEF PushFile, RolloutActions, WaitHealthy, RedialAll, LoadDump, Record,
                   SaveRedialPending, Die, Verify, HealthSettles, docker, vars
<1>2. CASE Pangolin \/ Restore \/ Shutdown \/ Start \/ EditSite
  BY <1>d, <1>2 DEF Pangolin, Restore, Shutdown, Start, Invoke, EditSite
<1>3. CASE ReadServices
  <2>1. Touch({"pangolin"}, {}, {}) \/ UNCHANGED docker
    BY <1>3 DEF ReadServices
  <2> QED
    BY <1>d, <2>1, TouchKeepsExisting
<1>4. CASE ComposeUp \/ ForceRecreate \/ UpAll
  BY <1>s, <1>f, <1>4 DEF ComposeUp, ForceRecreate, UpAll
<1>5. CASE RestartService
  BY <1>5, TouchKeepsExisting DEF RestartService
<1>6. CASE RecreateTraefik
  BY <1>6, TouchKeepsExisting DEF RecreateTraefik
<1>7. CASE UpPangolin
  BY <1>7, TouchKeepsExisting DEF UpPangolin
<1>8. CASE UpGerbil \/ UpGerbilMaintenance
  BY <1>8, TouchKeepsExisting DEF UpGerbil, UpGerbilMaintenance
<1>9. CASE StopStack \/ StopPangolin
  BY <1>c, <1>9 DEF StopStack, StopPangolin, AllExist
<1>10. CASE ApplyRaises
  BY <1>d, <1>f, <1>10 DEF ApplyRaises, StepFails
<1>11. ASSUME NEW s \in Services, Crash(s) PROVE AllExist'
  BY <1>c, <1>11, StackAssumption DEF Crash, AllExist
<1>12. ASSUME NEW s \in Services, DockerRestarts(s) PROVE AllExist'
  BY <1>c, <1>12 DEF DockerRestarts, AllExist
<1> QED
  BY <1>1, <1>2, <1>3, <1>4, <1>5, <1>6, <1>7, <1>8, <1>9, <1>10, <1>11, <1>12
     DEF Next, Rollout, Lifecycle, Restoring

LEMMA NoStackStep == TypeOK /\ NoStack /\ [Next]_vars => NoStack' \/ AllExist'
<1> SUFFICES ASSUME TypeOK, NoStack, [Next]_vars PROVE NoStack' \/ AllExist'
  OBVIOUS
<1>x. Existing = {} /\ \A s \in Services : cont[s] = "absent"
  BY DEF NoStack, Existing
<1>a. at \in {"cert", "compose", "config", "traefik", "idle", "services", "up", "up all"}
  BY DEF NoStack, Files
<1>n. ASSUME UNCHANGED docker, before' = FALSE,
             at' \in {"cert", "compose", "config", "traefik", "idle", "services", "up", "up all"}
      PROVE  NoStack'
  BY <1>n DEF NoStack, docker, Files
<1>b. before = FALSE
  BY DEF NoStack
<1>1. CASE Pangolin \/ Restore \/ Shutdown \/ Start
  BY <1>n, <1>b, <1>x, <1>1 DEF Pangolin, Restore, Shutdown, Start, Invoke, locals
<1>2. CASE EditSite \/ UNCHANGED vars
  BY <1>a, <1>b, <1>n, <1>2 DEF EditSite, command, locals, vars
<1>3. CASE PushFile
  <2>1. outdated' = {}
    BY <1>x, <1>3 DEF PushFile, NoStack
  <2>2. unread' = {}
    BY <1>x, <1>3 DEF PushFile, NoStack
  <2>3. at' \in {"compose", "config", "traefik", "services"}
    BY <1>3 DEF PushFile, AfterFile, Files, GoTo
  <2>4. UNCHANGED docker
    BY <1>3, <2>1, <2>2 DEF PushFile, NoStack, docker
  <2>5. UNCHANGED before
    BY <1>3 DEF PushFile
  <2> QED
    BY <1>n, <1>b, <2>3, <2>4, <2>5
<1>4. CASE ReadServices
  <2>1. ~RestartPangolinFirst
    BY <1>x DEF RestartPangolinFirst, Services
  <2>2. UNCHANGED docker /\ before' = FALSE /\ at' = "up"
    BY <1>b, <1>x, <1>4, <2>1 DEF ReadServices, GoTo, GoToCut
  <2> QED
    BY <1>n, <2>2
<1>5. CASE ComposeUp \/ UpAll
  BY <1>b, <1>5, UpOfNothing, UpSucceedsCreatesAll DEF ComposeUp, UpAll
<1>6. CASE ApplyRaises
  <2>1. before' = FALSE /\ at' = "idle"
    BY <1>6 DEF ApplyRaises, EndCommand
  <2>2. UNCHANGED docker \/ UpFails(Services, Services)
    BY <1>6, <1>a, UpOfNothing DEF ApplyRaises, StepFails
  <2> QED
    BY <1>n, <2>1, <2>2, UpFailsCreatesAll
<1>7. CASE Die
  BY <1>n, <1>7 DEF Die, EndCommand
<1>8. ~HealthSettles /\ \A s \in Services : ~Crash(s) /\ ~DockerRestarts(s)
  BY <1>x DEF HealthSettles, Crash, DockerRestarts, Running, Services
<1> QED
  BY <1>a, <1>1, <1>2, <1>3, <1>4, <1>5, <1>6, <1>7, <1>8
     DEF Next, Rollout, Lifecycle, Restoring, ForceRecreate, RolloutActions, RestartService,
         RecreateTraefik, WaitHealthy, RedialAll, StopStack, LoadDump, UpPangolin, UpGerbil,
         Record, UpGerbilMaintenance, SaveRedialPending, StopPangolin, Verify

LEMMA WholeInvariant == Spec => []Whole
<1>1. Init => Whole
  BY DEF Init, Whole, NoStack, NoLocals, Files
<1>2. TypeOK /\ Whole /\ [Next]_vars => Whole'
  BY NoStackStep, ExistingStay DEF Whole
<1> QED
  BY <1>1, <1>2, TypeCorrect, PTL DEF Spec

-----------------------------------------------------------------------------
(* What a rollout brings to the containers *)

LEMMA CutStays == TypeOK /\ [Next]_vars /\ ~cut' => ~cut
  BY DEF Next, Pangolin, Restore, Shutdown, Start, Invoke, EditSite, Rollout, PushFile,
         ReadServices, ComposeUp, ForceRecreate, RolloutActions, RestartService, RecreateTraefik,
         WaitHealthy, RedialAll, Lifecycle, UpGerbilMaintenance, CompareMarkers,
         SaveRedialPending, StopPangolin, UpAll, Restoring, StopStack, LoadDump, UpPangolin,
         UpGerbil, Record, ApplyRaises, Die, Verify, HealthSettles, Crash, DockerRestarts, GoTo,
         GoToCut, command, vars

(* A call leaves nothing behind of a clean stack, and nothing of no stack. *)
LEMMA CleanStays ==
  ASSUME DockerType, Clean, Whole, NEW T, NEW S, Touch(S, UpCreates(T), {})
  PROVE  Clean'
<1>1. outdated' = {}
  BY DEF Touch, Clean
<1>2. CASE "postgres" \in UpCreates(T)
  <2>1. "postgres" \in Services /\ cont["postgres"] = "absent"
    BY <1>2 DEF UpCreates, Clean, Services
  <2>2. Existing = {}
    BY <2>1 DEF Whole, AllExist, NoStack, Existing
  <2> QED
    BY <1>1, <2>2 DEF Touch, Clean
<1>3. CASE "postgres" \notin UpCreates(T)
  BY <1>1, <1>3 DEF Touch, Clean
<1> QED
  BY <1>2, <1>3

LEMMA CarriedStep == TypeOK /\ Placed /\ Whole /\ Carried /\ [Next]_vars => Carried'
<1> SUFFICES ASSUME TypeOK, Placed, Whole, Carried, [Next]_vars, ~cut' PROVE Behind'
  BY DEF Carried
<1>b. Behind
  BY CutStays DEF Carried
<1>t. DockerType /\ cmd \in Commands
  BY DEF TypeOK, CommandType
<1>y. LocalsType
  BY DEF TypeOK
<1>c. ASSUME Clean', cmd' # "pangolin" \/ at' \in {"idle", "cert", "health", "redial", "verify"}
      PROVE  Behind'
  BY <1>c DEF Behind
<1>d. ASSUME Clean, UNCHANGED <<outdated, unread>> PROVE Clean'
  BY <1>d DEF Clean
<1>o. cmd # "pangolin" => Clean
  BY <1>b DEF Behind
<1>1. CASE Pangolin \/ Restore \/ Shutdown \/ Start
  <2>1. at = "idle" /\ UNCHANGED docker /\ (cmd' # "pangolin" \/ at' = "cert")
    BY <1>1 DEF Pangolin, Restore, Shutdown, Start, Invoke
  <2>2. Clean
    BY <1>b, <2>1 DEF Behind
  <2> QED
    BY <1>c, <1>d, <2>1, <2>2 DEF docker
<1>2. CASE EditSite \/ UNCHANGED vars
  BY <1>b, <1>2 DEF EditSite, docker, command, locals, vars, Behind, Clean, TraefikDue
<1>3. CASE PushFile
  <2>1. cmd = "pangolin" /\ cmd' = "pangolin" /\ at \in Files
    BY <1>t, <1>3 DEF PushFile, GoTo, Placed, Files, Commands
  <2>2. at' \in {"compose", "config", "traefik", "services"}
    BY <1>3 DEF PushFile, AfterFile, Files, GoTo
  <2>3. unread \subseteq TraefikDue \cup (IF pangolinFiles THEN {"pangolin"} ELSE {})
    BY <1>b, <2>1 DEF Behind, Clean, Files
  <2>4. unread' \subseteq unread \cup (IF at \in want THEN Readers(at) ELSE {})
    BY <1>3 DEF PushFile
  <2>5. unread' \subseteq TraefikDue' \cup (IF pangolinFiles' THEN {"pangolin"} ELSE {})
    BY <1>3, <2>3, <2>4 DEF PushFile, Readers, TraefikDue
  <2> QED
    BY <2>1, <2>2, <2>5 DEF Behind
<1>4. CASE ReadServices
  <2>1. cmd = "pangolin" /\ cmd' = "pangolin" /\ at = "services" /\ at' = "up"
    BY <1>t, <1>4 DEF ReadServices, GoTo, GoToCut, Placed, Commands
  <2>2. unread \subseteq TraefikDue \cup (IF pangolinFiles THEN {"pangolin"} ELSE {})
    BY <1>b, <2>1 DEF Behind
  <2>3. /\ before' = IF Existing = {} THEN FALSE ELSE TRUE
        /\ IF RestartPangolinFirst THEN Touch({"pangolin"}, {}, {}) ELSE UNCHANGED docker
    BY <1>4 DEF ReadServices, GoToCut
  <2>4. UNCHANGED traefikFiles
    BY <1>4 DEF ReadServices
  <2>5. CASE RestartPangolinFirst
    <3>1. unread' \subseteq TraefikDue'
      BY <2>2, <2>3, <2>4, <2>5 DEF Touch, TraefikDue
    <3>2. before' = TRUE
      BY <2>3, <2>5 DEF RestartPangolinFirst, Existing, Services
    <3> QED
      BY <2>1, <3>1, <3>2 DEF Behind
  <2>6. CASE ~RestartPangolinFirst
    <3>1. UNCHANGED docker
      BY <2>3, <2>6
    <3>2. cont["pangolin"] = "absent" \/ ~pangolinFiles
      BY <2>6 DEF RestartPangolinFirst
    <3>3. unread \subseteq TraefikDue
      BY <2>2, <3>2 DEF Whole, NoStack, AllExist, Services
    <3>4. ~before' => \A s \in Services : cont'[s] = "absent"
      BY <2>3, <3>1 DEF Existing, docker
    <3> QED
      BY <2>1, <2>4, <3>1, <3>3, <3>4 DEF Behind, TraefikDue, docker
  <2> QED
    BY <2>5, <2>6
<1>5. CASE ComposeUp
  <2> DEFINE S == UpTouches(Services)
             R == UpCreates(Services)
  <2>1. cmd = "pangolin" /\ cmd' = "pangolin" /\ at = "up"
    BY <1>t, <1>5 DEF ComposeUp, GoTo, Placed, Commands
  <2>2. unread \subseteq TraefikDue /\ (~before => \A s \in Services : cont[s] = "absent")
    BY <1>b, <2>1 DEF Behind
  <2>3. CASE at' = "force"
    BY <2>1, <2>3 DEF Behind
  <2>4. CASE Touch(S, R, {}) /\ fresh' = R /\ at' = IF before THEN "rollout" ELSE "health"
    <3>1. outdated' = {}
      BY <1>t, <2>4 DEF Touch, UpCreates, DockerType
    <3>2. unread' \cap S = {}
      BY <2>4 DEF Touch
    <3>3. R \subseteq S
      BY DEF UpCreates, UpTouches, Down
    <3>4. CASE before
      <4>1. unread' \subseteq TraefikDue \cup (IF "postgres" \in R THEN {"pangolin"} ELSE {})
        BY <2>2, <2>4 DEF Touch
      <4>2. UNCHANGED traefikFiles
        BY <1>5 DEF ComposeUp
      <4>3. unread' \cap fresh' = {}
        BY <2>4, <3>2, <3>3
      <4>4. unread' \subseteq TraefikDue' \cup (IF "postgres" \in fresh' THEN {"pangolin"} ELSE {})
        BY <2>4, <4>1, <4>2 DEF TraefikDue
      <4>5. at' = "rollout"
        BY <2>4, <3>4
      <4> QED
        BY <2>1, <3>1, <4>3, <4>4, <4>5 DEF Behind
    <3>5. CASE ~before
      <4>1. S = Services
        BY <2>2, <3>5 DEF UpTouches, Down
      <4>2. unread' = {}
        BY <1>t, <2>4, <4>1 DEF Touch, DockerType, Services
      <4> QED
        BY <1>c, <2>4, <3>1, <3>5, <4>2 DEF Clean
    <3> QED
      BY <3>4, <3>5
  <2> QED
    BY <1>5, <2>3, <2>4 DEF ComposeUp, UpSucceeds, GoTo
<1>6. CASE ForceRecreate
  <2>1. Touch(Services, Services, {}) /\ at' = "health"
    BY <1>6 DEF ForceRecreate, UpSucceeds, GoTo
  <2>2. outdated' = {}
    BY <1>t, <2>1 DEF Touch, DockerType
  <2>3. unread' = {}
    BY <1>t, <2>1 DEF Touch, DockerType, Services
  <2> QED
    BY <1>c, <2>1, <2>2, <2>3 DEF Clean
<1>7. CASE RolloutActions
  <2>1. cmd = "pangolin" /\ cmd' = "pangolin" /\ at = "rollout"
    BY <1>t, <1>7 DEF RolloutActions, GoTo, GoToCut, Placed, Commands
  <2>2. /\ outdated = {} /\ unread \cap fresh = {}
        /\ unread \subseteq TraefikDue \cup (IF "postgres" \in fresh THEN {"pangolin"} ELSE {})
    BY <1>b, <2>1 DEF Behind
  <2> DEFINE renew == "gerbil" \in fresh \cup Due
             left  == IF renew THEN Due \ {"traefik"} ELSE Due
  <2>3. /\ at' = IF left # {} THEN "restart" ELSE IF renew THEN "rejoin" ELSE "health"
        /\ restarts' = left /\ recreateTraefik' = IF renew THEN TRUE ELSE FALSE
        /\ UNCHANGED docker
    BY <1>7 DEF RolloutActions, GoTo, GoToCut
  <2>4. unread \subseteq Due
    BY <2>2 DEF Due, TraefikDue
  <2>5. unread' \subseteq left \cup (IF renew THEN {"traefik"} ELSE {}) /\ outdated' = {}
    BY <2>2, <2>3, <2>4 DEF docker
  <2> HIDE DEF renew, left
  <2>6. CASE left # {}
    BY <2>1, <2>3, <2>5, <2>6 DEF Behind
  <2>7. CASE left = {} /\ renew
    BY <2>1, <2>3, <2>5, <2>7 DEF Behind
  <2>8. CASE left = {} /\ ~renew
    BY <1>c, <2>3, <2>5, <2>8 DEF Clean
  <2> QED
    BY <2>6, <2>7, <2>8
<1>8. CASE RestartService
  <2>1. at = "restart" /\ cmd = "pangolin" /\ cmd' = "pangolin" /\ UNCHANGED recreateTraefik
    BY <1>t, <1>8 DEF RestartService, GoTo, Placed, Commands, LocalsType
  <2>2. /\ outdated = {}
        /\ unread \subseteq restarts \cup (IF recreateTraefik THEN {"traefik"} ELSE {})
    BY <1>b, <2>1 DEF Behind
  <2>3. PICK s \in restarts : Touch({s}, {}, {}) /\ restarts' = restarts \ {s}
    BY <1>8 DEF RestartService
  <2>4. outdated' = {}
    BY <2>2, <2>3 DEF Touch
  <2>5. unread' \subseteq restarts' \cup (IF recreateTraefik THEN {"traefik"} ELSE {})
    BY <2>2, <2>3 DEF Touch
  <2>6. at' = IF restarts' # {} THEN "restart" ELSE IF recreateTraefik THEN "rejoin" ELSE "health"
    BY <1>8 DEF RestartService, GoTo
  <2>7. CASE restarts' # {}
    BY <2>1, <2>4, <2>5, <2>6, <2>7 DEF Behind
  <2>8. CASE restarts' = {} /\ recreateTraefik
    BY <2>1, <2>4, <2>5, <2>6, <2>8 DEF Behind
  <2>9. CASE restarts' = {} /\ ~recreateTraefik
    BY <1>c, <2>4, <2>5, <2>6, <2>9 DEF Clean
  <2> QED
    BY <2>7, <2>8, <2>9
<1>9. CASE RecreateTraefik
  <2>1. Touch({"traefik"}, {"traefik"}, {}) /\ at = "rejoin" /\ cmd' = cmd
    BY <1>9 DEF RecreateTraefik, GoTo
  <2>2. cmd = "pangolin" => at' = "health"
    BY <1>9 DEF RecreateTraefik, GoTo
  <2>3. outdated = {} /\ unread \subseteq {"traefik"}
    BY <1>b, <2>1 DEF Behind, Clean
  <2>4. Clean'
    BY <2>1, <2>3 DEF Touch, Clean
  <2> QED
    BY <1>c, <2>1, <2>2, <2>4
<1>10. CASE WaitHealthy \/ RedialAll
  <2>1. Clean
    BY <1>b, <1>10 DEF WaitHealthy, RedialAll, Behind
  <2>2. cmd' = cmd /\ (cmd = "pangolin" => at' \in {"redial", "verify"})
    BY <1>10 DEF WaitHealthy, RedialAll, GoTo
  <2>3. UNCHANGED <<outdated, unread>>
    BY <1>10 DEF WaitHealthy, RedialAll, docker
  <2> QED
    BY <1>c, <1>d, <2>1, <2>2, <2>3
<1>11. CASE StopStack \/ LoadDump \/ Record \/ SaveRedialPending \/ StopPangolin
  <2>1. cmd' = cmd /\ cmd # "pangolin"
    BY <1>t, <1>11 DEF StopStack, LoadDump, Record, SaveRedialPending, StopPangolin, GoTo, Placed
  <2>2. UNCHANGED <<outdated, unread>>
    BY <1>11 DEF StopStack, LoadDump, Record, SaveRedialPending, StopPangolin, docker
  <2> QED
    BY <1>c, <1>d, <1>o, <2>1, <2>2
<1>12. ASSUME NEW T, NEW S, Touch(S, UpCreates(T), {}), cmd' = cmd, cmd # "pangolin"
       PROVE  Behind'
  BY <1>c, <1>o, <1>t, <1>12, CleanStays
<1>13. CASE UpPangolin
  <2>1. cmd' = cmd /\ cmd # "pangolin"
    BY <1>13 DEF UpPangolin, GoTo, Placed
  <2> QED
    BY <1>12, <1>13, <2>1 DEF UpPangolin
<1>14. CASE UpGerbil
  <2>1. cmd' = cmd /\ cmd # "pangolin"
    BY <1>14 DEF UpGerbil, GoTo, Placed
  <2> QED
    BY <1>12, <1>14, <2>1 DEF UpGerbil
<1>15. CASE UpGerbilMaintenance
  <2>1. cmd' = cmd /\ cmd # "pangolin"
    BY <1>15 DEF UpGerbilMaintenance, Placed
  <2> QED
    BY <1>12, <1>15, <2>1 DEF UpGerbilMaintenance
<1>16. CASE UpAll
  <2>1. cmd' = cmd /\ cmd # "pangolin"
    BY <1>16 DEF UpAll, Placed
  <2> QED
    BY <1>12, <1>16, <2>1 DEF UpAll, UpSucceeds
<1>17. CASE ApplyRaises \/ Die
  BY <1>17 DEF ApplyRaises, Die
<1>18. CASE Verify
  <2>1. at = "verify" /\ at' = "idle" /\ UNCHANGED docker
    BY <1>18 DEF Verify, EndCommand
  <2>2. Clean
    BY <1>b, <2>1 DEF Behind
  <2> QED
    BY <1>c, <1>d, <2>1, <2>2 DEF docker
<1>19. CASE HealthSettles \/ \E s \in Services : Crash(s) \/ DockerRestarts(s)
  <2>1. UNCHANGED <<command, locals, outdated>> /\ unread' \subseteq unread
    BY <1>19 DEF HealthSettles, Crash, DockerRestarts
  <2>2. (\A s \in Services : cont[s] = "absent") => \A s \in Services : cont'[s] = "absent"
    BY <1>19 DEF HealthSettles, Crash, DockerRestarts, Running, Services
  <2>3. Clean => Clean'
    BY <2>1 DEF Clean
  <2>4. UNCHANGED <<cmd, at, before, pangolinFiles, traefikFiles, fresh, restarts, recreateTraefik>>
    BY <2>1 DEF command, locals
  <2>5. CASE cmd # "pangolin" \/ at \in {"idle", "cert", "health", "redial", "verify"}
    BY <1>b, <1>c, <2>3, <2>4, <2>5 DEF Behind
  <2>6. CASE ~(cmd # "pangolin" \/ at \in {"idle", "cert", "health", "redial", "verify"})
    <3>1. CASE at \in {"compose", "config", "traefik", "services"}
      BY <1>b, <2>1, <2>4, <2>6, <3>1 DEF Behind, TraefikDue
    <3>2. CASE at = "up"
      BY <1>b, <2>1, <2>2, <2>4, <2>6, <3>2 DEF Behind, TraefikDue
    <3>3. CASE at = "rollout"
      BY <1>b, <2>1, <2>4, <2>6, <3>3 DEF Behind, TraefikDue
    <3>4. CASE at \in {"restart", "rejoin"}
      BY <1>b, <2>1, <2>4, <2>6, <3>4 DEF Behind
    <3>5. CASE at = "force"
      BY <2>4, <2>6, <3>5 DEF Behind
    <3> QED
      BY <2>6, <3>1, <3>2, <3>3, <3>4, <3>5 DEF Placed
  <2> QED
    BY <2>5, <2>6
<1> QED
  BY <1>1, <1>2, <1>3, <1>4, <1>5, <1>6, <1>7, <1>8, <1>9, <1>10, <1>11, <1>13, <1>14, <1>15,
     <1>16, <1>17, <1>18, <1>19 DEF Next, Rollout, Lifecycle, Restoring

LEMMA CarriedInvariant == Spec => []Carried
<1>1. Init => Carried
  BY DEF Init, Carried, Behind, Clean
<1> QED
  BY <1>1, CarriedStep, PlacedInvariant, WholeInvariant, TypeCorrect, PTL DEF Spec

(* README "Re-running the `pangolin` phase on a live stack": a rollout at   *)
(* verify has brought every change to the containers.                       *)
THEOREM RolloutCompletes == Spec => []RolloutIsComplete
<1>1. Carried => RolloutIsComplete
  BY DEF Carried, Behind, Clean, RolloutIsComplete
<1> QED
  BY <1>1, CarriedInvariant, PTL

-----------------------------------------------------------------------------
(* Who owes a redial *)

LEMMA AccountedStep ==
  TypeOK /\ Placed /\ Whole /\ Carried /\ Accounted /\ [Next]_vars => Accounted'
<1> SUFFICES ASSUME TypeOK, Placed, Whole, Carried, Accounted, [Next]_vars, ~cut' PROVE Redials'
  BY DEF Accounted
<1>a. Redials
  BY CutStays DEF Accounted
<1>t. DockerType /\ LocalsType /\ cmd \in Commands
  BY DEF TypeOK, CommandType
<1> DEFINE Lasting == {"restore", "shutdown", "start"}
<1>q. ASSUME NEW S, NEW R, Touch(S, R, {}), "gerbil" \notin S PROVE UNCHANGED owed
  BY <1>q DEF Touch
<1>w. ASSUME NEW S, NEW R, Touch(S, R, {}) PROVE owed' \in {owed, cmd}
  BY <1>w DEF Touch
<1>1. CASE Pangolin \/ Restore \/ Shutdown \/ Start
  <2>1. /\ at = "idle" /\ UNCHANGED <<owed, redialPending>>
        /\ at' \in {"cert", "stop", "up gerbil maintenance", "up all"}
    BY <1>1 DEF Pangolin, Restore, Shutdown, Start, Invoke, docker, stateFile
  <2> QED
    BY <1>a, <2>1 DEF Redials, Owing
<1>2. CASE EditSite \/ UNCHANGED vars \/ HealthSettles \/ \E s \in Services : Crash(s) \/ DockerRestarts(s)
  <2>1. UNCHANGED <<owed, redialPending, cmd, at, fresh, recreateTraefik, forced, bounced>>
    BY <1>2 DEF EditSite, HealthSettles, Crash, DockerRestarts, docker, stateFile, command,
                locals, vars
  <2> QED
    BY <1>a, <2>1 DEF Redials, Owing
<1>p. ASSUME cmd = "pangolin", cmd' = "pangolin", UNCHANGED redialPending,
             owed' \in {owed, "pangolin"}
      PROVE  owed' \in Lasting => redialPending'
  BY <1>a, <1>p DEF Redials, Owing
<1>3. CASE PushFile \/ ReadServices
  <2>1. cmd = "pangolin" /\ cmd' = "pangolin" /\ UNCHANGED redialPending
    BY <1>t, <1>3 DEF PushFile, ReadServices, GoTo, GoToCut, Placed, Files, Commands, stateFile
  <2>2. at' \in {"compose", "config", "traefik", "services", "up"}
    BY <1>3 DEF PushFile, ReadServices, AfterFile, Files, GoTo, GoToCut
  <2>3. UNCHANGED owed
    <3>1. CASE PushFile
      BY <3>1 DEF PushFile
    <3>2. CASE ReadServices
      <4>1. Touch({"pangolin"}, {}, {}) \/ UNCHANGED docker
        BY <3>2 DEF ReadServices
      <4> QED
        BY <4>1 DEF Touch, docker
    <3> QED
      BY <1>3, <3>1, <3>2
  <2> QED
    BY <1>p, <2>1, <2>2, <2>3 DEF Redials
<1>4. CASE ComposeUp
  <2>1. cmd = "pangolin" /\ cmd' = "pangolin" /\ UNCHANGED redialPending
    BY <1>t, <1>4 DEF ComposeUp, GoTo, Placed, Commands, stateFile
  <2>2. CASE at' \in {"force", "rollout"}
    <3>1. owed' \in {owed, "pangolin"}
      BY <1>4, <2>1 DEF ComposeUp, UpSucceeds, UpFails, Touch, docker
    <3> QED
      BY <1>p, <2>1, <2>2, <3>1 DEF Redials
  <2>3. CASE at' \notin {"force", "rollout"}
    <3>1. at' = "health" /\ ~before /\ UpSucceeds(UpTouches(Services), UpCreates(Services))
      BY <1>4, <2>3 DEF ComposeUp, GoTo
    <3>2. cont["gerbil"] = "absent"
      BY <1>4, <2>1, <3>1, CutStays DEF ComposeUp, Carried, Behind, Services
    <3>3. owed = "none"
      BY <3>2 DEF Whole, AllExist, NoStack, Services
    <3>4. owed' = "none"
      BY <3>1, <3>2, <3>3 DEF UpSucceeds, Touch
    <3> QED
      BY <2>1, <3>1, <3>4 DEF Redials
  <2> QED
    BY <2>2, <2>3
<1>5. CASE ForceRecreate
  <2>1. cmd = "pangolin" /\ cmd' = "pangolin" /\ UNCHANGED redialPending
    BY <1>t, <1>5 DEF ForceRecreate, GoTo, Placed, Commands, stateFile
  <2>2. Touch(Services, Services, {}) /\ at' = "health" /\ forced'
    BY <1>5 DEF ForceRecreate, UpSucceeds, GoTo
  <2> QED
    BY <1>p, <1>w, <2>1, <2>2 DEF Redials
<1>6. CASE RolloutActions
  <2>1. cmd = "pangolin" /\ cmd' = "pangolin" /\ UNCHANGED <<redialPending, owed, fresh>>
    BY <1>t, <1>6 DEF RolloutActions, GoTo, GoToCut, Placed, Commands, stateFile, docker
  <2>2. at' \in {"restart", "rejoin", "health"} /\ ("gerbil" \in fresh => recreateTraefik')
    BY <1>6 DEF RolloutActions, GoTo, GoToCut
  <2> QED
    BY <1>p, <2>1, <2>2 DEF Redials
<1>7. CASE RestartService
  <2>1. /\ at = "restart" /\ cmd = "pangolin" /\ cmd' = "pangolin"
        /\ UNCHANGED <<redialPending, fresh, recreateTraefik>>
    BY <1>t, <1>7 DEF RestartService, GoTo, Placed, Commands, stateFile
  <2>2. at' \in {"restart", "rejoin", "health"} /\ owed' \in {owed, "pangolin"}
    BY <1>7, <1>w, <2>1 DEF RestartService, GoTo
  <2>3. "gerbil" \in fresh => recreateTraefik
    BY <1>a, <2>1 DEF Redials
  <2> QED
    BY <1>p, <2>1, <2>2, <2>3 DEF Redials
<1>8. CASE RecreateTraefik
  <2>1. Touch({"traefik"}, {"traefik"}, {})
    BY <1>8 DEF RecreateTraefik
  <2>2. UNCHANGED <<redialPending, owed, fresh, recreateTraefik, forced, cmd>> /\ at = "rejoin"
    BY <1>8, <2>1 DEF RecreateTraefik, Touch, GoTo, stateFile, locals
  <2>3. \/ cmd = "pangolin" /\ at' = "health"
        \/ cmd = "restore"  /\ at' = "record"
        \/ cmd = "shutdown" /\ at' = "stop pangolin"
    BY <1>8 DEF RecreateTraefik, GoTo
  <2> QED
    BY <1>a, <2>2, <2>3 DEF Redials, Owing
<1>9. CASE WaitHealthy
  <2>1. UNCHANGED <<redialPending, owed, fresh, recreateTraefik, forced, bounced, cmd>> /\ at = "health"
    BY <1>9 DEF WaitHealthy, GoTo, stateFile, locals, docker
  <2>2. CASE cmd = "pangolin"
    <3>1. at' = IF recreateTraefik \/ forced THEN "redial" ELSE "verify"
      BY <1>9, <2>2 DEF WaitHealthy, GoTo
    <3> QED
      BY <1>a, <2>1, <2>2, <3>1 DEF Redials, Owing
  <2>3. CASE cmd = "restore"
    <3>1. at' = "up gerbil"
      BY <1>9, <2>3 DEF WaitHealthy, GoTo
    <3> QED
      BY <1>a, <2>1, <2>3, <3>1 DEF Redials, Owing
  <2>4. CASE cmd = "start"
    <3>1. at' = IF redialPending \/ bounced THEN "redial" ELSE "record"
      BY <1>9, <2>4 DEF WaitHealthy, GoTo
    <3> QED
      BY <1>a, <2>1, <2>4, <3>1 DEF Redials, Owing
  <2> QED
    BY <1>9, <2>2, <2>3, <2>4 DEF WaitHealthy
<1>10. CASE RedialAll
  <2>1. owed' = "none" /\ at' \in {"record", "verify"}
    BY <1>10 DEF RedialAll, GoTo
  <2> QED
    BY <2>1 DEF Redials
<1>11. CASE StopStack \/ LoadDump
  <2>1. /\ UNCHANGED <<redialPending, owed, cmd>> /\ cmd = "restore"
        /\ at \in {"stop", "load"} /\ at' \in {"load", "up pangolin"}
    BY <1>t, <1>11 DEF StopStack, LoadDump, GoTo, Placed, Commands, stateFile, docker
  <2> QED
    BY <1>a, <2>1 DEF Redials, Owing
<1>12. CASE UpPangolin
  <2>1. /\ UNCHANGED <<redialPending, cmd>> /\ cmd = "restore" /\ at = "up pangolin"
        /\ at' = "health"
    BY <1>t, <1>12 DEF UpPangolin, GoTo, Placed, Commands, stateFile
  <2>2. UNCHANGED owed
    <3>1. "gerbil" \notin UpTouches({"pangolin"})
      BY DEF UpTouches
    <3>2. Touch(UpTouches({"pangolin"}), UpCreates({"pangolin"}), {})
      BY <1>12 DEF UpPangolin
    <3> QED
      BY <1>q, <3>1, <3>2
  <2> QED
    BY <1>a, <2>1, <2>2 DEF Redials, Owing
<1>13. CASE UpGerbil
  <2>1. /\ UNCHANGED <<redialPending, cmd>> /\ cmd = "restore" /\ at = "up gerbil"
        /\ at' = "rejoin"
    BY <1>t, <1>13 DEF UpGerbil, GoTo, Placed, Commands, stateFile
  <2>2. owed' \in {owed, "restore"}
    BY <1>13, <1>w, <2>1 DEF UpGerbil
  <2> QED
    BY <1>a, <2>1, <2>2 DEF Redials, Owing
<1>14. CASE Record
  BY <1>a, <1>14 DEF Record, GoTo, Redials, Owing, docker, stateFile
<1>15. CASE UpGerbilMaintenance
  <2> DEFINE T == {"gerbil", "maintenance"}
  <2>1. /\ UNCHANGED <<redialPending, cmd>> /\ cmd = "shutdown" /\ at = "up gerbil maintenance"
        /\ Touch(UpTouches(T), UpCreates(T), {})
    BY <1>t, <1>15 DEF UpGerbilMaintenance, Placed, Commands, stateFile
  <2>2. at' = IF "gerbil" \in UpTouches(T) THEN "save" ELSE "rejoin"
    BY <1>15 DEF UpGerbilMaintenance, CompareMarkers, AfterUp
  <2>3. CASE "gerbil" \in UpTouches(T)
    BY <1>a, <1>w, <2>1, <2>2, <2>3 DEF Redials, Owing
  <2>4. CASE "gerbil" \notin UpTouches(T)
    BY <1>a, <1>q, <2>1, <2>2, <2>4 DEF Redials, Owing
  <2> QED
    BY <2>3, <2>4
<1>16. CASE SaveRedialPending
  <2>1. redialPending' /\ UNCHANGED <<owed, cmd>> /\ cmd = "shutdown"
    BY <1>t, <1>16 DEF SaveRedialPending, GoTo, Placed, Commands, docker
  <2> QED
    BY <2>1 DEF Redials
<1>17. CASE StopPangolin
  <2>1. /\ UNCHANGED <<redialPending, owed, cmd>> /\ cmd = "shutdown" /\ at = "stop pangolin"
    BY <1>t, <1>17 DEF StopPangolin, GoTo, Placed, Commands, stateFile
  <2> QED
    BY <1>a, <2>1 DEF Redials, Owing
<1>18. CASE UpAll
  <2>1. /\ UNCHANGED <<redialPending, cmd>> /\ cmd = "start" /\ at = "up all" /\ at' = "health"
        /\ Touch(UpTouches(Services), UpCreates(Services), {})
    BY <1>t, <1>18 DEF UpAll, UpSucceeds, Placed, Commands, stateFile
  <2>2. "gerbil" \in UpTouches(Services) => bounced'
    BY <1>18 DEF UpAll, CompareMarkers
  <2>3. CASE "gerbil" \in UpTouches(Services)
    BY <1>a, <1>w, <2>1, <2>2, <2>3 DEF Redials, Owing
  <2>4. CASE "gerbil" \notin UpTouches(Services)
    BY <1>a, <1>q, <2>1, <2>4 DEF Redials, Owing
  <2> QED
    BY <2>3, <2>4
<1>19. CASE ApplyRaises \/ Die
  BY <1>19 DEF ApplyRaises, Die
<1>20. CASE Verify
  <2>1. at = "verify" /\ at' = "idle" /\ UNCHANGED <<owed, redialPending, cmd>>
    BY <1>20 DEF Verify, EndCommand, docker
  <2> QED
    BY <1>a, <2>1 DEF Redials, Owing
<1> QED
  BY <1>1, <1>2, <1>3, <1>4, <1>5, <1>6, <1>7, <1>8, <1>9, <1>10, <1>11, <1>12, <1>13, <1>14,
     <1>15, <1>16, <1>17, <1>18, <1>19, <1>20 DEF Next, Rollout, Lifecycle, Restoring

(* README "Which restarts need the Newt agents redialed": a bounced gerbil  *)
(* is redialled before the command ends, or start knows that it has to.     *)
THEOREM RedialsAreRemembered == Spec => []RedialRemembered
<1>1. Init => Accounted
  BY DEF Init, Accounted, Redials, NoLocals
<1>2. Accounted => RedialRemembered
  BY DEF Accounted, Redials, Owing, RedialRemembered
<1> QED
  BY <1>1, <1>2, AccountedStep, CarriedInvariant, PlacedInvariant, WholeInvariant, TypeCorrect,
     PTL DEF Spec
=============================================================================

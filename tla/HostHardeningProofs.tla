------------------------- MODULE HostHardeningProofs -------------------------
(* Proofs about HostHardening, for any hosts, logins, ports and addresses, *)
(* and any number of faults, cuts, reboots and edits.                      *)
EXTENDS HostHardening, TLAPS

-----------------------------------------------------------------------------
(* The invariant, in parts *)

Ruled   == {"read", "check", "apply", "await", "verify"}
Cleared == Ruled \cup {"ufw"}
Known   == Cleared \cup {"daemon.json", "clear"}

(* sshd's units and sockets: the socket is up as it is enabled, and who holds *)
(* the port serves it.                                                        *)
Units ==
  /\ socket.active <=> socket.enabled
  /\ socket.active <=> "systemd" \in owners
  /\ serving <=> owners # {}
  /\ "sshd" \in owners => service.active
  /\ socket.enabled \/ service.enabled

(* A socket beside an enabled service that is down is left only by a switch *)
(* that failed, over files that are key-only already.                       *)
Switch ==
  /\ at = "apply" => (conflict <=> Conflict)
  /\ Conflict /\ "sshd" \in owners => KeyOnly(loaded)
  /\ socket.active /\ service.enabled /\ ~service.active => at = "idle" /\ KeyOnly(Effective)

(* What the steps of the hardening have established. *)
Hardening ==
  /\ at \in {"read", "check", "apply", "await"} => disablePw
  /\ at = "check" => dropin
  /\ at \in {"apply", "await"} => KeyOnly(Effective)
  /\ at = "await" /\ "reload" \notin faults /\ SshdListening => KeyOnly(loaded)
  /\ at = "verify" /\ disablePw /\ "reload" \notin faults => KeyOnly(loaded)

(* When nobody serves logins. *)
Unserved ==
  ~serving => \/ "death" \in faults
              \/ at = "await" /\ conflict
              \/ at = "idle" /\ outcome = "cut"

(* What the login needs of sshd's configuration holds of the running sshd,   *)
(* of its files, and of the files without the drop-in, which a login by      *)
(* password never gets.                                                      *)
Works(cfg) ==
  /\ auth = "password" => cfg.pw = "yes"
  /\ user = "root" => cfg.root = "yes" \/ (auth = "key" /\ cfg.root # "no")

LoginWorks ==
  /\ Works(loaded) /\ Works(Effective)
  /\ user = "root" => own.root = "yes" \/ (auth = "key" /\ own.root # "no")
  /\ auth = "password" => ~dropin /\ ~disablePw

(* sshd's configuration as it is without the drop-in. *)
Without ==
  [pw   |-> IF ~own.early /\ legacy /\ ~own.cloud THEN "no" ELSE "yes",
   root |-> own.root]

Before ==
  /\ at \in {"prepare", "daemon.json", "clear", "ufw", "read"} => before = Effective /\ (hadDropin <=> dropin)
  /\ at = "check" /\ ~hadDropin => before = Without

(* What the commands on the firewall have established. *)
Firewall ==
  /\ at \in {"idle", "prepare"} => mine = {}
  /\ at \in Known => mine = IF MonitorIps # {} THEN ClientIp ELSE {}
  /\ at \in Ruled /\ clean => SshRules \subseteq rules
  /\ at \in Cleared /\ MonitorIps # {} /\ "delete" \notin faults => "any" \notin rules

-----------------------------------------------------------------------------
(* Types *)

OperatorOK == /\ user \in {"root", "sudo"} /\ auth \in {"key", "password"} /\ src \in Sources
              /\ monitor \subseteq Sources /\ disablePw \in BOOLEAN /\ port \in Nat
FileOK     == status \in {"pending", "done", "failed"} /\ asked \in BOOLEAN /\ answer \subseteq Sources
FirewallOK == rules \subseteq Sources \cup {"any"} /\ ufwOn \in BOOLEAN
FilesOK    == /\ dropin \in BOOLEAN /\ rootLine \in BOOLEAN /\ legacy \in BOOLEAN
              /\ own \in [early : BOOLEAN, cloud : BOOLEAN, root : Root]
DaemonOK   == /\ loaded \in Config /\ owners \subseteq {"sshd", "systemd"} /\ serving \in BOOLEAN
              /\ socket \in Unit /\ service \in Unit
EngineOK   == /\ docker \in {"absent", "engine", "compose"}
              /\ daemonJson \in BOOLEAN /\ dnsLoaded \in BOOLEAN /\ stub \in BOOLEAN
CommandOK  == at \in Steps /\ mine \subseteq {src} /\ conflict \in BOOLEAN
HistoryOK  == /\ before \in Config /\ hadDropin \in BOOLEAN
              /\ outcome \in {"none", "ended", "aborted", "raised", "cut"}
              /\ faults \subseteq {"delete", "reload", "death"} /\ moved \in BOOLEAN
CountOK    == upsets \in 0..MaxUpsets

LEMMA TypeParts ==
  TypeOK <=> /\ OperatorOK /\ FileOK /\ FirewallOK /\ FilesOK /\ DaemonOK /\ EngineOK
             /\ CommandOK /\ clean \in BOOLEAN /\ HistoryOK /\ CountOK
  BY DEF TypeOK, OperatorOK, FileOK, FirewallOK, FilesOK, DaemonOK, EngineOK, CommandOK, HistoryOK, CountOK

LEMMA TypePartsPrimed ==
  TypeOK' <=> /\ OperatorOK' /\ FileOK' /\ FirewallOK' /\ FilesOK' /\ DaemonOK' /\ EngineOK'
              /\ CommandOK' /\ clean' \in BOOLEAN /\ HistoryOK' /\ CountOK'
  BY DEF TypeOK, OperatorOK, FileOK, FirewallOK, FilesOK, DaemonOK, EngineOK, CommandOK, HistoryOK, CountOK

LEMMA EffectiveType == FilesOK => Effective \in Config
<1> SUFFICES ASSUME FilesOK PROVE Effective \in Config
  OBVIOUS
<1>1. own.root \in Root /\ "prohibit-password" \in Root
  BY DEF FilesOK, Root
<1> QED
  BY <1>1 DEF Effective, Config

LEMMA TypeInit == Init => TypeOK
<1> SUFFICES ASSUME Init
             PROVE  /\ OperatorOK /\ FileOK /\ FirewallOK /\ FilesOK /\ DaemonOK /\ EngineOK
                    /\ CommandOK /\ clean \in BOOLEAN /\ HistoryOK /\ CountOK
  BY TypeParts
<1>0. Users \subseteq {"root", "sudo"} /\ Ports \subseteq Nat /\ Machines \subseteq Machine /\ MaxUpsets \in Nat
  BY HardeningAssumption
<1>1. PICK m \in Machines :
        /\ ufwOn = m.ufw /\ rules = (IF m.ufw THEN {"any"} ELSE {})
        /\ legacy = m.legacy /\ own = m.own
        /\ Serves(m.sshd)
        /\ docker = m.docker /\ stub = m.stub
  BY DEF Init
<1>2. /\ m.ufw \in BOOLEAN /\ m.legacy \in BOOLEAN /\ m.stub \in BOOLEAN
      /\ m.own \in [early : BOOLEAN, cloud : BOOLEAN, root : Root]
      /\ m.docker \in {"absent", "engine", "compose"}
  <2>1. m \in Machine
    BY <1>0
  <2> QED
    BY <2>1 DEF Machine, Root
<1>3. OperatorOK
  BY <1>0 DEF Init, OperatorOK
<1>4. FilesOK
  BY <1>1, <1>2 DEF Init, FilesOK
<1>5. loaded \in Config /\ before \in Config
  BY <1>4, EffectiveType DEF Init
<1>6. socket \in Unit /\ service \in Unit /\ owners \subseteq {"sshd", "systemd"} /\ serving \in BOOLEAN
  <2>1. (m.sshd # "plain") \in BOOLEAN /\ (m.sshd # "activated") \in BOOLEAN
    OBVIOUS
  <2> QED
    BY <1>1, <2>1 DEF Serves, Unit
<1>7. DaemonOK
  BY <1>5, <1>6 DEF DaemonOK
<1>8. EngineOK /\ FirewallOK
  BY <1>1, <1>2 DEF Init, EngineOK, FirewallOK
<1>9. FileOK /\ CommandOK /\ clean \in BOOLEAN
  BY DEF Init, FileOK, CommandOK, Steps
<1>10. HistoryOK
  BY <1>5 DEF Init, HistoryOK
<1>11. CountOK
  BY <1>0 DEF Init, CountOK
<1> QED
  BY <1>3, <1>4, <1>7, <1>8, <1>9, <1>10, <1>11

LEMMA TypeStep == TypeOK /\ Firewall /\ [Next]_vars => TypeOK'
<1> SUFFICES ASSUME TypeOK, Firewall, [Next]_vars
             PROVE  /\ OperatorOK' /\ FileOK' /\ FirewallOK' /\ FilesOK' /\ DaemonOK' /\ EngineOK'
                    /\ CommandOK' /\ clean' \in BOOLEAN /\ HistoryOK' /\ CountOK'
  BY TypePartsPrimed
<1>0. /\ OperatorOK /\ FileOK /\ FirewallOK /\ FilesOK /\ DaemonOK /\ EngineOK
      /\ CommandOK /\ clean \in BOOLEAN /\ HistoryOK /\ CountOK
  BY TypeParts
\* What is left alone keeps its type.
<1>o. UNCHANGED operator => OperatorOK' /\ UNCHANGED src
  BY <1>0 DEF OperatorOK, operator
<1>f. /\ UNCHANGED file => FileOK'
      /\ UNCHANGED <<asked, answer>> /\ status' \in {"pending", "done", "failed"} => FileOK'
  BY <1>0 DEF FileOK, file
<1>w. /\ UNCHANGED firewall => FirewallOK'
      /\ UNCHANGED ufwOn /\ rules' \subseteq Sources \cup {"any"} => FirewallOK'
      /\ ufwOn' \in BOOLEAN /\ rules' \subseteq Sources \cup {"any"} => FirewallOK'
  BY <1>0 DEF FirewallOK, firewall
<1>l. UNCHANGED files => FilesOK'
  BY <1>0 DEF FilesOK, files
<1>d. UNCHANGED daemon => DaemonOK'
  BY <1>0 DEF DaemonOK, daemon
<1>e. UNCHANGED engine => EngineOK'
  BY <1>0 DEF EngineOK, engine
<1>c. /\ UNCHANGED <<command, src>> => CommandOK' /\ clean' \in BOOLEAN
      /\ UNCHANGED clean => clean' \in BOOLEAN
      /\ UNCHANGED <<src, mine, conflict>> /\ at' \in Steps => CommandOK'
      /\ \A step \in Steps : GoTo(step) /\ UNCHANGED src => CommandOK'
      /\ \A how : Ends(how) => CommandOK'
      /\ \A how : Raises(how) => CommandOK' /\ FileOK' /\ clean' \in BOOLEAN
  BY <1>0, <1>f DEF CommandOK, command, GoTo, Ends, Raises, Steps
<1>h. /\ UNCHANGED history => HistoryOK'
      /\ \A how \in {"ended", "aborted", "raised", "cut"} :
           (Ends(how) \/ Raises(how)) /\ UNCHANGED faults => HistoryOK'
      /\ UNCHANGED <<before, hadDropin, outcome, moved>> /\ faults' \subseteq {"delete", "reload", "death"}
           => HistoryOK'
      /\ UNCHANGED <<before, hadDropin, moved>> /\ outcome' = "none" /\ faults' = {} => HistoryOK'
      /\ UNCHANGED <<before, hadDropin, outcome, faults>> /\ moved' = TRUE => HistoryOK'
  BY <1>0 DEF HistoryOK, history, Ends, Raises
<1>n. MaxUpsets \in Nat
  BY HardeningAssumption
<1>u. /\ Upset => CountOK'
      /\ UNCHANGED upsets \/ Calm => CountOK'
  BY <1>0, <1>n DEF Upset, Calm, CountOK
<1>s. Sources \in SUBSET Sources /\ SshRules \subseteq Sources \cup {"any"} /\ ClientIp \subseteq {src}
  BY <1>0 DEF SshRules, AllowList, MonitorIps, ClientIp, OperatorOK, FileOK, CommandOK
<1>x. Effective \in Config /\ (UNCHANGED files => Effective' = Effective)
  BY <1>0, EffectiveType DEF Effective, files
<1>t. /\ socket.active \in BOOLEAN /\ socket.enabled \in BOOLEAN
      /\ service.active \in BOOLEAN /\ service.enabled \in BOOLEAN
      /\ \A a, e \in BOOLEAN : [active |-> a, enabled |-> e] \in Unit
      /\ \A a \in BOOLEAN : [service EXCEPT !.active = a] \in Unit /\ [socket EXCEPT !.active = a] \in Unit
  BY <1>0 DEF DaemonOK, Unit
<1>1. CASE Begin
  <2>1. DaemonOK'
    BY <1>0, <1>t, <1>x, <1>1 DEF Begin, Activates, DaemonOK
  <2>2. FileOK'
    BY <1>0, <1>1 DEF Begin, FileOK, Upset
  <2>3. CommandOK' /\ clean' \in BOOLEAN
    BY <1>0, <1>o, <1>1 DEF Begin, CommandOK, Steps
  <2>4. HistoryOK'
    BY <1>0, <1>x, <1>1 DEF Begin, HistoryOK, FilesOK
  <2> QED
    BY <1>o, <1>w, <1>l, <1>e, <1>u, <1>1, <2>1, <2>2, <2>3, <2>4 DEF Begin
<1>2. CASE Prepare
  <2>1. mine' \subseteq {src} /\ UNCHANGED src
    BY <1>o, <1>s, <1>2 DEF Prepare
  <2>2. CommandOK' /\ clean' \in BOOLEAN
    BY <1>0, <1>2, <2>1 DEF Prepare, CommandOK, Steps
  <2>3. EngineOK' /\ CountOK'
    BY <1>0, <1>u, <1>2 DEF Prepare, EngineOK
  <2> QED
    BY <1>o, <1>f, <1>w, <1>l, <1>d, <1>h, <1>2, <2>2, <2>3 DEF Prepare
<1>3. CASE KeepDaemonJson
  BY <1>o, <1>f, <1>w, <1>l, <1>d, <1>e, <1>c, <1>h, <1>u, <1>3 DEF KeepDaemonJson, Steps
<1>4. CASE WriteDaemonJson
  <2>1. EngineOK'
    BY <1>0, <1>4 DEF WriteDaemonJson, EngineOK
  <2> QED
    BY <1>o, <1>f, <1>w, <1>l, <1>d, <1>c, <1>h, <1>u, <1>4, <2>1 DEF WriteDaemonJson, Steps
<1>5. CASE RestartDockerFails
  <2>1. EngineOK'
    BY <1>0, <1>5 DEF RestartDockerFails, EngineOK
  <2>2. CountOK'
    BY <1>u, <1>5 DEF RestartDockerFails
  <2> QED
    BY <1>o, <1>w, <1>l, <1>d, <1>c, <1>h, <1>5, <2>1, <2>2 DEF RestartDockerFails
<1>6. CASE ClearOpenRule
  <2>1. FirewallOK' /\ CountOK'
    BY <1>0, <1>u, <1>6 DEF ClearOpenRule, FirewallOK
  <2>2. faults' \subseteq {"delete", "reload", "death"}
    BY <1>0, <1>6 DEF ClearOpenRule, HistoryOK
  <2>3. HistoryOK'
    BY <1>h, <1>6, <2>2 DEF ClearOpenRule
  <2>4. CommandOK'
    BY <1>o, <1>c, <1>6 DEF ClearOpenRule, Steps
  <2> QED
    BY <1>o, <1>f, <1>l, <1>d, <1>e, <1>c, <1>6, <2>1, <2>3, <2>4 DEF ClearOpenRule
<1>7. CASE UfwRules \/ UfwRulesFail
  <2>1. rules' \subseteq Sources \cup {"any"} /\ ufwOn' \in BOOLEAN /\ clean' \in BOOLEAN
    BY <1>0, <1>s, <1>7 DEF UfwRules, UfwRulesFail, FirewallOK
  <2>2. FirewallOK'
    BY <1>w, <2>1
  <2>3. CommandOK'
    BY <1>o, <1>c, <1>7 DEF UfwRules, UfwRulesFail, AfterUfw, Steps
  <2>4. CountOK'
    BY <1>u, <1>7 DEF UfwRules, UfwRulesFail
  <2> QED
    BY <1>o, <1>f, <1>l, <1>d, <1>e, <1>h, <1>7, <2>1, <2>2, <2>3, <2>4 DEF UfwRules, UfwRulesFail
<1>8. CASE PushDropin
  <2>1. (Effective.root # "no") \in BOOLEAN
    OBVIOUS
  <2>2. FilesOK'
    BY <1>0, <1>8, <2>1 DEF PushDropin, FilesOK
  <2> QED
    BY <1>o, <1>f, <1>w, <1>d, <1>e, <1>c, <1>h, <1>u, <1>8, <2>2 DEF PushDropin, Steps
<1>9. CASE ReadFails
  BY <1>o, <1>w, <1>l, <1>d, <1>e, <1>c, <1>h, <1>u, <1>9 DEF ReadFails
<1>10. CASE Abort
  <2>1. FilesOK'
    BY <1>0, <1>10 DEF Abort, FilesOK
  <2>2. CountOK'
    BY <1>u, <1>10 DEF Abort
  <2> QED
    BY <1>o, <1>w, <1>d, <1>e, <1>c, <1>h, <1>10, <2>1, <2>2 DEF Abort
<1>11. CASE CheckDropin
  <2>1. FilesOK'
    BY <1>0, <1>11 DEF CheckDropin, FilesOK
  <2>2. Conflict \in BOOLEAN
    BY <1>t DEF Conflict
  <2>3. CommandOK'
    BY <1>0, <1>o, <1>11, <2>2 DEF CheckDropin, CommandOK, Steps
  <2> QED
    BY <1>o, <1>f, <1>w, <1>d, <1>e, <1>c, <1>h, <1>u, <1>11, <2>1, <2>3 DEF CheckDropin
<1>12. CASE SwitchToService
  <2>1. DaemonOK' /\ CountOK'
    BY <1>0, <1>t, <1>x, <1>u, <1>12 DEF SwitchToService, DaemonOK
  <2>2. CommandOK' /\ clean' \in BOOLEAN
    BY <1>o, <1>c, <1>12 DEF SwitchToService, Steps
  <2> QED
    BY <1>o, <1>f, <1>w, <1>l, <1>e, <1>h, <1>12, <2>1, <2>2 DEF SwitchToService
<1>13. CASE ReloadSshd
  <2>1. (socket.active /\ ~service.enabled) \in BOOLEAN
    BY <1>t
  <2>2. DaemonOK'
    BY <1>0, <1>t, <1>x, <1>13, <2>1 DEF ReloadSshd, DaemonOK
  <2>3. faults' \subseteq {"delete", "reload", "death"} /\ CountOK'
    BY <1>0, <1>u, <1>13 DEF ReloadSshd, HistoryOK
  <2>4. CommandOK' /\ clean' \in BOOLEAN
    BY <1>o, <1>c, <1>13 DEF ReloadSshd, Steps
  <2> QED
    BY <1>o, <1>f, <1>w, <1>l, <1>e, <1>h, <1>13, <2>2, <2>3, <2>4 DEF ReloadSshd
<1>14. CASE SshdUp
  BY <1>o, <1>f, <1>w, <1>l, <1>d, <1>e, <1>c, <1>h, <1>u, <1>14 DEF SshdUp, Steps
<1>15. CASE SshdGone
  <2>1. DaemonOK'
    BY <1>0, <1>t, <1>15 DEF SshdGone, DaemonOK
  <2> QED
    BY <1>o, <1>w, <1>l, <1>e, <1>c, <1>h, <1>u, <1>15, <2>1 DEF SshdGone
<1>16. CASE Verify
  <2>1. FileOK'
    BY <1>f, <1>16 DEF Verify
  <2> QED
    BY <1>o, <1>w, <1>l, <1>d, <1>e, <1>c, <1>h, <1>u, <1>16, <2>1 DEF Verify
<1>17. CASE Cut
  BY <1>o, <1>f, <1>w, <1>l, <1>d, <1>e, <1>c, <1>h, <1>u, <1>17 DEF Cut
<1>18. CASE CleanHost
  <2>1. FirewallOK' /\ FileOK'
    BY <1>0, <1>18 DEF CleanHost, FirewallOK, FileOK
  <2> QED
    BY <1>o, <1>l, <1>d, <1>e, <1>c, <1>h, <1>u, <1>18, <2>1 DEF CleanHost
<1>19. CASE MoveOrEdit
  <2>1. OperatorOK'
    BY <1>0, <1>19 DEF MoveOrEdit, OperatorOK
  <2>2. CommandOK' /\ clean' \in BOOLEAN
    BY <1>0, <1>19 DEF MoveOrEdit, Firewall, CommandOK, command
  <2> QED
    BY <1>f, <1>w, <1>l, <1>d, <1>e, <1>h, <1>u, <1>19, <2>1, <2>2 DEF MoveOrEdit
<1>20. CASE Reboot
  <2>1. (socket.enabled \/ service.enabled) \in BOOLEAN
    BY <1>t
  <2>2. DaemonOK'
    BY <1>0, <1>t, <1>x, <1>20, <2>1 DEF Reboot, DaemonOK
  <2>3. (daemonJson /\ docker # "absent") \in BOOLEAN
    BY <1>0 DEF EngineOK
  <2>4. EngineOK'
    BY <1>0, <1>20, <2>3 DEF Reboot, EngineOK
  <2> QED
    BY <1>o, <1>f, <1>w, <1>l, <1>c, <1>h, <1>u, <1>20, <2>2, <2>4 DEF Reboot
<1>21. CASE UNCHANGED vars
  BY <1>o, <1>f, <1>w, <1>l, <1>d, <1>e, <1>c, <1>h, <1>u, <1>21 DEF vars
<1> QED
  BY <1>1, <1>2, <1>3, <1>4, <1>5, <1>6, <1>7, <1>8, <1>9, <1>10, <1>11, <1>12, <1>13, <1>14, <1>15, <1>16,
     <1>17, <1>18, <1>19, <1>20, <1>21 DEF Next, HardenSshd

-----------------------------------------------------------------------------
(* What each action leaves alone *)

LEMMA Frames ==
  ASSUME [Next]_vars
  PROVE  /\ Begin \/ SwitchToService \/ ReloadSshd \/ SshdGone \/ Reboot \/ UNCHANGED daemon
         /\ PushDropin \/ Abort \/ CheckDropin \/ UNCHANGED files
         /\ MoveOrEdit \/ UNCHANGED operator
         /\ UNCHANGED <<user, auth, port, own>>
<1>1. UNCHANGED files => UNCHANGED own
  BY DEF files
<1>2. UNCHANGED operator => UNCHANGED <<user, auth, port>>
  BY DEF operator
<1> QED
  BY <1>1, <1>2 DEF Next, HardenSshd, vars, Prepare, KeepDaemonJson, WriteDaemonJson, RestartDockerFails,
     ClearOpenRule, UfwRules, UfwRulesFail, PushDropin, ReadFails, Abort, CheckDropin, SshdUp, Verify, Cut,
     CleanHost, MoveOrEdit, Begin, SwitchToService, ReloadSshd, SshdGone, Reboot

LEMMA EffectiveFrame == UNCHANGED files => Effective' = Effective
  BY DEF files, Effective

LEMMA ListeningFrame == UNCHANGED daemon => (SshdListening' <=> SshdListening) /\ (Conflict' <=> Conflict)
  BY DEF daemon, SshdListening, Conflict

LEMMA UnitFields == TypeOK =>
  /\ socket \in Unit /\ service \in Unit /\ owners \subseteq {"sshd", "systemd"}
  /\ socket.active \in BOOLEAN /\ socket.enabled \in BOOLEAN
  /\ service.active \in BOOLEAN /\ service.enabled \in BOOLEAN
  BY DEF TypeOK, Unit

-----------------------------------------------------------------------------
(* The units *)

LEMMA InitUnits ==
  ASSUME Init
  PROVE  \E how \in {"plain", "activated", "conflict"} :
                  /\ socket.active <=> how # "plain"
                  /\ socket.enabled <=> how # "plain"
                  /\ service.active /\ serving
                  /\ service.enabled <=> how # "activated"
                  /\ "systemd" \in owners <=> how # "plain"
                  /\ "sshd" \in owners <=> how # "conflict"
<1>1. PICK m \in Machines : Serves(m.sshd)
  BY DEF Init
<1>2. /\ socket = [active |-> m.sshd # "plain", enabled |-> m.sshd # "plain"]
      /\ service = [active |-> TRUE, enabled |-> m.sshd # "activated"]
      /\ owners = (IF m.sshd = "plain" THEN {} ELSE {"systemd"})
                    \cup (IF m.sshd = "conflict" THEN {} ELSE {"sshd"})
      /\ serving = TRUE
  BY <1>1 DEF Serves
<1>3. /\ "systemd" \in owners <=> m.sshd # "plain"
      /\ "sshd" \in owners <=> m.sshd # "conflict"
  BY <1>2
<1>4. m.sshd \in {"plain", "activated", "conflict"}
  BY HardeningAssumption DEF Machine
<1> QED
  BY <1>2, <1>3, <1>4

LEMMA UnitsInit == Init => Units
<1> SUFFICES ASSUME Init PROVE Units
  OBVIOUS
<1>1. PICK how \in {"plain", "activated", "conflict"} :
                 /\ socket.active <=> how # "plain"
                 /\ socket.enabled <=> how # "plain"
                 /\ service.active /\ serving
                 /\ service.enabled <=> how # "activated"
                 /\ "systemd" \in owners <=> how # "plain"
                 /\ "sshd" \in owners <=> how # "conflict"
  BY InitUnits
<1>2. "systemd" \in owners \/ "sshd" \in owners
  BY <1>1
<1> QED
  BY <1>1, <1>2 DEF Units

LEMMA UnitsStep == TypeOK /\ Units /\ Switch /\ [Next]_vars => Units'
<1> SUFFICES ASSUME TypeOK, Units, Switch, [Next]_vars PROVE Units'
  OBVIOUS
<1>0. /\ socket \in Unit /\ service \in Unit /\ owners \subseteq {"sshd", "systemd"}
      /\ socket.active \in BOOLEAN /\ socket.enabled \in BOOLEAN
      /\ service.active \in BOOLEAN /\ service.enabled \in BOOLEAN
  BY UnitFields
<1>1. CASE Begin
  <2>1. serving
    BY <1>1 DEF Begin, CanLogin
  <2>2. UNCHANGED <<serving, socket>> /\ service'.enabled = service.enabled
    BY <1>0, <1>1 DEF Begin, Activates, Unit
  <2>3. owners' = owners \/ (socket.active /\ owners' = owners \cup {"sshd"})
    BY <1>1 DEF Begin, Activates
  <2>4. "sshd" \in owners' => service'.active
    BY <1>0, <1>1 DEF Begin, Activates, Unit, Units
  <2> QED
    BY <2>1, <2>2, <2>3, <2>4 DEF Units
<1>2. CASE SwitchToService
  <2>1. "sshd" \in {"sshd"} /\ "systemd" \notin {"sshd"}
    OBVIOUS
  <2> QED
    BY <1>2, <2>1 DEF SwitchToService, Units
<1>3. CASE ReloadSshd
  <2>1. UNCHANGED socket
    BY <1>3 DEF ReloadSshd
  <2>2. CASE UNCHANGED <<owners, serving, service>>
    BY <2>1, <2>2 DEF Units
  <2>3. CASE /\ owners' = owners \ {"sshd"} /\ serving' = (socket.active /\ ~service.enabled)
             /\ service' = [service EXCEPT !.active = FALSE]
    <3>1. ~(socket.active /\ service.enabled)
      BY <1>3 DEF ReloadSshd, Switch, Units, Conflict
    <3>2. service'.enabled = service.enabled
      BY <1>0, <2>3 DEF Unit
    <3>3. owners' # {} <=> "systemd" \in owners
      BY <1>0, <2>3
    <3>4. "systemd" \in owners' <=> "systemd" \in owners
      BY <2>3
    <3> QED
      BY <1>0, <2>1, <2>3, <3>1, <3>2, <3>3, <3>4 DEF Units
  <2> QED
    BY <1>3, <2>2, <2>3 DEF ReloadSshd
<1>4. CASE SshdGone
  <2>1. UNCHANGED service
    BY <1>4 DEF SshdGone
  <2> QED
    BY <1>4, <2>1 DEF SshdGone, Units
<1>5. CASE Reboot
  <2>1. /\ socket'.active = socket.enabled /\ socket'.enabled = socket.enabled
        /\ service'.enabled = service.enabled /\ service'.active
    BY <1>0, <1>5 DEF Reboot, Unit, Units
  <2> QED
    BY <1>0, <1>5, <2>1 DEF Reboot, Units
<1>6. CASE UNCHANGED daemon
  BY <1>6 DEF Units, daemon
<1> QED
  BY <1>1, <1>2, <1>3, <1>4, <1>5, <1>6, Frames

LEMMA SwitchInit == Init => Switch /\ Hardening /\ Unserved
<1> SUFFICES ASSUME Init PROVE Switch /\ Hardening /\ Unserved
  OBVIOUS
<1>1. PICK how \in {"plain", "activated", "conflict"} :
                 /\ socket.active <=> how # "plain"
                 /\ socket.enabled <=> how # "plain"
                 /\ service.active /\ serving
                 /\ service.enabled <=> how # "activated"
                 /\ "systemd" \in owners <=> how # "plain"
                 /\ "sshd" \in owners <=> how # "conflict"
  BY InitUnits
<1>2. ~(Conflict /\ "sshd" \in owners)
  BY <1>1 DEF Conflict
<1>3. at = "idle"
  BY DEF Init
<1> QED
  BY <1>1, <1>2, <1>3 DEF Switch, Hardening, Unserved

LEMMA SwitchStep == TypeOK /\ Units /\ Switch /\ Hardening /\ [Next]_vars => Switch'
<1> SUFFICES ASSUME TypeOK, Units, Switch, Hardening, [Next]_vars PROVE Switch'
  OBVIOUS
<1>0. /\ socket \in Unit /\ service \in Unit /\ owners \subseteq {"sshd", "systemd"}
      /\ socket.active \in BOOLEAN /\ socket.enabled \in BOOLEAN
      /\ service.active \in BOOLEAN /\ service.enabled \in BOOLEAN
  BY UnitFields
<1>1. CASE Begin
  <2>1. /\ UNCHANGED socket /\ service'.enabled = service.enabled /\ at' = "prepare" /\ Effective' = Effective
    BY <1>0, <1>1, EffectiveFrame DEF Begin, Activates, Unit
  <2>2. socket.active => service'.active
    BY <1>0, <1>1 DEF Begin, Activates, Unit
  <2>3. UNCHANGED <<loaded, owners>> \/ (socket.active /\ ~service.active /\ loaded' = Effective)
    BY <1>1 DEF Begin, Activates
  <2>4. Conflict' /\ "sshd" \in owners' => KeyOnly(loaded')
    BY <2>1, <2>3 DEF Conflict, Switch, Units
  <2> QED
    BY <2>1, <2>2, <2>4 DEF Switch
<1>2. CASE SwitchToService
  <2>1. at = "apply" /\ at' = "await"
    BY <1>2 DEF SwitchToService, GoTo
  <2>2. CASE UNCHANGED <<loaded, owners, serving, socket, service>>
    BY <2>1, <2>2 DEF Switch, Conflict
  <2>3. CASE socket' = [active |-> FALSE, enabled |-> FALSE]
    BY <2>1, <2>3 DEF Switch, Conflict
  <2> QED
    BY <1>2, <2>2, <2>3 DEF SwitchToService
<1>3. CASE ReloadSshd
  <2>1. at = "apply" /\ at' = "await" /\ ~Conflict /\ UNCHANGED socket
    BY <1>3 DEF ReloadSshd, GoTo, Switch
  <2>2. service'.enabled = service.enabled /\ owners' \subseteq owners
    BY <1>0, <1>3 DEF ReloadSshd, Unit
  <2>3. ~Conflict' /\ ~(socket.active /\ service.enabled)
    BY <2>1, <2>2 DEF Conflict, Units
  <2> QED
    BY <2>1, <2>2, <2>3 DEF Switch
<1>4. CASE SshdGone
  <2>1. at = "await" /\ at' = "idle" /\ KeyOnly(Effective) /\ Effective' = Effective /\ UNCHANGED <<service, loaded>>
    BY <1>4, EffectiveFrame DEF SshdGone, Raises, Ends, Hardening
  <2>2. "sshd" \notin owners
    BY <1>4 DEF SshdGone, SshdListening, Units
  <2>3. CASE conflict
    <3>1. socket' = [active |-> TRUE, enabled |-> TRUE] /\ owners' = owners \cup {"systemd"}
      BY <1>4, <2>3 DEF SshdGone
    <3>2. Conflict' /\ "sshd" \in owners' => "sshd" \in owners
      BY <3>1
    <3> QED
      BY <1>4, <2>1, <2>2, <3>1, <3>2 DEF Switch, Conflict
  <2>4. CASE ~conflict
    BY <1>4, <2>1, <2>4 DEF SshdGone, Switch, Conflict
  <2> QED
    BY <2>3, <2>4
<1>5. CASE Reboot
  <2>1. at' = "idle"
    BY <1>5 DEF Reboot, command
  <2>2. /\ socket'.active = socket.enabled /\ service'.enabled = service.enabled
        /\ service'.active = (socket.enabled \/ service.enabled)
    BY <1>0, <1>5 DEF Reboot, Unit
  <2>3. ~(Conflict' /\ "sshd" \in owners')
    BY <1>5, <2>2 DEF Reboot, Conflict
  <2> QED
    BY <2>1, <2>2, <2>3 DEF Switch
<1>6. CASE UNCHANGED daemon
  <2>1. UNCHANGED <<loaded, owners, socket, service>> /\ (Conflict' <=> Conflict)
    BY <1>6, ListeningFrame DEF daemon
  <2>2. at' = "apply" => (conflict' <=> Conflict)
    <3>1. CASE CheckDropin
      BY <3>1 DEF CheckDropin
    <3>2. CASE ~CheckDropin
      <4>1. at' # "apply" \/ UNCHANGED <<at, conflict>>
        BY <3>2 DEF Next, HardenSshd, vars, command, GoTo, Ends, Raises, AfterUfw, Prepare, KeepDaemonJson,
           WriteDaemonJson, RestartDockerFails, ClearOpenRule, UfwRules, UfwRulesFail, PushDropin, ReadFails,
           Abort, SshdUp, Verify, Cut, CleanHost, MoveOrEdit, Begin, SwitchToService, ReloadSshd, SshdGone, Reboot
      <4> QED
        BY <4>1 DEF Switch
    <3> QED
      BY <3>1, <3>2
  <2>3. socket.active /\ service.enabled /\ ~service.active => at' = "idle" /\ KeyOnly(Effective')
    <3> SUFFICES ASSUME socket.active, service.enabled, ~service.active
                 PROVE  at' = "idle" /\ KeyOnly(Effective')
      OBVIOUS
    <3>1. at = "idle" /\ KeyOnly(Effective)
      BY DEF Switch
    <3>2. ~Begin
      BY <1>6, <1>0 DEF Begin, Activates, daemon, Unit
    <3>3. at' = "idle" /\ UNCHANGED files
      BY <3>1, <3>2 DEF Next, HardenSshd, vars, command, Prepare, KeepDaemonJson,
         WriteDaemonJson, RestartDockerFails, ClearOpenRule, UfwRules, UfwRulesFail, PushDropin, ReadFails,
         Abort, CheckDropin, SshdUp, Verify, Cut, CleanHost, MoveOrEdit, SwitchToService, ReloadSshd, SshdGone, Reboot
    <3> QED
      BY <3>1, <3>3, EffectiveFrame
  <2> QED
    BY <2>1, <2>2, <2>3 DEF Switch
<1> QED
  BY <1>1, <1>2, <1>3, <1>4, <1>5, <1>6, Frames

(* What a command leaves of the steps that it has not come to yet. *)
LEMMA Course ==
  ASSUME [Next]_vars
  PROVE  /\ at' = "check" => PushDropin \/ UNCHANGED at
         /\ at' = "apply" => CheckDropin \/ UNCHANGED at
         /\ at' = "await" => SwitchToService \/ ReloadSshd \/ UNCHANGED at
         /\ at' = "read" => UfwRules \/ UfwRulesFail \/ UNCHANGED at
         /\ at' = "verify" => UfwRules \/ UfwRulesFail \/ SshdUp \/ UNCHANGED at
  BY DEF Next, HardenSshd, vars, command, GoTo, Ends, Raises, AfterUfw, Begin, Prepare, KeepDaemonJson,
     WriteDaemonJson, RestartDockerFails, ClearOpenRule, UfwRules, UfwRulesFail, PushDropin, ReadFails, Abort,
     CheckDropin, SwitchToService, ReloadSshd, SshdUp, SshdGone, Verify, Cut, CleanHost, MoveOrEdit, Reboot

(* Within a command only the steps that change the site change it. *)
LEMMA Still ==
  ASSUME [Next]_vars, UNCHANGED at, at # "idle"
  PROVE  UNCHANGED <<disablePw, dropin, owners, service, socket, loaded, faults, files, daemon, outcome, conflict>>
  BY DEF Next, HardenSshd, vars, GoTo, Ends, Raises, AfterUfw, Begin, Prepare, KeepDaemonJson,
     WriteDaemonJson, RestartDockerFails, ClearOpenRule, UfwRules, UfwRulesFail, PushDropin, ReadFails, Abort,
     CheckDropin, SwitchToService, ReloadSshd, SshdUp, SshdGone, Verify, Cut, CleanHost, MoveOrEdit, Reboot,
     operator, files, daemon, history, command

LEMMA HardeningStep == TypeOK /\ Units /\ Switch /\ Hardening /\ [Next]_vars => Hardening'
<1> SUFFICES ASSUME TypeOK, Units, Switch, Hardening, [Next]_vars PROVE Hardening'
  OBVIOUS
<1>1. CASE UNCHANGED at /\ at # "idle"
  <2>1. Effective' = Effective /\ (SshdListening' <=> SshdListening) /\ UNCHANGED <<disablePw, dropin, loaded, faults>>
    BY <1>1, Still, EffectiveFrame, ListeningFrame
  <2> QED
    BY <1>1, <2>1 DEF Hardening
<1>2. CASE at' \notin {"read", "check", "apply", "await", "verify"}
  BY <1>2 DEF Hardening
<1>3. CASE UfwRules \/ UfwRulesFail
  BY <1>3 DEF UfwRules, UfwRulesFail, AfterUfw, GoTo, Hardening, operator
<1>4. CASE PushDropin
  BY <1>4 DEF PushDropin, GoTo, Hardening, operator
<1>5. CASE CheckDropin
  <2>1. Effective'.pw = "no" /\ Effective'.root = Effective.root
    BY <1>5 DEF CheckDropin, Effective, Hardening, KeyOnly
  <2> QED
    BY <1>5, <2>1 DEF CheckDropin, Hardening, KeyOnly, operator
<1>6. CASE SwitchToService
  <2>1. at' = "await" /\ disablePw' /\ KeyOnly(Effective') /\ Effective' = Effective
    BY <1>6, EffectiveFrame DEF SwitchToService, GoTo, Hardening, operator
  <2>2. CASE UNCHANGED <<loaded, owners, serving, socket, service>>
    BY <1>6, <2>1, <2>2 DEF SwitchToService, Switch, Hardening, SshdListening, Conflict
  <2>3. CASE loaded' = Effective
    BY <2>1, <2>3 DEF Hardening
  <2>4. CASE owners' = {}
    BY <2>1, <2>4 DEF Hardening, SshdListening
  <2> QED
    BY <1>6, <2>2, <2>3, <2>4 DEF SwitchToService
<1>7. CASE ReloadSshd
  <2>1. at' = "await" /\ disablePw' /\ KeyOnly(Effective') /\ Effective' = Effective
    BY <1>7, EffectiveFrame DEF ReloadSshd, GoTo, Hardening, operator
  <2>2. loaded' = Effective \/ "reload" \in faults' \/ "sshd" \notin owners'
    BY <1>7 DEF ReloadSshd
  <2> QED
    BY <2>1, <2>2 DEF Hardening, SshdListening
<1>8. CASE SshdUp
  BY <1>8 DEF SshdUp, GoTo, Hardening, daemon, history
<1> QED
  BY <1>1, <1>2, <1>3, <1>4, <1>5, <1>6, <1>7, <1>8, Course

LEMMA UnservedStep == TypeOK /\ Units /\ Switch /\ Unserved /\ [Next]_vars => Unserved'
<1> SUFFICES ASSUME TypeOK, Units, Switch, Unserved, [Next]_vars PROVE Unserved'
  OBVIOUS
<1>1. CASE Begin
  BY <1>1 DEF Begin, CanLogin, Unserved
<1>2. CASE SwitchToService
  BY <1>2 DEF SwitchToService, GoTo, Unserved, history
<1>3. CASE ReloadSshd
  <2>1. at = "apply" /\ ~Conflict /\ TypeOK
    BY <1>3 DEF ReloadSshd, Switch
  <2>2. CASE UNCHANGED serving
    BY <1>3, <2>1, <2>2 DEF ReloadSshd, Unserved
  <2>3. CASE "death" \in faults'
    BY <2>3 DEF Unserved
  <2> QED
    BY <1>3, <2>1, <2>2, <2>3 DEF ReloadSshd
<1>4. CASE SshdGone
  <2>1. CASE conflict
    BY <1>4, <2>1 DEF SshdGone, Unserved
  <2>2. CASE ~conflict
    BY <1>4, <2>2 DEF SshdGone, Raises, Ends, Unserved
  <2> QED
    BY <2>1, <2>2
<1>5. CASE Reboot
  BY <1>5 DEF Reboot, Units, Unserved
<1>6. CASE UNCHANGED daemon
  <2>1. UNCHANGED <<serving, owners, service>>
    BY <1>6 DEF daemon
  <2>2. CASE CleanHost
    BY <2>1, <2>2 DEF CleanHost, CanLogin, Unserved
  <2>3. CASE Cut
    BY <2>1, <2>3 DEF Cut, Ends, Unserved
  <2>4. CASE MoveOrEdit \/ UNCHANGED vars
    BY <2>1, <2>4 DEF MoveOrEdit, vars, Unserved, command, history
  <2>5. CASE SshdUp
    BY <2>1, <2>5 DEF SshdUp, SshdListening, Units, Unserved
  <2>6. CASE ~(Begin \/ Reboot \/ CleanHost \/ Cut \/ MoveOrEdit \/ UNCHANGED vars \/ SshdUp \/ SwitchToService
               \/ ReloadSshd \/ SshdGone)
    <3>1. at \notin {"idle", "await"} /\ faults \subseteq faults'
      BY <2>6 DEF Next, HardenSshd, Prepare, KeepDaemonJson, WriteDaemonJson, RestartDockerFails,
         ClearOpenRule, UfwRules, UfwRulesFail, PushDropin, ReadFails, Abort, CheckDropin, Verify, history
    <3> QED
      BY <2>1, <3>1 DEF Unserved
  <2> QED
    BY <1>1, <1>2, <1>3, <1>4, <1>5, <2>2, <2>3, <2>4, <2>5, <2>6
<1> QED
  BY <1>1, <1>2, <1>3, <1>4, <1>5, <1>6, Frames

-----------------------------------------------------------------------------
(* The login *)

LEMMA LoginInit == Init => LoginWorks
<1> SUFFICES ASSUME Init PROVE LoginWorks
  OBVIOUS
<1>1. loaded = Effective /\ AuthWorks /\ ~dropin /\ ConfigAccepts(auth, disablePw)
  BY DEF Init
<1>2. Works(loaded) /\ Effective.root = own.root
  BY <1>1 DEF AuthWorks, Works, Effective
<1> QED
  BY <1>1, <1>2 DEF LoginWorks, Works, ConfigAccepts

LEMMA LoginStep == TypeOK /\ Hardening /\ LoginWorks /\ [Next]_vars => LoginWorks'
<1> SUFFICES ASSUME TypeOK, Hardening, LoginWorks, [Next]_vars PROVE LoginWorks'
  OBVIOUS
<1>1. UNCHANGED <<user, auth, port, own>>
  BY Frames
\* A site that logs in by password never comes to change the files.
<1>3. CASE PushDropin \/ Abort \/ CheckDropin
  <2>1. disablePw /\ UNCHANGED <<operator, loaded>> /\ auth # "password"
    BY <1>3 DEF PushDropin, Abort, CheckDropin, Hardening, LoginWorks, daemon
  <2>2. Effective'.root = own.root \/ Effective'.root = "prohibit-password"
    BY <1>1 DEF Effective
  <2>3. auth = "key"
    BY <2>1 DEF TypeOK
  <2>4. (auth = "password" => Effective'.pw = "yes")
        /\ (user = "root" => Effective'.root = "yes" \/ (auth = "key" /\ Effective'.root # "no"))
    BY <2>2, <2>3 DEF LoginWorks
  <2> QED
    BY <1>1, <2>1, <2>3, <2>4 DEF LoginWorks, Works
<1>4. CASE UNCHANGED files
  <2>1. UNCHANGED <<dropin, own>> /\ Effective' = Effective
    BY <1>4, EffectiveFrame DEF files
  <2>2. loaded' = loaded \/ loaded' = Effective
    <3>1. CASE UNCHANGED daemon
      BY <3>1 DEF daemon
    <3>2. CASE Begin \/ SwitchToService \/ ReloadSshd \/ SshdGone \/ Reboot
      BY <3>2 DEF Begin, Activates, SwitchToService, ReloadSshd, SshdGone, Reboot
    <3> QED
      BY <3>1, <3>2, Frames
  <2>3. auth = "password" => ~disablePw'
    <3>1. CASE UNCHANGED operator
      BY <3>1 DEF operator, LoginWorks
    <3>2. CASE MoveOrEdit
      BY <3>2 DEF MoveOrEdit, ConfigAccepts, LoginWorks
    <3> QED
      BY <3>1, <3>2, Frames
  <2> QED
    BY <1>1, <2>1, <2>2, <2>3 DEF LoginWorks, Works
<1> QED
  BY <1>3, <1>4, Frames

-----------------------------------------------------------------------------
(* What a command found *)

LEMMA BeforeInit == Init => Before
  BY DEF Init, Before

LEMMA BeforeStep == TypeOK /\ Before /\ [Next]_vars => Before'
<1> SUFFICES ASSUME TypeOK, Before, [Next]_vars PROVE Before'
  OBVIOUS
<1>1. CASE Begin
  <2>1. Effective' = Effective /\ UNCHANGED dropin
    BY <1>1, EffectiveFrame DEF Begin, files
  <2> QED
    BY <1>1, <2>1 DEF Begin, Before
<1>2. CASE PushDropin
  <2>1. hadDropin' <=> hadDropin
    BY <1>2 DEF PushDropin, history
  <2>2. ~hadDropin => before' = Without'
    BY <1>2 DEF PushDropin, Before, Effective, Without, history
  <2> QED
    BY <1>2, <2>1, <2>2 DEF PushDropin, GoTo, Before
<1>3. CASE at' \notin {"prepare", "daemon.json", "clear", "ufw", "read", "check"}
  BY <1>3 DEF Before
<1>4. CASE at' \in {"prepare", "daemon.json", "clear", "ufw", "read", "check"} /\ ~Begin /\ ~PushDropin
  <2>1. UNCHANGED <<files, before, hadDropin>>
    BY <1>4 DEF Next, HardenSshd, vars, command, history, GoTo, Ends, Raises, AfterUfw, Prepare,
       KeepDaemonJson, WriteDaemonJson, RestartDockerFails, ClearOpenRule, UfwRules, UfwRulesFail, ReadFails,
       Abort, CheckDropin, SwitchToService, ReloadSshd, SshdUp, SshdGone, Verify, Cut, CleanHost, MoveOrEdit,
       Reboot
  <2>2. \/ at' = "check" /\ at = "check"
        \/ /\ at \in {"prepare", "daemon.json", "clear", "ufw", "read"}
           /\ at' \in {"prepare", "daemon.json", "clear", "ufw", "read"}
    BY <1>4 DEF Next, HardenSshd, vars, command, GoTo, Ends, Raises, AfterUfw, Prepare,
       KeepDaemonJson, WriteDaemonJson, RestartDockerFails, ClearOpenRule, UfwRules, UfwRulesFail, ReadFails,
       Abort, CheckDropin, SwitchToService, ReloadSshd, SshdUp, SshdGone, Verify, Cut, CleanHost, MoveOrEdit,
       Reboot
  <2>3. Effective' = Effective /\ Without' = Without /\ UNCHANGED dropin
    BY <2>1, EffectiveFrame DEF files, Without
  <2> QED
    BY <2>1, <2>2, <2>3 DEF Before
<1> QED
  BY <1>1, <1>2, <1>3, <1>4

-----------------------------------------------------------------------------
(* The firewall *)

LEMMA FirewallInit == Init => Firewall
  BY DEF Init, Firewall, Known, Cleared, Ruled

LEMMA MonitorFrame == UNCHANGED operator /\ UNCHANGED file => MonitorIps' = MonitorIps /\ ClientIp' = ClientIp
  BY DEF operator, file, MonitorIps, ClientIp

(* The steps of base's commands, and those that end one. *)
LEMMA Steady ==
  ASSUME [Next]_vars, at' # "idle", ~Begin
  PROVE  /\ at # "idle" /\ UNCHANGED <<operator, file>>
         /\ Prepare \/ UNCHANGED mine
         /\ faults \subseteq faults'
  BY DEF Next, HardenSshd, vars, command, history, GoTo, Ends, Raises, AfterUfw, Prepare,
     KeepDaemonJson, WriteDaemonJson, RestartDockerFails, ClearOpenRule, UfwRules, UfwRulesFail, PushDropin,
     ReadFails, Abort, CheckDropin, SwitchToService, ReloadSshd, SshdUp, SshdGone, Verify, Cut, CleanHost,
     MoveOrEdit, Reboot

LEMMA FirewallStep == TypeOK /\ Firewall /\ [Next]_vars => Firewall'
<1> SUFFICES ASSUME TypeOK, Firewall, [Next]_vars PROVE Firewall'
  OBVIOUS
<1>0. MonitorIps \subseteq Sources /\ mine \subseteq Sources /\ "any" \notin Sources
  BY HardeningAssumption DEF TypeOK, MonitorIps
<1>1. CASE at' = "idle"
  <2>1. mine' = {}
    BY <1>1 DEF Next, HardenSshd, vars, command, GoTo, Ends, Raises, AfterUfw, Begin, Prepare,
       KeepDaemonJson, WriteDaemonJson, RestartDockerFails, ClearOpenRule, UfwRules, UfwRulesFail, PushDropin,
       ReadFails, Abort, CheckDropin, SwitchToService, ReloadSshd, SshdUp, SshdGone, Verify, Cut, CleanHost,
       MoveOrEdit, Reboot, Firewall
  <2> QED
    BY <1>1, <2>1 DEF Firewall, Known, Cleared, Ruled
<1>2. CASE Begin
  BY <1>2 DEF Begin, Firewall, Known, Cleared, Ruled
<1>3. CASE at' # "idle" /\ ~Begin
  <2>1. UNCHANGED <<operator, file>> /\ faults \subseteq faults' /\ (Prepare \/ UNCHANGED mine)
    BY <1>3, Steady
  <2>2. MonitorIps' = MonitorIps /\ ClientIp' = ClientIp
    BY <2>1, MonitorFrame
  <2>3. CASE Prepare
    BY <2>2, <2>3 DEF Prepare, Firewall, Known, Cleared, Ruled
  <2>4. CASE ClearOpenRule
    <3>1. at = "clear" /\ at' = "ufw" /\ UNCHANGED mine
      BY <2>4 DEF ClearOpenRule, GoTo
    <3>2. MonitorIps # {} /\ "delete" \notin faults' => "any" \notin rules'
      BY <2>4 DEF ClearOpenRule
    <3> QED
      BY <2>2, <3>1, <3>2 DEF Firewall, Known, Cleared, Ruled
  <2>5. CASE UfwRules \/ UfwRulesFail
    <3>1. at = "ufw" /\ at' \in {"read", "verify"} /\ UNCHANGED <<mine, faults>>
      BY <2>5 DEF UfwRules, UfwRulesFail, AfterUfw, GoTo, history
    <3>2. SshRules' = SshRules
      BY <2>2, <3>1 DEF SshRules, AllowList
    <3>3. clean' => SshRules \subseteq rules'
      BY <2>5 DEF UfwRules, UfwRulesFail
    <3>4. MonitorIps # {} => "any" \notin SshRules
      BY <1>0 DEF SshRules, AllowList
    <3>5. "any" \in rules' => "any" \in rules \/ "any" \in SshRules
      BY <2>5 DEF UfwRules, UfwRulesFail
    <3> QED
      BY <2>2, <3>1, <3>2, <3>3, <3>4, <3>5 DEF Firewall, Known, Cleared, Ruled
  <2>6. CASE ~(Prepare \/ ClearOpenRule \/ UfwRules \/ UfwRulesFail)
    <3>1. UNCHANGED rules
      BY <1>3, <2>6 DEF Next, HardenSshd, vars, firewall, Ends, Raises, KeepDaemonJson, WriteDaemonJson,
         RestartDockerFails, PushDropin, ReadFails, Abort, CheckDropin, SwitchToService, ReloadSshd, SshdUp,
         SshdGone, Verify, Cut, CleanHost, command, MoveOrEdit, Reboot
    <3>2. /\ at' \in Known => at \in Known
          /\ at' \in Cleared => at \in Cleared
          /\ at' \in Ruled => at \in Ruled
          /\ at' = "prepare" => at = "prepare"
          /\ at' \in Ruled /\ clean' => clean
      BY <1>3, <2>6 DEF Next, HardenSshd, vars, command, GoTo, Ends, Raises, KeepDaemonJson, WriteDaemonJson,
         RestartDockerFails, PushDropin, ReadFails, Abort, CheckDropin, SwitchToService, ReloadSshd, SshdUp,
         SshdGone, Verify, Cut, CleanHost, MoveOrEdit, Reboot, Known, Cleared, Ruled
    <3>3. UNCHANGED mine /\ SshRules' = SshRules
      BY <2>1, <2>2, <2>6 DEF SshRules, AllowList
    <3> QED
      BY <1>3, <2>1, <2>2, <3>1, <3>2, <3>3 DEF Firewall
  <2> QED
    BY <2>3, <2>4, <2>5, <2>6
<1> QED
  BY <1>1, <1>2, <1>3

-----------------------------------------------------------------------------
(* The invariant *)

Inv == TypeOK /\ Units /\ Switch /\ Hardening /\ Unserved /\ LoginWorks /\ Before /\ Firewall

LEMMA Invariance == Spec => []Inv
<1>1. Init => Inv
  BY TypeInit, UnitsInit, SwitchInit, LoginInit, BeforeInit, FirewallInit DEF Inv
<1>2. Inv /\ [Next]_vars => Inv'
  BY TypeStep, UnitsStep, SwitchStep, HardeningStep, UnservedStep, LoginStep, BeforeStep, FirewallStep DEF Inv
<1> QED
  BY <1>1, <1>2, PTL DEF Spec

(* The type invariant of a host under base_setup.py. *)
THEOREM TypeCorrect == Spec => []TypeOK
<1>1. Inv => TypeOK
  BY DEF Inv
<1> QED
  BY <1>1, Invariance, PTL

(* Whenever base does not run, the host serves logins of charmer's kind and *)
(* will after a reboot (base_setup.py:449-488), but for the two exceptions. *)
THEOREM TheWayInStays == Spec => []WayInIsKept
<1>1. Inv => WayInIsKept
  <2> SUFFICES ASSUME Inv, at = "idle"
               PROVE  /\ outcome # "cut" /\ "death" \notin faults => serving
                      /\ socket.enabled \/ service.enabled
                      /\ AuthWorks
    BY DEF WayInIsKept
  <2>1. outcome # "cut" /\ "death" \notin faults => serving
    BY DEF Inv, Unserved
  <2>2. socket.enabled \/ service.enabled
    BY DEF Inv, Units
  <2>3. AuthWorks
    BY DEF Inv, LoginWorks, Works, AuthWorks
  <2> QED
    BY <2>1, <2>2, <2>3
<1> QED
  BY <1>1, Invariance, PTL

-----------------------------------------------------------------------------
(* What a finished base guarantees.  Between two runs of it the outcome    *)
(* stays, unless somebody moves, edits, cleans or reboots.                 *)

(* A step that does not end a run of base. *)
LEMMA Idle ==
  ASSUME [Next]_vars, at' = "idle", at = "idle"
  PROVE  \/ MoveOrEdit \/ CleanHost \/ Reboot \/ UNCHANGED vars
  BY DEF Next, HardenSshd, GoTo, Ends, Raises, AfterUfw, Begin, Prepare, KeepDaemonJson, WriteDaemonJson,
     RestartDockerFails, ClearOpenRule, UfwRules, UfwRulesFail, PushDropin, ReadFails, Abort, CheckDropin,
     SwitchToService, ReloadSshd, SshdUp, SshdGone, Verify, Cut

LEMMA JustDoneComes ==
  ASSUME TypeOK, [Next]_vars, JustDone' PROVE (Verify /\ VerifyOk) \/ (JustDone /\ UNCHANGED vars)
<1>1. CASE at = "idle"
  <2>1. ~(MoveOrEdit \/ CleanHost \/ Reboot)
    BY DEF JustDone, MoveOrEdit, CleanHost, Reboot
  <2>2. UNCHANGED vars
    BY <1>1, <2>1, Idle DEF JustDone
  <2>3. UNCHANGED <<at, status, outcome, moved>>
    BY <2>2 DEF vars, file, command, history
  <2> QED
    BY <2>2, <2>3 DEF JustDone
<1>2. CASE at # "idle"
  BY <1>2 DEF Next, HardenSshd, JustDone, GoTo, Ends, Raises, AfterUfw, Begin, Prepare, KeepDaemonJson, WriteDaemonJson,
     RestartDockerFails, ClearOpenRule, UfwRules, UfwRulesFail, PushDropin, ReadFails, Abort, CheckDropin,
     SwitchToService, ReloadSshd, SshdUp, SshdGone, Verify, Cut, CleanHost, MoveOrEdit, Reboot, vars, command
<1> QED
  BY <1>1, <1>2

(* A property of what base leaves behind holds when it holds of every verify *)
(* that passes.                                                              *)
LEMMA DoneIsKeyOnlyStep == Inv /\ Inv' /\ DoneIsKeyOnly /\ [Next]_vars => DoneIsKeyOnly'
<1> SUFFICES ASSUME Inv, DoneIsKeyOnly, [Next]_vars, JustDone', disablePw', "reload" \notin faults'
             PROVE  KeyOnly(loaded') /\ serving'
  BY DEF DoneIsKeyOnly
<1>0. TypeOK /\ Units /\ Hardening
  BY DEF Inv
<1>1. CASE Verify /\ VerifyOk
  <2>1. at = "verify" /\ UNCHANGED <<disablePw, faults, loaded, serving>>
    BY <1>1 DEF Verify, operator, daemon
  <2>2. serving
    BY <1>0, <1>1, <2>1 DEF VerifyOk, SshdListening, Units
  <2> QED
    BY <1>0, <2>1, <2>2 DEF Hardening
<1>2. CASE JustDone /\ UNCHANGED vars
  BY <1>2 DEF DoneIsKeyOnly, vars, operator, daemon, history
<1> QED
  BY <1>0, <1>1, <1>2, JustDoneComes

(* base is done with disable_password_auth only when the running sshd       *)
(* refuses passwords and is served (base_setup.py:26-37), unless the reload *)
(* was refused.                                                             *)
THEOREM KeyOnlyIsReal == Spec => []DoneIsKeyOnly
<1>1. Init => DoneIsKeyOnly
  BY DEF Init, DoneIsKeyOnly, JustDone
<1> QED
  BY <1>1, DoneIsKeyOnlyStep, Invariance, PTL DEF Spec

LEMMA ScopingStep == Inv /\ Inv' /\ ScopingIsReal /\ [Next]_vars => ScopingIsReal'
<1> SUFFICES ASSUME Inv, ScopingIsReal, [Next]_vars, JustDone', MonitorIps' # {}, "delete" \notin faults'
             PROVE  "any" \notin rules'
  BY DEF ScopingIsReal
<1>0. TypeOK /\ Firewall
  BY DEF Inv
<1>1. CASE Verify /\ VerifyOk
  <2>1. at = "verify" /\ UNCHANGED <<rules, faults, monitor, answer>>
    BY <1>1 DEF Verify, operator, firewall
  <2>2. MonitorIps' = MonitorIps
    BY <2>1 DEF MonitorIps
  <2> QED
    BY <1>0, <2>1, <2>2 DEF Firewall, Cleared, Ruled
<1>2. CASE JustDone /\ UNCHANGED vars
  <2>1. UNCHANGED <<rules, faults, monitor, answer>>
    BY <1>2 DEF vars, operator, file, firewall, history
  <2>2. MonitorIps' = MonitorIps
    BY <2>1 DEF MonitorIps
  <2> QED
    BY <1>2, <2>1, <2>2 DEF ScopingIsReal
<1> QED
  BY <1>0, <1>1, <1>2, JustDoneComes

(* With an allow-list, a base that is done has closed ssh to the rest of the *)
(* world (base_setup.py:386-402), if the open rule could be deleted.         *)
THEOREM ScopingHolds == Spec => []ScopingIsReal
<1>1. Init => ScopingIsReal
  BY DEF Init, ScopingIsReal, JustDone
<1> QED
  BY <1>1, ScopingStep, Invariance, PTL DEF Spec

LEMMA DoorStep == Inv /\ Inv' /\ CleanReportKeepsTheDoor /\ [Next]_vars => CleanReportKeepsTheDoor'
<1> SUFFICES ASSUME Inv, CleanReportKeepsTheDoor, [Next]_vars, JustDone', clean', port' = 22,
                    user' = "sudo" => MonitorIps' = {} \/ src' \in MonitorIps'
             PROVE  ufwOn' => "any" \in rules' \/ src' \in rules'
  BY DEF CleanReportKeepsTheDoor, Admitted
<1>0. TypeOK /\ Firewall
  BY DEF Inv
<1>1. CASE Verify /\ VerifyOk
  <2>1. at = "verify" /\ UNCHANGED <<rules, ufwOn, monitor, answer, user, src, port, clean>>
    BY <1>1 DEF Verify, operator, firewall
  <2>2. MonitorIps' = MonitorIps
    BY <2>1 DEF MonitorIps
  <2>3. SshRules \subseteq rules /\ mine = IF MonitorIps # {} THEN ClientIp ELSE {}
    BY <1>0, <2>1 DEF Firewall, Known, Cleared, Ruled
  <2>4. CASE MonitorIps = {}
    BY <2>1, <2>3, <2>4 DEF SshRules, AllowList
  <2>5. CASE MonitorIps # {} /\ user = "sudo"
    BY <2>1, <2>2, <2>3, <2>5 DEF SshRules, AllowList
  <2>6. CASE MonitorIps # {} /\ user = "root"
    BY <2>1, <2>3, <2>6 DEF SshRules, AllowList, ClientIp
  <2> QED
    BY <1>0, <2>4, <2>5, <2>6 DEF TypeOK
<1>2. CASE JustDone /\ UNCHANGED vars
  <2>1. UNCHANGED <<rules, ufwOn, monitor, answer, user, src, port, clean>>
    BY <1>2 DEF vars, operator, file, firewall, command
  <2>2. MonitorIps' = MonitorIps
    BY <2>1 DEF MonitorIps
  <2> QED
    BY <1>2, <2>1, <2>2 DEF CleanReportKeepsTheDoor, Admitted
<1> QED
  BY <1>0, <1>1, <1>2, JustDoneComes

(* A base that ended well with a clean report admits charmer's next          *)
(* connection from the same place (README "SSH source scoping"), but for the *)
(* two named exceptions.                                                     *)
THEOREM TheDoorStaysOpen == Spec => []CleanReportKeepsTheDoor
<1>1. Init => CleanReportKeepsTheDoor
  BY DEF Init, CleanReportKeepsTheDoor, JustDone
<1> QED
  BY <1>1, DoorStep, Invariance, PTL DEF Spec

LEMMA AbortStep == Inv /\ Inv' /\ AbortRestoresSshd /\ [Next]_vars => AbortRestoresSshd'
<1> SUFFICES ASSUME Inv, AbortRestoresSshd, [Next]_vars, at' = "idle", outcome' = "aborted", ~hadDropin'
             PROVE  Effective' = before'
  BY DEF AbortRestoresSshd
<1>0. TypeOK /\ Before
  BY DEF Inv
<1>1. CASE ReadFails
  BY <1>0, <1>1, EffectiveFrame DEF ReadFails, Raises, Ends, Before
<1>2. CASE Abort
  <2>1. before = Without /\ UNCHANGED before
    BY <1>0, <1>2 DEF Abort, Raises, Ends, Before
  <2>2. Effective' = Without
    BY <1>2 DEF Abort, Effective, Without
  <2> QED
    BY <2>1, <2>2
<1>3. CASE at = "idle"
  <2>1. UNCHANGED <<files, outcome, before, hadDropin>>
    BY <1>3, Idle DEF MoveOrEdit, CleanHost, Reboot, vars, history
  <2> QED
    BY <1>3, <2>1, EffectiveFrame DEF AbortRestoresSshd
<1> QED
  BY <1>0, <1>1, <1>2, <1>3 DEF Next, HardenSshd, GoTo, Ends, Raises, AfterUfw, Begin, Prepare, KeepDaemonJson, WriteDaemonJson,
     RestartDockerFails, ClearOpenRule, UfwRules, UfwRulesFail, PushDropin, CheckDropin,
     SwitchToService, ReloadSshd, SshdUp, SshdGone, Verify, Cut, CleanHost, MoveOrEdit, Reboot, vars, command

(* On a host that was not hardened before, an aborted hardening leaves what *)
(* sshd's files say as it was (base_setup.py:415-417).                      *)
THEOREM AbortIsClean == Spec => []AbortRestoresSshd
<1>1. Init => AbortRestoresSshd
  BY DEF Init, AbortRestoresSshd
<1> QED
  BY <1>1, AbortStep, Invariance, PTL DEF Spec


-----------------------------------------------------------------------------
(* ComesToDone but for the fairness.  Assured is its precondition, carried  *)
(* through the command.  That sshd listens again at the end needs Held: a   *)
(* running ssh.service that does not hold the port is enabled, so that      *)
(* whoever serves the login is sshd or the conflict that the switch mends.  *)
Place(s) ==
  CASE s = "idle" -> 0 [] s = "prepare" -> 1 [] s = "daemon.json" -> 2 [] s = "clear" -> 3 [] s = "ufw" -> 4
    [] s = "read" -> 5 [] s = "check" -> 6 [] s = "apply" -> 7 [] s = "await" -> 8 [] s = "verify" -> 9

Held == service.active /\ "sshd" \notin owners => service.enabled

Answering == SshdListening \/ Conflict

Assured ==
  /\ upsets = MaxUpsets /\ docker # "engine" /\ ~(disablePw /\ own.early)
  /\ at = "idle" => CanLogin(src)
  /\ at \in {"idle", "prepare", "daemon.json"} => ~(stub /\ daemonJson /\ ~dnsLoaded /\ docker = "compose")
  /\ at = "daemon.json" => docker = "compose"
  /\ at \in {"clear"} \cup Cleared => docker = "compose" /\ DnsWorks
  /\ at \in Ruled => ufwOn /\ MonitorIps \subseteq rules
  /\ at \notin {"idle", "await", "verify"} => Answering
  /\ at = "check" => KeyOnly(Effective)
  /\ at = "await" => SshdListening
  /\ at = "verify" /\ disablePw => KeyOnly(Effective) /\ SshdListening

LEMMA HeldInit == Init => Held
  BY InitUnits DEF Init, Held, Serves

LEMMA HeldStep == TypeOK /\ Units /\ Held /\ [Next]_vars => Held'
<1> SUFFICES ASSUME TypeOK, Units, Held, [Next]_vars PROVE Held'
  OBVIOUS
<1>1. CASE Begin
  BY <1>1, UnitFields DEF Begin, Activates, Held
<1>2. CASE SwitchToService
  BY <1>2, UnitFields DEF SwitchToService, Held
<1>3. CASE ReloadSshd
  BY <1>3, UnitFields DEF ReloadSshd, Held, Unit
<1>4. CASE SshdGone
  BY <1>4, UnitFields DEF SshdGone, Held
<1>5. CASE Reboot
  BY <1>5, UnitFields DEF Reboot, Held, Unit
<1>6. CASE UNCHANGED daemon
  BY <1>6 DEF daemon, Held
<1> QED
  BY <1>1, <1>2, <1>3, <1>4, <1>5, <1>6, Frames

LEMMA AssuredStep ==
  Inv /\ Held /\ Assured /\ Next => (Assured' /\ Place(at) < Place(at')) \/ status' = "done"
<1> SUFFICES ASSUME Inv, Held, Assured, Next
             PROVE  (Assured' /\ Place(at) < Place(at')) \/ status' = "done"
  OBVIOUS
<1> USE DEF Assured, Ruled, Cleared
<1>u. ~Upset
  BY HardeningAssumption DEF Upset
<1>d. /\ UNCHANGED daemon => (SshdListening' <=> SshdListening) /\ (Conflict' <=> Conflict)
      /\ UNCHANGED files => Effective' = Effective
      /\ UNCHANGED operator => UNCHANGED <<disablePw, monitor, src>>
      /\ UNCHANGED files => UNCHANGED own
      /\ UNCHANGED engine => UNCHANGED <<docker, daemonJson, dnsLoaded, stub>> /\ (DnsWorks' <=> DnsWorks)
      /\ UNCHANGED <<monitor, answer>> => MonitorIps' = MonitorIps
  BY EffectiveFrame, ListeningFrame DEF operator, files, engine, DnsWorks, MonitorIps
<1>1. CASE Begin
  <2>1. SshdListening' \/ Conflict'
    <3>1. owners # {} /\ owners \subseteq {"sshd", "systemd"}
      BY <1>1 DEF Begin, CanLogin, Inv, Units, TypeOK
    <3>2. CASE socket.active /\ ~service.active
      <4>1. "sshd" \in owners' /\ service' = [service EXCEPT !.active = TRUE]
        BY <1>1, <3>2 DEF Begin, Activates
      <4> QED
        BY <4>1, UnitFields DEF SshdListening, Inv, Unit, TypeOK
    <3>3. CASE ~(socket.active /\ ~service.active)
      <4>1. UNCHANGED <<owners, service, socket>>
        BY <1>1, <3>3 DEF Begin, Activates
      <4>2. SshdListening \/ Conflict
        BY <3>1, <3>3 DEF Inv, Units, Held, SshdListening, Conflict
      <4> QED
        BY <4>1, <4>2 DEF SshdListening, Conflict
    <3> QED
      BY <3>2, <3>3
  <2>2. at = "idle" /\ at' = "prepare" /\ UNCHANGED <<upsets, operator, files, engine>>
    BY <1>1 DEF Begin
  <2>3. Assured'
    BY <1>d, <2>1, <2>2 DEF Answering
  <2> QED
    BY <2>2, <2>3 DEF Place
<1>2. CASE Prepare
  <2>1. /\ at = "prepare" /\ at' = "daemon.json" /\ UNCHANGED <<upsets, operator, files, daemon, daemonJson, stub>>
        /\ docker' = "compose" /\ dnsLoaded' = (dnsLoaded \/ (docker = "absent" /\ daemonJson))
    BY <1>2, <1>u DEF Prepare, Calm
  <2>2. docker = "absent" \/ docker = "compose"
    BY DEF Inv, TypeOK
  <2>3. ~(stub' /\ daemonJson' /\ ~dnsLoaded')
    BY <2>1, <2>2
  <2>4. Answering'
    BY <1>d, <2>1 DEF Answering
  <2>5. Assured'
    BY <1>d, <2>1, <2>3, <2>4
  <2> QED
    BY <2>1, <2>5 DEF Place
<1>3. CASE KeepDaemonJson \/ WriteDaemonJson
  <2>1. /\ at = "daemon.json" /\ at' = "clear" /\ UNCHANGED <<upsets, operator, files, daemon, docker, stub>>
        /\ (daemonJson /\ UNCHANGED dnsLoaded) \/ dnsLoaded'
    BY <1>3 DEF KeepDaemonJson, WriteDaemonJson, GoTo, engine
  <2>2. DnsWorks'
    BY <2>1 DEF DnsWorks
  <2>3. Assured'
    BY <1>d, <2>1, <2>2 DEF Answering
  <2> QED
    BY <2>1, <2>3 DEF Place
<1>4. CASE ClearOpenRule
  <2>1. at = "clear" /\ at' = "ufw" /\ UNCHANGED <<upsets, operator, files, daemon, engine>>
    BY <1>4, <1>u DEF ClearOpenRule, GoTo, Calm
  <2>2. Assured'
    BY <1>d, <2>1 DEF Answering
  <2> QED
    BY <2>1, <2>2 DEF Place
<1>5. CASE UfwRules
  <2>1. /\ at = "ufw" /\ at' = (IF disablePw THEN "read" ELSE "verify")
        /\ UNCHANGED <<upsets, operator, answer, files, daemon, engine>>
        /\ ufwOn' /\ rules' = rules \cup SshRules
    BY <1>5 DEF UfwRules, AfterUfw, GoTo, file
  <2>2. MonitorIps' \subseteq rules'
    BY <1>d, <2>1 DEF SshRules, AllowList
  <2>3. Assured'
    BY <1>d, <2>1, <2>2 DEF Answering
  <2> QED
    BY <2>1, <2>3 DEF Place
<1>6. CASE PushDropin
  <2>1. /\ at = "read" /\ at' = "check" /\ UNCHANGED <<upsets, operator, answer, firewall, own, daemon, engine>>
        /\ dropin' /\ rootLine' = (Effective.root # "no")
    BY <1>6 DEF PushDropin, GoTo, file
  <2>2. disablePw
    BY <2>1 DEF Inv, Hardening
  <2>3. Effective'.pw = "no" /\ Effective'.root \in {"prohibit-password", "no"}
    BY <2>1, <2>2 DEF Effective
  <2>4. Assured'
    BY <1>d, <2>1, <2>3 DEF Answering, KeyOnly, firewall
  <2> QED
    BY <2>1, <2>4 DEF Place
<1>7. CASE CheckDropin
  <2>1. /\ at = "check" /\ at' = "apply" /\ UNCHANGED <<upsets, operator, answer, firewall, own, daemon, engine>>
    BY <1>7 DEF CheckDropin, file
  <2>2. Assured'
    BY <1>d, <2>1 DEF Answering, firewall
  <2> QED
    BY <2>1, <2>2 DEF Place
<1>8. CASE SwitchToService \/ ReloadSshd
  <2>1. /\ at = "apply" /\ at' = "await"
        /\ UNCHANGED <<upsets, operator, answer, firewall, files, engine>>
    BY <1>8, <1>u DEF SwitchToService, ReloadSshd, GoTo, file, Calm
  <2>2. conflict <=> Conflict
    BY <2>1 DEF Inv, Switch
  <2>3. SshdListening'
    <3>1. CASE SwitchToService
      BY <1>u, <3>1 DEF SwitchToService, SshdListening
    <3>2. CASE ReloadSshd
      BY <1>u, <2>1, <2>2, <3>2 DEF ReloadSshd, SshdListening, Answering
    <3> QED
      BY <1>8, <3>1, <3>2
  <2>4. Assured'
    BY <1>d, <2>1, <2>3 DEF firewall
  <2> QED
    BY <2>1, <2>4 DEF Place
<1>9. CASE SshdUp
  <2>1. /\ at = "await" /\ at' = "verify"
        /\ UNCHANGED <<upsets, operator, answer, firewall, files, daemon, engine>>
    BY <1>9 DEF SshdUp, GoTo, file
  <2>2. KeyOnly(Effective)
    BY <2>1 DEF Inv, Hardening
  <2>3. Assured'
    BY <1>d, <2>1, <2>2 DEF firewall
  <2> QED
    BY <2>1, <2>3 DEF Place
<1>10. CASE Verify
  <2>0. at = "verify" /\ MonitorIps \subseteq rules
    BY <1>10 DEF Verify
  <2>m. \A ip \in MonitorIps : Mentioned(ip)
    BY <2>0 DEF Mentioned
  <2>1. VerifyOk
    BY <2>0, <2>m DEF VerifyOk
  <2> QED
    BY <1>10, <2>1 DEF Verify
<1>11. CASE \/ RestartDockerFails \/ UfwRulesFail \/ ReadFails \/ Abort \/ SshdGone \/ Cut
            \/ CleanHost \/ MoveOrEdit \/ Reboot
  BY <1>11, <1>u DEF RestartDockerFails, UfwRulesFail, ReadFails, Abort, SshdGone, Cut, CleanHost, MoveOrEdit, Reboot
<1> QED
  BY <1>1, <1>2, <1>3, <1>4, <1>5, <1>6, <1>7, <1>8, <1>9, <1>10, <1>11 DEF Next, HardenSshd

(* Where ComesToDone promises an end, Assured holds until base is done, and *)
(* every step is one to a later step of the one command it takes.           *)
THEOREM CloserToDone ==
  Spec => /\ [](at = "idle" => (Assured <=> Recoverable))
          /\ [][Assured => (Assured' /\ Place(at) < Place(at')) \/ status' = "done"]_vars
<1>1. at = "idle" => (Assured <=> Recoverable)
  BY DEF Assured, Recoverable, Cleared, Ruled
<1>2. Inv /\ Held /\ [Next]_vars => [Assured => (Assured' /\ Place(at) < Place(at')) \/ status' = "done"]_vars
  BY AssuredStep
<1>3. Inv /\ Held /\ [Next]_vars => Held'
  BY HeldStep DEF Inv
<1>4. Spec => []Held
  BY <1>3, HeldInit, Invariance, PTL DEF Spec
<1> QED
  BY <1>1, <1>2, <1>4, Invariance, PTL DEF Spec
=============================================================================

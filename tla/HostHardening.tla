---------------------------- MODULE HostHardening ----------------------------
(***************************************************************************)
(* The `base` phase on one host (phases/base_setup.py, hostchecks.py): the *)
(* docker daemon's resolvers, the UFW rules that scope ssh, and the switch *)
(* of sshd to key-only logins.  Each action is one remote command, or the  *)
(* commands between which nothing else is read; the process may be cut     *)
(* between any two of them.  A chain of commands joined by && stops at the *)
(* one that fails.  base works on the hosts one after another and on each  *)
(* alone, so one host is modelled.                                         *)
(***************************************************************************)
EXTENDS Naturals

CONSTANTS
  Sources,    \* addresses that ssh connections come from
  Within,     \* pairs of them: the text of the first is part of that of the second
  Users,      \* how charmer may be logged in: "root", or "sudo" (become)
  Ports,      \* the ports that ssh.port may name
  Machines,   \* the hosts base may meet (see Machine)
  MaxUpsets   \* bound on faults, cuts and everything done behind charmer's back

(* A host before charmer: UFW already on (with ssh open), a pre-0.9.0 drop-in, *)
(* sshd's other files, who serves ssh, docker, and whether containers get the  *)
(* resolver stub that they cannot reach.                                       *)
Machine == [ufw : BOOLEAN, legacy : BOOLEAN,
            own : [early : BOOLEAN, cloud : BOOLEAN, root : {"yes", "prohibit-password", "no"}],
            sshd : {"plain", "activated", "conflict"},
            docker : {"absent", "engine", "compose"}, stub : BOOLEAN]

ASSUME HardeningAssumption ==
  /\ "any" \notin Sources /\ Within \subseteq Sources \X Sources /\ MaxUpsets \in Nat
  /\ Users \subseteq {"root", "sudo"} /\ Ports \subseteq Nat
  /\ Machines \subseteq Machine

VARIABLES
  \* what the config, the operator and the network decide
  user, auth, port, src,   \* the login, ssh.auth and ssh.port, and where it comes from
  monitor,           \* config file: monitor.ips
  disablePw,         \* config file: ssh.disable_password_auth
  \* the state file
  status, asked, answer,   \* base's status; the pinned answer to the prompt
  \* the host
  rules, ufwOn,            \* UFW's allow rules for port 22; whether it is enabled
  dropin, rootLine,        \* 01-charmer-hardening.conf exists; has a PermitRootLogin
  legacy,                  \* 60-charmer-key-only.conf exists
  own,                     \* sshd's other files: [early, cloud : BOOLEAN, root]
  loaded,                  \* the [pw, root] that the running sshd has read
  owners, serving,         \* who holds the ssh port; whether new logins are served
  socket, service,         \* the units ssh.socket and ssh.service: [active, enabled]
  docker, daemonJson, dnsLoaded, stub,  \* dnsLoaded: dockerd has read daemon.json
  \* the running command
  at, mine, conflict, clean,   \* mine: its own source address, once it is known
  \* about the commands so far
  before, hadDropin, outcome, faults, moved, upsets

operator == <<user, auth, port, src, monitor, disablePw>>
file     == <<status, asked, answer>>
firewall == <<rules, ufwOn>>
files    == <<dropin, rootLine, legacy, own>>
daemon   == <<loaded, owners, serving, socket, service>>
engine   == <<docker, daemonJson, dnsLoaded, stub>>
command  == <<at, mine, conflict, clean>>
history  == <<before, hadDropin, outcome, faults, moved>>
vars     == <<operator, file, firewall, files, daemon, engine, command, history, upsets>>

Unit   == [active : BOOLEAN, enabled : BOOLEAN]
Root   == {"yes", "prohibit-password", "no"}
Config == [pw : {"yes", "no"}, root : Root]
Steps  == {"idle", "prepare", "daemon.json", "clear", "ufw", "read", "check", "apply", "await", "verify"}

TypeOK ==
  /\ user \in {"root", "sudo"} /\ auth \in {"key", "password"} /\ src \in Sources /\ monitor \subseteq Sources
  /\ disablePw \in BOOLEAN /\ port \in Nat
  /\ status \in {"pending", "done", "failed"} /\ asked \in BOOLEAN /\ answer \subseteq Sources
  /\ rules \subseteq Sources \cup {"any"} /\ ufwOn \in BOOLEAN
  /\ dropin \in BOOLEAN /\ rootLine \in BOOLEAN /\ legacy \in BOOLEAN
  /\ own \in [early : BOOLEAN, cloud : BOOLEAN, root : Root]
  /\ loaded \in Config /\ owners \subseteq {"sshd", "systemd"} /\ serving \in BOOLEAN
  /\ socket \in Unit /\ service \in Unit
  /\ docker \in {"absent", "engine", "compose"}
  /\ daemonJson \in BOOLEAN /\ dnsLoaded \in BOOLEAN /\ stub \in BOOLEAN
  /\ at \in Steps /\ mine \subseteq {src} /\ conflict \in BOOLEAN /\ clean \in BOOLEAN
  /\ before \in Config /\ hadDropin \in BOOLEAN
  /\ outcome \in {"none", "ended", "aborted", "raised", "cut"}
  /\ faults \subseteq {"delete", "reload", "death"} /\ moved \in BOOLEAN
  /\ upsets \in 0..MaxUpsets

-----------------------------------------------------------------------------
(* sshd's files: sshd keeps the first value it reads, sshd_config before its *)
(* Include line (own.early), then the drop-ins in lexical order: 01-charmer, *)
(* 50-cloud-init (own.cloud), 60-charmer (legacy).                           *)
Effective ==
  [pw   |-> IF ~own.early /\ (dropin \/ (legacy /\ ~own.cloud)) THEN "no" ELSE "yes",
   root |-> IF dropin /\ rootLine THEN "prohibit-password" ELSE own.root]

KeyOnly(cfg) == cfg.pw = "no" /\ cfg.root # "yes"

(* systemd holds the port while ssh.service is enabled as well: the state in *)
(* which sshd, told to reload, cannot bind the port again.                   *)
Conflict == socket.active /\ service.enabled /\ "systemd" \in owners

(* The three ways a host serves ssh when charmer first meets it. *)
Serves(how) ==
  /\ socket = [active |-> how # "plain", enabled |-> how # "plain"]
  /\ service = [active |-> TRUE, enabled |-> how # "activated"]
  /\ owners = (IF how = "plain" THEN {} ELSE {"systemd"})
                \cup (IF how = "conflict" THEN {} ELSE {"sshd"})
  /\ serving = TRUE

(* Mutant: the combination that locks the operator out is accepted. *)
ConfigAcceptsAll(a, d) == a \in {"key", "password"} /\ d \in BOOLEAN

(* _validate_ssh() refuses key-only sshd for a login by password. *)
ConfigAccepts(a, d) == ~(d /\ a = "password")

(* charmer's login works with what the running sshd accepts. *)
AuthWorks == /\ auth = "password" => loaded.pw = "yes"
             /\ user = "root" => loaded.root = "yes" \/ (auth = "key" /\ loaded.root # "no")

Init ==
  /\ user \in Users /\ auth \in {"key", "password"} /\ port \in Ports /\ src \in Sources
  /\ monitor \in SUBSET Sources
  /\ disablePw \in BOOLEAN /\ ConfigAccepts(auth, disablePw)
  /\ status = "pending" /\ asked = FALSE /\ answer = {}
  /\ \E m \in Machines :
       /\ ufwOn = m.ufw /\ rules = (IF m.ufw THEN {"any"} ELSE {})
       /\ legacy = m.legacy /\ own = m.own
       /\ Serves(m.sshd)
       /\ docker = m.docker /\ stub = m.stub
  /\ dropin = FALSE /\ rootLine = FALSE /\ loaded = Effective /\ AuthWorks
  /\ daemonJson = FALSE /\ dnsLoaded = FALSE
  /\ at = "idle" /\ mine = {} /\ conflict = FALSE /\ clean = TRUE
  /\ before = Effective /\ hadDropin = FALSE /\ outcome = "none"
  /\ faults = {} /\ moved = FALSE /\ upsets = 0

-----------------------------------------------------------------------------
(* Helpers *)

(* A new connection from address s gets through to a login.  Port 22 is the *)
(* only one the rules speak of.                                             *)
Admitted(s) == ufwOn => port = 22 /\ ("any" \in rules \/ s \in rules)
CanLogin(s) == serving /\ AuthWorks /\ Admitted(s)

(* _monitor_ips_pinned(): the config wins, then the pinned answer. *)
MonitorIps == IF monitor # {} THEN monitor ELSE answer

(* Mutant: only what the operator typed. *)
AllowListTyped == MonitorIps

(* node_mon_ips: the address of the running connection comes last. *)
AllowList == IF MonitorIps = {} THEN {} ELSE MonitorIps \cup mine

GoTo(step) == at' = step /\ UNCHANGED <<mine, conflict>>
Ends(how) ==
  /\ at' = "idle" /\ mine' = {} /\ conflict' = FALSE /\ outcome' = how
  /\ UNCHANGED <<before, hadDropin, moved>>
Raises(how) == Ends(how) /\ status' = "failed" /\ UNCHANGED <<asked, answer, clean>>

Upset == upsets < MaxUpsets /\ upsets' = upsets + 1
Calm  == UNCHANGED upsets

-----------------------------------------------------------------------------
(* apply() *)

(* A connection to a socket whose ssh.service is down starts the service. *)
Activates ==
  IF socket.active /\ ~service.active
  THEN /\ service' = [service EXCEPT !.active = TRUE]
       /\ owners' = owners \cup {"sshd"} /\ loaded' = Effective
  ELSE UNCHANGED <<service, owners, loaded>>

(* `charm provision` reaches base: preflight has connected.  Without         *)
(* monitor.ips the operator is asked once, and the answer is pinned.         *)
Begin ==
  /\ at = "idle" /\ CanLogin(src) /\ Activates
  /\ at' = "prepare" /\ conflict' = FALSE /\ clean' = TRUE
  /\ IF monitor = {} /\ ~asked
     THEN asked' = TRUE /\ answer' \in SUBSET Sources
     ELSE UNCHANGED <<asked, answer>>
  /\ before' = Effective /\ hadDropin' = dropin
  /\ outcome' = "none" /\ faults' = {} /\ moved' = FALSE
  /\ UNCHANGED <<operator, status, firewall, files, serving, socket, engine, mine, upsets>>

(* _client_ip(): the command runs under sudo, which drops $SSH_CLIENT, when *)
(* charmer is not logged in as root.                                        *)
ClientIp == IF user = "root" THEN {src} ELSE {}

(* Packages and Docker CE.  A docker without compose is left alone; what     *)
(* fails is recorded and gone past.                                          *)
Prepare ==
  /\ at = "prepare"
  /\ mine' = IF MonitorIps # {} THEN ClientIp ELSE {}
  /\ \/ /\ docker # "engine" /\ Calm
        /\ docker' = "compose" /\ UNCHANGED clean
        /\ dnsLoaded' = (dnsLoaded \/ (docker = "absent" /\ daemonJson))
     \/ /\ IF docker = "engine" THEN Calm ELSE docker = "absent" /\ Upset
        /\ clean' = FALSE /\ UNCHANGED <<docker, dnsLoaded>>
  /\ at' = "daemon.json"
  /\ UNCHANGED <<operator, file, firewall, files, daemon, daemonJson, stub, conflict, history>>

(* daemon.json is written, and docker restarted, only when there is no file. *)
KeepDaemonJson ==
  /\ at = "daemon.json" /\ daemonJson
  /\ GoTo("clear")
  /\ UNCHANGED <<operator, file, firewall, files, daemon, engine, clean, history, upsets>>

(* Mutant: docker is left running with the resolvers it had. *)
WriteDaemonJsonOnly ==
  /\ at = "daemon.json" /\ ~daemonJson /\ docker # "absent"
  /\ daemonJson' = TRUE
  /\ GoTo("clear")
  /\ UNCHANGED <<operator, file, firewall, files, daemon, docker, dnsLoaded, stub, clean, history, upsets>>

WriteDaemonJson ==
  /\ at = "daemon.json" /\ ~daemonJson /\ docker # "absent"
  /\ daemonJson' = TRUE /\ dnsLoaded' = TRUE
  /\ GoTo("clear")
  /\ UNCHANGED <<operator, file, firewall, files, daemon, docker, stub, clean, history, upsets>>

RestartDockerFails ==
  /\ at = "daemon.json" /\ ~daemonJson
  /\ IF docker = "absent" THEN Calm ELSE Upset
  /\ daemonJson' = TRUE
  /\ Raises("raised")
  /\ UNCHANGED <<operator, firewall, files, daemon, docker, dnsLoaded, stub, faults>>

(* Mutant: the open rule is cleared on the first run only. *)
ClearOpenRuleOnce ==
  /\ at = "clear" /\ Calm
  /\ rules' = (IF MonitorIps # {} /\ status = "pending" THEN rules \ {"any"} ELSE rules)
  /\ GoTo("ufw")
  /\ UNCHANGED <<operator, file, ufwOn, files, daemon, engine, clean, history>>

(* `ufw delete allow ssh; ...; true`, whose failure nothing looks at. *)
ClearOpenRule ==
  /\ at = "clear"
  /\ IF MonitorIps = {} THEN Calm /\ UNCHANGED <<rules, faults>>
     ELSE \/ Calm /\ rules' = rules \ {"any"} /\ UNCHANGED faults
          \/ Upset /\ faults' = faults \cup {"delete"} /\ UNCHANGED rules
  /\ GoTo("ufw")
  /\ UNCHANGED <<operator, file, ufwOn, files, daemon, engine, clean,
                 before, hadDropin, outcome, moved>>

SshRules == IF AllowList = {} THEN {"any"} ELSE AllowList

(* After base's last command on the firewall. *)
AfterUfw == GoTo(IF disablePw THEN "read" ELSE "verify")

(* Default policies, the ssh rules, the public ports, enable. *)
UfwRules ==
  /\ at = "ufw"
  /\ rules' = rules \cup SshRules /\ ufwOn' = TRUE
  /\ AfterUfw
  /\ UNCHANGED <<operator, file, files, daemon, engine, clean, history, upsets>>

(* One command of the chain fails: recorded, not raised. *)
UfwRulesFail ==
  /\ at = "ufw" /\ Upset
  /\ \E some \in SUBSET SshRules :
       /\ some \cap mine # {} => some = SshRules
       /\ rules' = rules \cup some
  /\ clean' = FALSE
  /\ AfterUfw
  /\ UNCHANGED <<operator, file, ufwOn, files, daemon, engine, history>>

(* _harden_sshd(): the current PermitRootLogin decides about the line. *)
PushDropin ==
  /\ at = "read"
  /\ dropin' = TRUE /\ rootLine' = (Effective.root # "no")
  /\ GoTo("check")
  /\ UNCHANGED <<operator, file, firewall, legacy, own, daemon, engine, clean, history, upsets>>

(* `sshd -T` cannot be read: nothing has been written yet. *)
ReadFails ==
  /\ at = "read" /\ Upset
  /\ Raises("aborted")
  /\ UNCHANGED <<operator, firewall, files, daemon, engine, faults>>

(* Mutant: the old drop-in is removed before the new one is known to win. *)
AbortEarlyLegacy ==
  /\ at = "check"
  /\ IF KeyOnly(Effective) THEN Upset ELSE Calm
  /\ dropin' = FALSE /\ rootLine' = FALSE /\ legacy' = FALSE
  /\ Raises("aborted")
  /\ UNCHANGED <<operator, firewall, own, daemon, engine, faults>>

(* abort(): `sshd -t` fails, or a value read earlier wins over the drop-in. *)
Abort ==
  /\ at = "check"
  /\ IF KeyOnly(Effective) THEN Upset ELSE Calm
  /\ dropin' = FALSE /\ rootLine' = FALSE
  /\ Raises("aborted")
  /\ UNCHANGED <<operator, firewall, legacy, own, daemon, engine, faults>>

(* The drop-in wins: the old one goes, and the units are looked at. *)
CheckDropin ==
  /\ at = "check" /\ KeyOnly(Effective)
  /\ legacy' = FALSE /\ conflict' = Conflict
  /\ at' = "apply"
  /\ UNCHANGED <<operator, file, firewall, dropin, rootLine, own, daemon, engine,
                 mine, clean, history, upsets>>

(* SSH_SOCKET_CONFLICT_FIX; its three commands may fail one by one.  Once    *)
(* the socket is gone, the port is free until ssh.service holds it.          *)
SwitchToService ==
  /\ at = "apply" /\ conflict
  /\ \/ /\ Calm /\ loaded' = Effective
        /\ owners' = {"sshd"} /\ serving' = TRUE
        /\ socket' = [active |-> FALSE, enabled |-> FALSE]
        /\ service' = [active |-> TRUE, enabled |-> TRUE]
     \/ /\ Upset /\ UNCHANGED <<loaded, owners, serving, socket, service>>
     \/ /\ Upset /\ owners' = {} /\ serving' = FALSE
        /\ socket' = [active |-> FALSE, enabled |-> FALSE]
        /\ service' = [active |-> FALSE, enabled |-> TRUE] /\ UNCHANGED loaded
  /\ GoTo("await")
  /\ UNCHANGED <<operator, file, firewall, files, engine, clean, history>>

(* `systemctl reload`: it may be refused, which nothing looks at as long as *)
(* the old sshd listens, or sshd may die on it, as it does in a conflict;   *)
(* with socket activation the socket starts another for the next login.     *)
ReloadSshd ==
  /\ at = "apply" /\ ~conflict
  /\ \/ /\ Calm /\ ~Conflict /\ loaded' = Effective
        /\ UNCHANGED <<owners, serving, service, faults>>
     \/ /\ Upset /\ faults' = faults \cup {"reload"}
        /\ UNCHANGED <<loaded, owners, serving, service>>
     \/ /\ IF Conflict THEN Calm /\ UNCHANGED faults
                       ELSE Upset /\ faults' = faults \cup {"death"}
        /\ owners' = owners \ {"sshd"} /\ serving' = (socket.active /\ ~service.enabled)
        /\ service' = [service EXCEPT !.active = FALSE] /\ UNCHANGED loaded
  /\ GoTo("await")
  /\ UNCHANGED <<operator, file, firewall, files, socket, engine, clean,
                 before, hadDropin, outcome, moved>>

(* Mutant: any process on the port will do. *)
SshdListeningAny == owners # {} /\ service.active

(* _sshd_listening() *)
SshdListening == "sshd" \in owners /\ service.active

SshdUp ==
  /\ at = "await" /\ SshdListening
  /\ GoTo("verify")
  /\ UNCHANGED <<operator, file, firewall, files, daemon, engine, clean, history, upsets>>

(* Mutant: the socket is left disabled. *)
SshdGoneForgets ==
  /\ at = "await" /\ ~SshdListening
  /\ Raises("raised")
  /\ UNCHANGED <<operator, firewall, files, daemon, engine, faults, upsets>>

(* sshd never comes up: a switched host gets its socket back. *)
SshdGone ==
  /\ at = "await" /\ ~SshdListening
  /\ IF conflict
     THEN /\ socket' = [active |-> TRUE, enabled |-> TRUE]
          /\ owners' = owners \cup {"systemd"} /\ serving' = TRUE
     ELSE UNCHANGED <<socket, owners, serving>>
  /\ Raises("raised")
  /\ UNCHANGED <<operator, firewall, files, loaded, service, engine, faults, upsets>>

-----------------------------------------------------------------------------
(* verify() and the runner's verdict *)

DnsWorks == stub => dnsLoaded

(* grep -qF: the address is looked for anywhere in the text of the rules. *)
Mentioned(ip) == \E r \in rules : r = ip \/ <<ip, r>> \in Within

VerifyOk ==
  /\ docker = "compose" /\ ufwOn /\ \A ip \in MonitorIps : Mentioned(ip)
  /\ disablePw => KeyOnly(Effective) /\ SshdListening
  /\ DnsWorks

(* Mutant: a word that the state file does not know. *)
VerifyUnknown ==
  /\ at = "verify"
  /\ status' = IF VerifyOk THEN "ok" ELSE "failed"
  /\ Ends("ended")
  /\ UNCHANGED <<operator, asked, answer, firewall, files, daemon, engine, clean, faults, upsets>>

Verify ==
  /\ at = "verify"
  /\ status' = IF VerifyOk THEN "done" ELSE "failed"
  /\ Ends("ended")
  /\ UNCHANGED <<operator, asked, answer, firewall, files, daemon, engine, clean, faults, upsets>>

(* The process dies, or the connection does, between two commands. *)
Cut ==
  /\ at # "idle" /\ Upset
  /\ Ends("cut")
  /\ UNCHANGED <<operator, file, firewall, files, daemon, engine, clean, faults>>

-----------------------------------------------------------------------------
(* `charm clean`, and what happens to the host in between *)

(* `ufw --force reset && ufw allow ssh && ufw --force enable`; reset also    *)
(* disables.  The state file is archived; sshd is left as it is.             *)
CleanHost ==
  /\ at = "idle" /\ CanLogin(src) /\ Upset
  /\ \E done \in 1..3 : /\ rules' = IF done = 1 THEN {} ELSE {"any"}
                        /\ ufwOn' = (done = 3)
  /\ status' = "pending" /\ asked' = FALSE /\ answer' = {}
  /\ outcome' = "none" /\ faults' = {}
  /\ UNCHANGED <<operator, files, daemon, engine, command, before, hadDropin, moved>>

(* The operator works from elsewhere, or edits the config. *)
MoveOrEdit ==
  /\ at = "idle" /\ Upset /\ moved' = TRUE
  /\ \/ src' \in Sources \ {src} /\ UNCHANGED <<monitor, disablePw>>
     \/ monitor' \in SUBSET Sources \ {monitor} /\ UNCHANGED <<src, disablePw>>
     \/ /\ ConfigAccepts(auth, ~disablePw)
        /\ disablePw' = ~disablePw /\ UNCHANGED <<src, monitor>>
  /\ UNCHANGED <<user, auth, port, file, firewall, files, daemon, engine, command,
                 before, hadDropin, outcome, faults>>

(* Each unit comes up as it is enabled, and everything reads its files. *)
Reboot ==
  /\ at = "idle" /\ Upset
  /\ loaded' = Effective /\ dnsLoaded' = (daemonJson /\ docker # "absent")
  /\ socket' = [socket EXCEPT !.active = socket.enabled]
  /\ service' = [service EXCEPT !.active = socket.enabled \/ service.enabled]
  /\ serving' = (socket.enabled \/ service.enabled)
  /\ owners' = (IF socket.enabled THEN {"systemd"} ELSE {})
                 \cup (IF socket.enabled /\ service.enabled THEN {} ELSE {"sshd"})
  /\ outcome' = "none" /\ faults' = {}
  /\ UNCHANGED <<operator, file, firewall, files, docker, daemonJson, stub, command,
                 before, hadDropin, moved>>

-----------------------------------------------------------------------------
HardenSshd ==
  \/ PushDropin \/ ReadFails \/ Abort \/ CheckDropin
  \/ SwitchToService \/ ReloadSshd \/ SshdUp \/ SshdGone

Next ==
  \/ Begin \/ Prepare \/ KeepDaemonJson \/ WriteDaemonJson \/ RestartDockerFails
  \/ ClearOpenRule \/ UfwRules \/ UfwRulesFail \/ HardenSshd
  \/ Verify \/ Cut \/ CleanHost \/ MoveOrEdit \/ Reboot

Spec == Init /\ [][Next]_vars

Advance ==
  \/ Prepare \/ KeepDaemonJson \/ WriteDaemonJson \/ RestartDockerFails
  \/ ClearOpenRule \/ UfwRules \/ HardenSshd \/ Verify

(* A command goes on until it ends, and base is run again as long as it is *)
(* possible to log in.                                                     *)
FairSpec == Spec /\ WF_vars(Advance) /\ WF_vars(Begin)

-----------------------------------------------------------------------------
(* Properties *)

(* base has just been done, and nobody has moved or edited anything since. *)
JustDone == at = "idle" /\ status = "done" /\ outcome = "ended" /\ ~moved

(* README "SSH source scoping": after a base that is done with no failed     *)
(* line in its report, charmer's next connection from the same place gets    *)
(* through.  Named exceptions: an ssh.port other than 22, and a charmer that *)
(* works through sudo from an address that monitor.ips leaves out.           *)
CleanReportKeepsTheDoor ==
  JustDone /\ clean /\ port = 22 /\ (user = "sudo" => MonitorIps = {} \/ src \in MonitorIps)
    => Admitted(src)

(* base_setup.py:250 "so charmer never locks itself out", without the second *)
(* exception.  Violated: under sudo $SSH_CLIENT is empty, and the address of *)
(* the running connection never joins the allow-list.                        *)
NeverLocksItselfOut == JustDone /\ clean /\ port = 22 => Admitted(src)

(* base_setup.py:415-417 "every failure before the reload removes the        *)
(* drop-in again": on a host that was not hardened before, an aborted        *)
(* hardening leaves sshd's effective configuration what it was, for the next *)
(* restart of sshd to read.                                                  *)
AbortRestoresSshd ==
  at = "idle" /\ outcome = "aborted" /\ ~hadDropin => Effective = before

(* README "base" 4 and config.py:69-73: whenever no command runs, the host   *)
(* serves logins of the kind charmer uses, and would after a reboot: a       *)
(* switch from ssh.socket that fails puts the socket back.  Except when the  *)
(* process was cut, or an sshd without a socket died on a plain reload.      *)
WayInIsKept ==
  at = "idle" =>
    /\ outcome # "cut" /\ "death" \notin faults => serving
    /\ socket.enabled \/ service.enabled
    /\ AuthWorks

(* base_setup.py:26-37: base is done on a host with disable_password_auth    *)
(* only when the running sshd, not just its files, refuses passwords; except *)
(* after a reload that was refused while the old sshd went on listening,     *)
(* which _harden_sshd() does not look at.                                    *)
DoneIsKeyOnly == JustDone /\ disablePw /\ "reload" \notin faults => KeyOnly(loaded) /\ serving

(* base_setup.py:64-68: with a populated allow-list ssh is no longer open to *)
(* anywhere once base is done, if the old open rule could be deleted.        *)
ScopingIsReal ==
  JustDone /\ MonitorIps # {} /\ "delete" \notin faults => "any" \notin rules

(* Nothing goes wrong any more, and none of three things that base does not  *)
(* recover from is the case: a docker that came without compose, an          *)
(* sshd_config line that beats every drop-in, and the daemon.json of a run   *)
(* whose docker restart failed, which the re-run takes for its own and does  *)
(* not restart docker for.                                                   *)
Recoverable ==
  /\ upsets = MaxUpsets /\ at = "idle" /\ CanLogin(src) /\ docker # "engine"
  /\ ~(disablePw /\ own.early)
  /\ ~(stub /\ daemonJson /\ ~dnsLoaded /\ docker = "compose")

(* README "a re-run ... resumes at the frontier", for base: when nothing     *)
(* goes wrong any more, running it again gets it done from wherever the      *)
(* failures before left the host.                                            *)
ComesToDone == Recoverable ~> status = "done"
=============================================================================

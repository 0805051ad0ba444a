------------------------------ MODULE Footprint ------------------------------
(***************************************************************************)
(* What a site occupies on its Pangolin host, from an empty machine to the *)
(* stack and back: the rules config.py sets for ports, the `preflight`     *)
(* phase that looks for whatever is in the way (preflight.py), the         *)
(* `pangolin` phase that pins its secrets, writes /opt/pangolin and starts *)
(* the containers (pangolin_phase.py, of which only the footprint is kept  *)
(* here; the rollout is in Stack), and `charm clean` (clean_phase.py,      *)
(* cli.py), which takes it all away and archives the state file.  Other    *)
(* tenants of the host come and go behind charmer's back.                  *)
(***************************************************************************)
EXTENDS Integers

CONSTANTS
  Configs,    \* the config files that the operator may write (see Config)
  Sites,      \* the machines the site may be given (see Site)
  Tenants,    \* what else may be on the Pangolin host (see Tenant)
  MaxUpsets   \* bound on faults, cuts, cleans, replays, edits and tenants' moves

(* pg: the loopback port of postgres, 0 when it is not published; api: that *)
(* of the integration API, which is published when apiOn.                   *)
Config == [production : BOOLEAN, refuse : BOOLEAN, pg : Nat, api : Nat, apiOn : BOOLEAN,
           tls : BOOLEAN, acme : BOOLEAN]

(* Low disk, a docker API on TCP, the site's name resolves; for every agent *)
(* whether charmer gets in, and whether a tun device can be made.           *)
Site == [low : BOOLEAN, tcpApi : BOOLEAN, dns : BOOLEAN, agents : SUBSET [in : BOOLEAN, tun : BOOLEAN]]

(* A process ("none"), or a container by its name: one of the stack's own    *)
(* names ("exact"), a name with one of them in it ("similar"), or one with   *)
(* it in capitals ("cased").                                                 *)
Tenant == [name : {"none", "exact", "similar", "cased"}, up : BOOLEAN, ports : SUBSET Int]

ASSUME FootprintAssumption ==
  /\ Configs \subseteq Config /\ Sites \subseteq Site /\ Tenants \subseteq Tenant
  /\ MaxUpsets \in Nat

VARIABLES
  cfg, site,          \* the config file; the machines
  tenants,            \* the tenants that are on the host now
  status,             \* state file: the statuses of preflight and pangolin
  pin,                \* state file: the pinned secrets, numbered; 0: none
  ours, held,         \* the stack's containers, and the ports they hold
  dir, data,          \* /opt/pangolin; the secrets its database was made with
  at,                 \* the running command
  secrets,            \* how many secrets have been generated so far
  checked,            \* what the last preflight that passed has seen
  orphaned, torn,     \* clean removed the files but not the containers; clean
                      \* did not get as far as archiving the state file
  upsets

file  == <<status, pin>>
stack == <<ours, held, dir, data>>
past  == <<secrets, checked, orphaned, torn>>
vars  == <<cfg, site, tenants, file, stack, at, past, upsets>>

Phases == {"preflight", "pangolin"}
Steps  == {"idle", "preflight", "pin", "files", "up", "down", "remove", "archive"}

TypeOK ==
  /\ cfg \in Configs /\ site \in Sites /\ tenants \subseteq Tenants
  /\ status \in [Phases -> {"pending", "done", "failed"}]
  /\ pin \in 0..secrets /\ data \in 0..secrets /\ secrets \in 0..(MaxUpsets + 1)
  /\ ours \in {"none", "stopped", "up"} /\ held \subseteq Int /\ (ours # "up" => held = {})
  /\ dir \in BOOLEAN /\ at \in Steps
  /\ checked \in [tenants : SUBSET Tenants, cfg : Configs, fresh : BOOLEAN]
  /\ orphaned \in BOOLEAN /\ torn \in BOOLEAN
  /\ upsets \in 0..MaxUpsets

-----------------------------------------------------------------------------
(* config.py *)

Udp(p) == -p                      \* UDP ports are numbered below the TCP ports
WireGuard == {Udp(51820), Udp(21820)}
GerbilPorts == {80, 443} \cup WireGuard   \* REQUIRED_FREE_TCP_PORTS and _UDP_PORTS
PangolinApi == 3001
Maintenance == 8091
PgPort(c)  == IF c.pg = 0 THEN {} ELSE {c.pg}
ApiPort(c) == IF c.apiOn THEN {c.api} ELSE {}

(* load() refuses loopback ports that meet another loopback port; the one of *)
(* the integration API is looked at even when it is not published.           *)
Accepts(c) ==
  /\ c.api \in 1..65535 /\ c.api \notin {PangolinApi, Maintenance}
  /\ c.pg \in 0..65535 /\ c.pg \notin {PangolinApi, Maintenance, c.api}
  /\ c.acme => c.tls
  /\ c.production => c.tls

(* The ports of pangolin-compose.yml.j2: gerbil's on every address. *)
Public(c)   == {80} \cup WireGuard \cup (IF c.tls THEN {443} ELSE {})
Loopback(c) == {PangolinApi, Maintenance} \cup ApiPort(c) \cup PgPort(c)
Published(c) == Public(c) \cup Loopback(c)

Init ==
  /\ cfg \in Configs /\ Accepts(cfg) /\ site \in Sites
  /\ tenants \in SUBSET Tenants
  /\ status = [p \in Phases |-> "pending"] /\ pin = 0
  /\ ours = "none" /\ held = {} /\ dir = FALSE /\ data = 0
  /\ at = "idle" /\ secrets = 0
  /\ checked = [tenants |-> {}, cfg |-> cfg, fresh |-> FALSE]
  /\ orphaned = FALSE /\ torn = FALSE /\ upsets = 0

-----------------------------------------------------------------------------
(* preflight *)

Live   == {t \in tenants : t.up}
Taken  == UNION {t.ports : t \in Live}
Midlife == status["pangolin"] = "done"

(* Mutant: the postgres port of the config is not discounted. *)
ExpectedGerbil == IF Midlife THEN GerbilPorts ELSE {}

(* What a completed pangolin phase is taken to hold. *)
Expected == IF Midlife THEN GerbilPorts \cup PgPort(cfg) ELSE {}

(* Mutant: the postgres port is not looked at. *)
RequiredGerbil == GerbilPorts

Required == GerbilPorts \cup PgPort(cfg)

PortsFree == Required \cap (held \cup Taken) \subseteq Expected

(* docker ps lists what runs; names are searched without regard to case, and *)
(* compared with the completed phase's own with it.                          *)
Artifacts ==
  IF Midlife THEN \E t \in Live : t.name = "cased"
             ELSE ours = "up" \/ \E t \in Live : t.name # "none"

HostPasses ==
  /\ site.low => Midlife
  /\ PortsFree
  /\ cfg.refuse /\ Artifacts => Midlife
  /\ cfg.acme => site.dns

PreflightPasses ==
  /\ HostPasses
  /\ \A a \in site.agents : a.in /\ a.tun
  /\ site.tcpApi => ~cfg.production

-----------------------------------------------------------------------------
(* The commands *)

Upset == upsets < MaxUpsets /\ upsets' = upsets + 1

Mark(p, s) == status' = [status EXCEPT ![p] = s]

(* _preauth(): every command first gets in, as root, at every host, or ends. *)
(* The Pangolin host itself answers here; losing it half-way is a fault.     *)
Preauth == \A a \in site.agents : a.in

(* Mutant: only a phase that has never run is run. *)
ProvisionPending ==
  /\ at = "idle" /\ Preauth
  /\ \/ status["preflight"] # "done" /\ at' = "preflight"
     \/ status["preflight"] = "done" /\ status["pangolin"] = "pending" /\ at' = "pin"
  /\ UNCHANGED <<cfg, site, tenants, file, stack, past, upsets>>

(* `charm provision`: the first phase of the two that is not done. *)
Provision ==
  /\ at = "idle" /\ Preauth
  /\ \/ status["preflight"] # "done" /\ at' = "preflight"
     \/ status["preflight"] = "done" /\ status["pangolin"] # "done" /\ at' = "pin"
  /\ UNCHANGED <<cfg, site, tenants, file, stack, past, upsets>>

(* `charm provision --replay ...` marks its phases pending; the run follows. *)
Replay ==
  /\ at = "idle" /\ Preauth /\ Upset
  /\ \E S \in (SUBSET Phases) \ {{}} :
       status' = [p \in Phases |-> IF p \in S THEN "pending" ELSE status[p]]
  /\ UNCHANGED <<cfg, site, tenants, pin, stack, at, past>>

(* Mutant: a preflight that does not pass is marked with another word. *)
PreflightBlocked ==
  /\ at = "preflight"
  /\ \/ /\ PreflightPasses /\ Mark("preflight", "done") /\ UNCHANGED upsets
        /\ at' = (IF Midlife THEN "idle" ELSE "pin")
        /\ checked' = [tenants |-> tenants, cfg |-> cfg, fresh |-> ~Midlife]
     \/ ~PreflightPasses /\ Mark("preflight", "blocked") /\ at' = "idle" /\ UNCHANGED <<checked, upsets>>
  /\ UNCHANGED <<cfg, site, tenants, pin, stack, secrets, orphaned, torn>>

Preflight ==
  /\ at = "preflight"
  /\ \/ /\ PreflightPasses /\ Mark("preflight", "done") /\ UNCHANGED upsets
        /\ at' = (IF Midlife THEN "idle" ELSE "pin")
        /\ checked' = [tenants |-> tenants, cfg |-> cfg, fresh |-> ~Midlife]
     \/ ~PreflightPasses /\ Mark("preflight", "failed") /\ at' = "idle" /\ UNCHANGED <<checked, upsets>>
     \/ Mark("preflight", "failed") /\ at' = "idle" /\ Upset /\ UNCHANGED checked
  /\ UNCHANGED <<cfg, site, tenants, pin, stack, secrets, orphaned, torn>>

(* Mutant: a run of the phase generates the secrets anew. *)
PinAnew ==
  /\ at = "pin" /\ at' = "files"
  /\ secrets <= MaxUpsets /\ secrets' = secrets + 1 /\ pin' = secrets + 1
  /\ UNCHANGED <<cfg, site, tenants, status, stack, checked, orphaned, torn, upsets>>

(* _secrets(): generated once, and saved before anything is written. *)
Pin ==
  /\ at = "pin" /\ at' = "files"
  /\ IF pin = 0 THEN secrets' = secrets + 1 /\ pin' = secrets + 1 ELSE UNCHANGED <<secrets, pin>>
  /\ UNCHANGED <<cfg, site, tenants, status, stack, checked, orphaned, torn, upsets>>

(* mkdir and the pushed files. *)
Files ==
  /\ at = "files"
  /\ \/ at' = "up" /\ dir' = TRUE /\ UNCHANGED <<status, upsets>>
     \/ at' = "idle" /\ dir' \in {dir, TRUE} /\ Mark("pangolin", "failed") /\ Upset
  /\ UNCHANGED <<cfg, site, tenants, pin, ours, held, data, past>>

(* Two of the stack's own containers want one port. *)
SelfClash(c) == Public(c) \cap (ApiPort(c) \cup PgPort(c)) # {}

CanStart ==
  /\ Published(cfg) \cap Taken = {} /\ ~SelfClash(cfg)
  /\ \A t \in tenants : t.name # "exact"

(* The database as `up` finds or makes it: with the pinned password. *)
Initialised == IF data = 0 THEN pin ELSE data

Started == ours' = "up" /\ held' = Published(cfg) /\ data' = Initialised

(* What an `up` that fails, or is not waited for, may leave: everything as it *)
(* was, created containers, what starts before gerbil does, or all of it.     *)
StartedInPart ==
  \/ UNCHANGED <<ours, held, data>>
  \/ ours' = "stopped" /\ held' = {} /\ UNCHANGED data
  \/ ours' = "up" /\ held' = Loopback(cfg) \ Taken /\ data' = Initialised
  \/ CanStart /\ Started

(* docker compose up -d and the waits that follow. *)
Up ==
  /\ at = "up" /\ at' = "idle"
  /\ \/ /\ CanStart /\ Started /\ Mark("pangolin", "done")
        /\ orphaned' = FALSE /\ torn' = FALSE /\ UNCHANGED upsets
     \/ /\ StartedInPart /\ Mark("pangolin", "failed") /\ UNCHANGED <<orphaned, torn>>
        /\ IF CanStart THEN Upset ELSE UNCHANGED upsets
  /\ UNCHANGED <<cfg, site, tenants, pin, dir, secrets, checked>>

(* `charm clean`, with the flag a production site needs and its name typed.  *)
Clean ==
  /\ at = "idle" /\ Preauth /\ Upset /\ at' = "down"
  /\ UNCHANGED <<cfg, site, tenants, file, stack, past>>

(* cd /opt/pangolin && docker compose down -v: that it failed is recorded, *)
(* and clean goes on.                                                      *)
Down ==
  /\ at = "down" /\ at' = "remove"
  /\ \/ dir /\ ours' = "none" /\ held' = {} /\ UNCHANGED <<orphaned, upsets>>
     \/ /\ UNCHANGED <<ours, held>> /\ orphaned' = (ours # "none")
        /\ IF dir THEN Upset ELSE UNCHANGED upsets
  /\ torn' = TRUE
  /\ UNCHANGED <<cfg, site, tenants, file, dir, data, secrets, checked>>

(* Mutant: the state file is archived whether or not the files are gone. *)
RemoveUnverified ==
  /\ at = "remove" /\ at' = "archive"
  /\ \/ dir' = FALSE /\ data' = 0 /\ UNCHANGED upsets
     \/ UNCHANGED <<dir, data>> /\ Upset
  /\ UNCHANGED <<cfg, site, tenants, file, ours, held, past>>

(* rm -rf /opt/pangolin, the database with it, and verify(): clean archives *)
(* the state file only when the directory is gone.                          *)
Remove ==
  /\ at = "remove"
  /\ \/ dir' = FALSE /\ data' = 0 /\ at' = "archive" /\ UNCHANGED upsets
     \/ dir' = dir /\ data' \in {0, data} /\ at' = (IF dir THEN "idle" ELSE "archive") /\ Upset
  /\ UNCHANGED <<cfg, site, tenants, file, ours, held, past>>

(* Mutant: the pinned values are archived and the statuses stay. *)
ArchivePins ==
  /\ at = "archive" /\ at' = "idle" /\ torn' = FALSE
  /\ UNCHANGED status /\ pin' = 0
  /\ UNCHANGED <<cfg, site, tenants, stack, secrets, checked, orphaned, upsets>>

(* The state file is renamed: the next run starts from an empty one. *)
Archive ==
  /\ at = "archive" /\ at' = "idle" /\ torn' = FALSE
  /\ status' = [p \in Phases |-> "pending"] /\ pin' = 0
  /\ UNCHANGED <<cfg, site, tenants, stack, secrets, checked, orphaned, upsets>>

(* The process dies, or loses its connection, at a command to the host that *)
(* may have had its effect.                                                 *)
Die ==
  /\ at # "idle" /\ Upset /\ at' = "idle"
  /\ torn' = (torn \/ at \in {"down", "remove", "archive"})
  /\ \/ UNCHANGED stack
     \/ at = "files" /\ dir' = TRUE /\ UNCHANGED <<ours, held, data>>
     \/ at = "up" /\ StartedInPart /\ UNCHANGED dir
     \/ at = "down" /\ dir /\ ours' = "none" /\ held' = {} /\ UNCHANGED <<dir, data>>
     \/ at = "remove" /\ dir' \in {dir, FALSE} /\ data' = 0 /\ UNCHANGED <<ours, held>>
  /\ UNCHANGED <<cfg, site, tenants, file, secrets, checked, orphaned>>

-----------------------------------------------------------------------------
(* The world around *)

(* The operator edits the config between two commands. *)
EditConfig ==
  /\ at = "idle" /\ Upset
  /\ cfg' \in Configs /\ Accepts(cfg')
  /\ UNCHANGED <<site, tenants, file, stack, at, past>>

(* A disk fills up, a name stops resolving, an agent goes away. *)
SiteChanges ==
  /\ Upset /\ site' \in Sites
  /\ UNCHANGED <<cfg, tenants, file, stack, at, past>>

(* A tenant comes, if it can have its ports, or goes. *)
TenantMoves ==
  /\ Upset
  /\ \E t \in Tenants :
       \/ t \in tenants /\ tenants' = tenants \ {t}
       \/ /\ t \notin tenants /\ (t.up => t.ports \cap (Taken \cup held) = {})
          /\ t.name = "exact" => ours = "none"
          /\ tenants' = tenants \cup {t}
  /\ UNCHANGED <<cfg, site, file, stack, at, past>>

(* The containers stop without charmer: docker stops, or the operator does it. *)
StackStops ==
  /\ ours = "up" /\ Upset /\ ours' = "stopped" /\ held' = {}
  /\ UNCHANGED <<cfg, site, tenants, file, dir, data, at, past>>

Advance == Preflight \/ Pin \/ Files \/ Up \/ Down \/ Remove \/ Archive

Next == Provision \/ Replay \/ Clean \/ Advance \/ Die
        \/ EditConfig \/ SiteChanges \/ TenantMoves \/ StackStops

Spec == Init /\ [][Next]_vars

(* A command goes on until it ends, and the operator runs provision again. *)
FairSpec == Spec /\ WF_vars(Advance) /\ WF_vars(Provision)

-----------------------------------------------------------------------------
(* Properties *)

(* "Generated exactly once per site's lifetime" (state.py:4): a database on *)
(* the host is always one that the pinned password opens, over replays,     *)
(* failed applies, interrupted cleans and new provisions after them.        *)
SecretsOutliveData == data # 0 => pin = data

(* "Removing data + config is what makes the next provision honest"         *)
(* (clean_phase.py:6): a site without pinned state has left no directory, no *)
(* data and no containers behind, except the containers of a clean whose    *)
(* `docker compose down` failed: it removes their compose file all the same. *)
NothingLeftBehind == pin = 0 => ~dir /\ data = 0 /\ (ours = "none" \/ orphaned)

(* A completed pangolin phase is there: its directory, its database and its *)
(* containers, running or not, unless a clean stopped half-way: then the    *)
(* state file still says "done" of a host that is bare.                     *)
DoneIsThere == Midlife /\ ~torn => dir /\ data = pin /\ pin # 0 /\ ours # "none"

(* preflight fails for a reason outside the stack: the machines, a tenant's *)
(* port or name.  The stack's own footprint stops it only while pangolin is *)
(* not "done", which is how a replay of both phases, or of preflight after  *)
(* a pangolin that failed, is stuck until the stack is stopped.             *)
OutsideReason ==
  \/ site.low \/ site.tcpApi \/ ~site.dns \/ \E a \in site.agents : ~a.in \/ ~a.tun
  \/ \E t \in Live : t.name # "none" \/ t.ports \cap Required # {}

EndsPreflight == at = "preflight" /\ at' = "idle" /\ upsets' = upsets

BlockedOnlyByOthers ==
  [][EndsPreflight /\ status'["preflight"] = "failed" =>
       OutsideReason \/ (ours = "up" /\ ~Midlife)]_vars

(* When the stack cannot start although the host and the config are those   *)
(* that preflight let pass before the first start, it is for one of what it *)
(* does not look at: a loopback port other than postgres's (config.py:45-47), *)
(* a stopped container or one that refuse_existing was told to let pass, or  *)
(* a loopback port that the config was allowed to put on a public one.      *)
PreflightFindsClashes ==
  at = "up" /\ ~CanStart /\ checked = [tenants |-> tenants, cfg |-> cfg, fresh |-> TRUE] =>
    \/ \E t \in Live : t.ports \cap ({3001, 8091} \cup ApiPort(cfg)) # {}
    \/ \E t \in tenants : t.name = "exact" /\ (~t.up \/ ~cfg.refuse)
    \/ (PgPort(cfg) \cup ApiPort(cfg)) \cap {80, 443} # {}

(* Nothing happens any more, and nothing is in the way: charmer gets in at   *)
(* every host, preflight has passed or would, and the containers can start.  *)
Unhindered ==
  /\ upsets = MaxUpsets /\ at = "idle" /\ Preauth /\ CanStart
  /\ status["preflight"] = "done" \/ PreflightPasses

(* When nothing happens any more and nothing is in the way, running the     *)
(* plain command again brings the stack up, whatever went wrong before.     *)
ComesUp == Unhindered ~> Midlife
=============================================================================

------------------------------- MODULE Restore -------------------------------
(***************************************************************************)
(* The `restore` phase (phases/restore_phase.py): the database of the      *)
(* Pangolin host is replaced by a dump while the stack is stopped, the     *)
(* host's own gerbil identity is written back over the one that came with  *)
(* the dump, narrow utilitySubnets are widened, and the stack is started   *)
(* again.  Each action is one remote command; the process may be cut, and  *)
(* the connection lost, at any of them.  What survives is the host (the    *)
(* database, the staged upload, the containers) and the state file.        *)
(*                                                                         *)
(* A network is the interval of addresses it covers, [at, size], size a    *)
(* power of two and at a multiple of it; a longer prefix is a smaller size.*)
(***************************************************************************)
EXTENDS Integers, FiniteSets

CONSTANTS
  Ids,          \* exitNodeIds
  Orgs,         \* orgIds
  Dumps,        \* the dumps that restore.postgres_dump may name
  NoDump,       \* restore.postgres_dump when it is unset
  Fresh,        \* the contents of the database that `pangolin` bootstrapped
  Targets,      \* the sizes restore.utility_subnet_prefix may ask for, 0: unset
  GerbilGroup,  \* PANGOLIN_DEFAULT_GERBIL_SUBNET_GROUP, a network
  BlockSize,    \* the size of a PANGOLIN_DEFAULT_SITE_BLOCK_SIZE block
  MaxUpsets     \* bound on faults, cuts and edits of the config

Net == [at : Nat, size : Nat \ {0}]

(* What a dump holds: whose key each exitNodes row carries ("none": no such *)
(* row) and its address, every org's subnet and utilitySubnet ({} when it   *)
(* is unset or does not parse, both of which are left alone), how many      *)
(* sites and clients hold a tunnel block, and whether a statement in it     *)
(* fails.                                                                   *)
Dump == [keys : [Ids -> {"none", "own", "foreign"}], nets : [Ids -> Net],
         subnets : [Orgs -> SUBSET Net], util : [Orgs -> SUBSET Net],
         tunnels : Nat, breaks : BOOLEAN]

ASSUME RestoreAssumption ==
  /\ Ids \subseteq Nat /\ IsFiniteSet(Ids)
  /\ Dumps \subseteq Dump /\ Fresh \in Dump /\ NoDump \notin Dumps
  /\ \E i \in Ids : Fresh.keys = [j \in Ids |-> IF j = i THEN "own" ELSE "none"]
  /\ Targets \subseteq Nat /\ GerbilGroup \in Net /\ BlockSize \in Nat \ {0}
  /\ MaxUpsets \in Nat

(* CIDR: a network starts at a multiple of its size, and sizes are powers of *)
(* two, so that of any two the smaller divides the larger.                   *)
NetsOf(d) == {d.nets[i] : i \in Ids} \cup UNION {d.subnets[o] \cup d.util[o] : o \in Orgs}
Networks  == UNION {NetsOf(d) : d \in Dumps \cup {Fresh}}
Sizes     == {n.size : n \in Networks} \cup (Targets \ {0}) \cup {BlockSize}

ASSUME CidrAssumption ==
  /\ \A n \in Networks : n.at % n.size = 0
  /\ \A a, b \in Sizes : a <= b => b % a = 0

VARIABLES
  dump, destructive, target,  \* config file: restore.*
  status, pinned,             \* state file: the phase's status; restore_sha256
  content, part, keys, util,  \* the database (see Part), as loaded and then changed
  staged,                     \* DUMP_STAGING: "none", "cut" (not whole), "whole"
  running,                    \* the containers that run
  at, pre, loaded, todo, blind,  \* the running command, its pre_identity, psql ended
                              \* well, orgs to be checked, addresses not read
  warned,                     \* the headroom check: "none", "full", "unread"
  lost,                       \* the connection or the process died on a staged dump
  upsets

config   == <<dump, destructive, target>>
file     == <<status, pinned>>
database == <<content, part, keys, util>>
host     == <<database, staged, running>>
command  == <<at, pre, loaded, todo, blind>>
vars     == <<config, file, host, command, warned, lost, upsets>>

(* How much of `content` is in: psql stops at the first statement that fails, *)
(* and what it ran before that stays.  The rows of exitNodes come before      *)
(* those of orgs, as pg_dump writes tables in order of name.                  *)
Part == {"dropped", "nodes", "whole"}

Containers == {"pangolin", "gerbil", "traefik"}
Nobody     == [id |-> 0, key |-> "none"]     \* pre_identity is None
Steps == {"idle", "stop", "upload", "checksum", "snapshot", "load", "delete", "reconcile",
          "headroom", "orgs", "widen", "up pangolin", "healthy", "up gerbil", "stable",
          "traefik", "record", "verify"}

TypeOK ==
  /\ dump \in Dumps \cup {NoDump} /\ destructive \in BOOLEAN /\ target \in Targets
  /\ status \in {"pending", "done", "skipped", "failed"} /\ pinned \in Dumps \cup {NoDump}
  /\ content \in Dumps \cup {Fresh} /\ part \in Part
  /\ keys \in [Ids -> {"none", "own", "foreign"}] /\ util \in [Orgs -> SUBSET Net]
  /\ staged \in {"none", "cut", "whole"} /\ running \subseteq Containers
  /\ at \in Steps /\ (at # "idle" => dump # NoDump)
  /\ pre \in [id : Ids \cup {0}, key : {"none", "own", "foreign"}]
  /\ loaded \in BOOLEAN /\ todo \subseteq Orgs /\ blind \in BOOLEAN
  /\ warned \in {"none", "full", "unread"} /\ lost \in BOOLEAN
  /\ upsets \in 0..MaxUpsets

(* A site whose stack is up on the database it was bootstrapped with. *)
Init ==
  /\ dump \in Dumps \cup {NoDump} /\ destructive \in BOOLEAN /\ target \in Targets
  /\ status = "pending" /\ pinned = NoDump
  /\ content = Fresh /\ part = "whole" /\ keys = Fresh.keys /\ util = Fresh.util
  /\ staged = "none" /\ running = Containers
  /\ at = "idle" /\ pre = Nobody /\ loaded = FALSE /\ todo = {} /\ blind = FALSE
  /\ warned = "none" /\ lost = FALSE /\ upsets = 0

-----------------------------------------------------------------------------
(* Networks *)

Overlaps(m, n) == m.at < n.at + n.size /\ n.at < m.at + m.size
Covers(m, n)   == m.at <= n.at /\ n.at + n.size <= m.at + m.size

(* ip_network.supernet(): the aligned network of that size around n. *)
Supernet(n, size) == [at |-> n.at - (n.at % size), size |-> size]

(* widen_utility_subnet(): n itself where it is left alone. *)
Widened(n, size, others) ==
  IF n.size < size /\ \A m \in others : ~Overlaps(Supernet(n, size), m)
  THEN Supernet(n, size) ELSE n

(* Mutant: gerbil's own block is not counted out. *)
CapacityWithGerbils(n) == n.size \div BlockSize

(* exit_node_capacity() *)
Capacity(n) == IF n.size < BlockSize THEN 0 ELSE n.size \div BlockSize - 1

-----------------------------------------------------------------------------
(* The database *)

Rows       == {i \in Ids : keys[i] # "none"}
LowestOf(S) == CHOOSE i \in S : \A j \in S : i <= j
Addresses  == {content.nets[i] : i \in Rows}
OrgSubnets == UNION {content.subnets[o] : o \in Orgs}

(* What the database may hold once psql has stopped at a statement, or has *)
(* been killed: some prefix of the dump, over whatever was there.          *)
Stopped(d) ==
  \/ UNCHANGED database
  \/ /\ content' = d /\ part' = "dropped"
     /\ keys' = [i \in Ids |-> "none"] /\ util' = [o \in Orgs |-> {}]
  \/ /\ content' = d /\ part' = "nodes"
     /\ keys' = d.keys /\ util' = [o \in Orgs |-> {}]

Replaced(d) == content' = d /\ part' = "whole" /\ keys' = d.keys /\ util' = d.util

(* Pangolin answers gerbil's get-config only for the row with gerbil's own *)
(* key, or makes that row when there is none at all; otherwise gerbil      *)
(* panics on the blank address and crash-loops.                            *)
GerbilIsKnown == Rows = {} \/ \E i \in Ids : keys[i] = "own"

-----------------------------------------------------------------------------
(* The command *)

Upset == upsets < MaxUpsets /\ upsets' = upsets + 1

GoTo(step) == at' = step /\ UNCHANGED <<pre, loaded, todo, blind>>

EndCommand == at' = "idle" /\ pre' = Nobody /\ loaded' = FALSE /\ todo' = {} /\ UNCHANGED blind

(* apply() raised: run_phases() marks the phase failed and stops. *)
Fail == EndCommand /\ status' = "failed" /\ UNCHANGED pinned

(* Mutant: apply() does not look whether there is a dump to restore. *)
BeginUnchecked ==
  /\ at = "idle" /\ status # "done"
  /\ IF destructive THEN GoTo("stop") /\ UNCHANGED file ELSE Fail
  /\ UNCHANGED <<config, host, warned, lost, upsets>>

(* `charm provision`, --only restore or --replay restore; the plan is     *)
(* confirmed, and apply() refuses a config that does not say destructive. *)
Begin ==
  /\ at = "idle" /\ status # "done" /\ dump # NoDump
  /\ IF destructive THEN GoTo("stop") /\ UNCHANGED file ELSE Fail
  /\ UNCHANGED <<config, host, warned, lost, upsets>>

(* The same with nothing to restore: apply() and verify() do nothing. *)
BeginWithoutDump ==
  /\ at = "idle" /\ status # "done" /\ dump = NoDump
  /\ status' = "done"
  /\ UNCHANGED <<pinned, config, host, command, warned, lost, upsets>>

(* The plan is not confirmed: an optional phase is skipped. *)
Decline ==
  /\ at = "idle" /\ status # "done" /\ dump # NoDump /\ Upset
  /\ status' = "skipped"
  /\ UNCHANGED <<pinned, config, host, command, warned, lost>>

(* --replay restore, once it is done: mark_phase(restore, "pending"). *)
Replay ==
  /\ at = "idle" /\ status = "done" /\ Upset
  /\ status' = "pending"
  /\ UNCHANGED <<pinned, config, host, command, warned, lost>>

(* The operator names another dump, or allows or forbids the replacement. *)
EditConfig ==
  /\ at = "idle" /\ Upset
  /\ dump' \in Dumps \cup {NoDump} /\ destructive' \in BOOLEAN /\ UNCHANGED target
  /\ UNCHANGED <<file, host, command, warned, lost>>

(* Mutant: a stop that fails is only recorded. *)
StopStackWarns ==
  /\ at = "stop" /\ GoTo("upload") /\ UNCHANGED file
  /\ \/ running' = {} /\ UNCHANGED upsets
     \/ running' \in SUBSET running /\ Upset
  /\ UNCHANGED <<config, database, staged, warned, lost>>

(* docker compose stop pangolin gerbil traefik; it may stop only some. *)
StopStack ==
  /\ at = "stop"
  /\ \/ running' = {} /\ GoTo("upload") /\ UNCHANGED <<file, upsets>>
     \/ running' \in SUBSET running /\ Upset /\ Fail
  /\ UNCHANGED <<config, database, staged, warned, lost>>

(* conn.put(): a transfer that goes wrong unnoticed is left for the checksum. *)
Upload ==
  /\ at = "upload" /\ GoTo("checksum")
  /\ \/ staged' = "whole" /\ UNCHANGED upsets
     \/ staged' = "cut" /\ Upset
  /\ lost' = FALSE
  /\ UNCHANGED <<config, file, database, running, warned>>

(* The rm that follows a mismatch is of the same action. *)
Checksum ==
  /\ at = "checksum"
  /\ \/ staged = "whole" /\ GoTo("snapshot") /\ UNCHANGED <<staged, file>>
     \/ staged = "cut" /\ staged' = "none" /\ Fail
  /\ UNCHANGED <<config, database, running, warned, lost, upsets>>

(* pre_identity: the row with the lowest id.  A query that fails, as it does *)
(* when the table is not there, counts as no row.                            *)
Snapshot ==
  /\ at = "snapshot" /\ at' = "load" /\ UNCHANGED <<loaded, todo, blind>>
  /\ \/ pre' = (IF Rows = {} THEN Nobody
                ELSE [id |-> LowestOf(Rows), key |-> keys[LowestOf(Rows)]]) /\ UNCHANGED upsets
     \/ pre' = Nobody /\ Upset
  /\ UNCHANGED <<config, file, host, warned, lost>>

(* Mutant: psql without ON_ERROR_STOP ends well whatever happened. *)
LoadNoStop ==
  /\ at = "load" /\ at' = "delete" /\ loaded' = TRUE /\ UNCHANGED <<pre, todo, blind>>
  /\ IF dump.breaks THEN Stopped(dump) ELSE Replaced(dump)
  /\ UNCHANGED <<config, file, staged, running, warned, lost, upsets>>

(* zcat | psql -v ON_ERROR_STOP=1.  What is told of the pipe is how psql *)
(* ended, so an upload that was cut would load well as far as it goes.   *)
Load ==
  /\ at = "load" /\ at' = "delete" /\ UNCHANGED <<pre, todo, blind>>
  /\ \/ ~dump.breaks /\ staged = "whole" /\ Replaced(dump) /\ loaded' = TRUE /\ UNCHANGED upsets
     \/ ~dump.breaks /\ staged = "cut" /\ Stopped(dump) /\ loaded' = TRUE /\ UNCHANGED upsets
     \/ dump.breaks /\ Stopped(dump) /\ loaded' = FALSE /\ UNCHANGED upsets
     \/ Stopped(dump) /\ loaded' = FALSE /\ Upset
  /\ UNCHANGED <<config, file, staged, running, warned, lost>>

(* Mutant: only a dump that has been loaded is deleted. *)
DeleteLoaded ==
  /\ at = "delete"
  /\ \/ loaded /\ GoTo("reconcile") /\ staged' = "none" /\ UNCHANGED file
     \/ ~loaded /\ Fail /\ UNCHANGED staged
  /\ UNCHANGED <<config, database, running, warned, lost, upsets>>

(* The dump is deleted, and only then the answer of psql is acted on. *)
DeleteDump ==
  /\ at = "delete" /\ staged' = "none"
  /\ IF loaded THEN GoTo("reconcile") /\ UNCHANGED file ELSE Fail
  /\ UNCHANGED <<config, database, running, warned, lost, upsets>>

(* Mutant: the identity that came with the dump is left in place. *)
ReconcileSkipped ==
  /\ at = "reconcile" /\ GoTo("headroom")
  /\ UNCHANGED <<file, config, host, warned, lost, upsets>>

(* update exitNodes ... where exitNodeId = pre.id: no such row is no error. *)
Reconcile ==
  /\ at = "reconcile"
  /\ \/ pre = Nobody /\ GoTo("headroom") /\ UNCHANGED <<keys, file, upsets>>
     \/ /\ pre # Nobody /\ GoTo("headroom") /\ UNCHANGED <<file, upsets>>
        /\ keys' = IF pre.id \in Rows THEN [keys EXCEPT ![pre.id] = pre.key] ELSE keys
     \/ pre # Nobody /\ Upset /\ Fail /\ UNCHANGED keys
  /\ UNCHANGED <<config, content, part, util, staged, running, warned, lost>>

(* _exit_node_headroom(): about the row the identity went to, or the lowest. *)
Mine == IF pre.id \in Rows THEN pre.id ELSE LowestOf(Rows)

Headroom ==
  /\ at = "headroom" /\ GoTo("orgs")
  /\ \/ /\ warned' = (IF Cardinality(Rows) > 1 /\ content.tunnels > Capacity(content.nets[Mine])
                      THEN "full" ELSE "none")
        /\ UNCHANGED upsets
     \/ warned' = "unread" /\ Upset
  /\ UNCHANGED <<config, file, host, lost>>

(* _utility_subnets() reads the orgs, and the addresses of the exit nodes; *)
(* when the latter fails it goes on without them.                          *)
ReadOrgs ==
  /\ at = "orgs" /\ UNCHANGED pre
  /\ \/ at' = "widen" /\ todo' = Orgs /\ blind' = FALSE /\ UNCHANGED upsets
     \/ at' = "widen" /\ todo' = Orgs /\ blind' = TRUE /\ Upset
     \/ at' = "up pangolin" /\ todo' = {} /\ blind' = FALSE /\ Upset
  /\ UNCHANGED <<loaded, config, file, host, warned, lost>>

(* Mutant: the org subnets are not looked at. *)
TakenByGerbil == {GerbilGroup} \cup (IF blind THEN {} ELSE Addresses)

Taken == OrgSubnets \cup {GerbilGroup} \cup (IF blind THEN {} ELSE Addresses)

(* One org of the loop; its update is conditional on the value that was read. *)
WidenOrg ==
  /\ at = "widen"
  /\ \E o \in todo :
       /\ todo' = todo \ {o}
       /\ \/ UNCHANGED upsets /\ util' = IF target = 0 THEN util ELSE
               [util EXCEPT ![o] = {Widened(n, target, Taken) : n \in util[o]}]
          \/ UNCHANGED util /\ Upset
  /\ UNCHANGED <<at, pre, loaded, blind, config, file, content, part, keys, staged, running, warned, lost>>

OrgsChecked ==
  /\ at = "widen" /\ todo = {} /\ GoTo("up pangolin")
  /\ UNCHANGED <<config, file, host, warned, lost, upsets>>

(* A step that ends well, or raises. *)
Answers(step, next) ==
  /\ at = step
  /\ \/ GoTo(next) /\ UNCHANGED <<file, upsets>>
     \/ Upset /\ Fail

(* docker compose up -d --no-deps; a call that fails may have started it. *)
Up(step, service, next) ==
  /\ Answers(step, next)
  /\ running' \in {running \cup {service}} \cup (IF at' = next THEN {} ELSE {running})
  /\ UNCHANGED <<config, database, staged, warned, lost>>

UpPangolin == Up("up pangolin", "pangolin", "healthy")
UpGerbil   == Up("up gerbil", "gerbil", "stable")
UpTraefik  == Up("traefik", "traefik", "record")

(* wait_for(), up to 300 s. *)
WaitHealthy ==
  /\ Answers("healthy", "up gerbil")
  /\ UNCHANGED <<config, host, warned, lost>>

(* Mutant: five samples of "running" are not waited for. *)
WaitStableTrusting ==
  /\ at = "stable" /\ GoTo("traefik")
  /\ UNCHANGED <<file, config, host, warned, lost, upsets>>

(* _wait_stable(): a gerbil that Pangolin does not know keeps restarting.  One *)
(* that finds no row at all is given the first.                                *)
WaitStable ==
  /\ at = "stable"
  /\ \/ GerbilIsKnown /\ GoTo("traefik") /\ UNCHANGED <<file, upsets>>
     \/ ~GerbilIsKnown /\ Fail /\ UNCHANGED upsets
     \/ Upset /\ Fail
  /\ UNCHANGED <<config, host, warned, lost>>

(* restore_sha256 and restore_at are saved; redialling the agents then only warns. *)
Record ==
  /\ at = "record" /\ GoTo("verify") /\ pinned' = dump
  /\ UNCHANGED <<status, config, host, warned, lost, upsets>>

(* There are tables, and the site answers on its public name. *)
Reachable == running = Containers /\ GerbilIsKnown

Verify ==
  /\ at = "verify" /\ EndCommand /\ UNCHANGED pinned
  /\ \/ part # "dropped" /\ Reachable /\ status' = "done" /\ UNCHANGED upsets
     \/ ~(part # "dropped" /\ Reachable) /\ status' = "failed" /\ UNCHANGED upsets
     \/ status' = "failed" /\ Upset
  /\ UNCHANGED <<config, host, warned, lost>>

(* The remote command under way has had its effect, in part, or not at all. *)
CutDatabase ==
  \/ UNCHANGED database
  \/ at = "load" /\ (Stopped(dump) \/ (~dump.breaks /\ Replaced(dump)))
  \/ /\ at = "reconcile" /\ pre.id \in Rows /\ keys' = [keys EXCEPT ![pre.id] = pre.key]
     /\ UNCHANGED <<content, part, util>>

CutContainers ==
  running' \in CASE at = "stop"        -> SUBSET running
                 [] at = "up pangolin" -> {running, running \cup {"pangolin"}}
                 [] at = "up gerbil"   -> {running, running \cup {"gerbil"}}
                 [] at = "traefik"     -> {running, running \cup {"traefik"}}
                 [] OTHER              -> {running}

(* The process dies, or the connection does (then apply() raises, and the  *)
(* phase is marked failed).  By the next run the command has come to rest. *)
Cut ==
  /\ at # "idle" /\ Upset /\ EndCommand
  /\ status' \in {status, "failed"} /\ UNCHANGED pinned
  /\ staged' \in IF at = "upload" THEN {staged, "cut", "whole"} ELSE {staged}
  /\ lost' = (staged' # "none")
  /\ CutDatabase /\ CutContainers
  /\ UNCHANGED <<config, warned>>

Advance ==
  \/ StopStack \/ Upload \/ Checksum \/ Snapshot \/ Load \/ DeleteDump \/ Reconcile
  \/ Headroom \/ ReadOrgs \/ WidenOrg \/ OrgsChecked
  \/ UpPangolin \/ WaitHealthy \/ UpGerbil \/ WaitStable \/ UpTraefik \/ Record \/ Verify

Next == Begin \/ BeginWithoutDump \/ Decline \/ Replay \/ EditConfig \/ Advance \/ Cut

Spec == Init /\ [][Next]_vars

(* A command that runs goes on, and a restore that failed is run again. *)
FairSpec == Spec /\ WF_vars(Advance) /\ WF_vars(Begin)

-----------------------------------------------------------------------------
(* Properties *)

(* "A failed load leaves the stack stopped rather than half-up on half-data" *)
(* (restore_phase.py:4): whatever failed or was cut and however often the    *)
(* phase is run again, its own steps never leave or start Pangolin on a      *)
(* database that is not whole.  A start by another command, `charm start` or *)
(* a replay of pangolin between two runs of the phase, is not in this model. *)
HalfDataStaysDown == part # "whole" => "pangolin" \notin running

(* The stack is down whenever the database changes, whether by the load, the *)
(* reconciliation or a widening, and only a config that allows the           *)
(* replacement ever changes it.                                              *)
ReplacedWhileDown ==
  [][database' # database => running = {} /\ destructive /\ dump # NoDump]_vars

(* The database as its users and the operator know it: replaced as a whole. *)
Database == INSTANCE Replacement WITH
  Sources <- Dumps \cup {Fresh}, Nothing <- NoDump, wanted <- dump, allowed <- destructive,
  source <- content, whole <- (part = "whole"), patch <- <<keys, util>>,
  serving <- (running # {}), recorded <- pinned, done <- (status = "done")

(* The phase as a whole, through any faults, cuts and re-runs, implements     *)
(* Replacement: nothing runs on data that changes or is incomplete, what      *)
(* starts after a change is all of the dump that the config names, and only   *)
(* that is recorded and reported as done.                                     *)
IsReplacement == Database!Spec

(* The dump, which holds every secret of the old site, is gone from the host *)
(* by the time psql's answer is acted on, unless the process or its          *)
(* connection was lost while it was there.                                   *)
SecretsDeleted ==
  staged # "none" => at \in {"checksum", "snapshot", "load", "delete"} \/ lost

(* When the phase comes to its verify, which only counts tables, the whole of *)
(* the dump that is configured has been loaded, it has been deleted, and      *)
(* gerbil has a row of its own (it makes one itself in an empty table).       *)
RestoredIsWhole ==
  at = "verify" => /\ content = dump /\ part = "whole" /\ staged = "none"
                   /\ pinned = dump /\ running = Containers
                   /\ Rows = {} \/ \E i \in Ids : keys[i] = "own"

(* Every org keeps a range that covers the one it came with, so aliases stay  *)
(* valid, and that is a network, at a multiple of its size.  One that was     *)
(* widened overlaps no org's subnet, not gerbil's default network, and no     *)
(* exit node's address that could be read; one that the dump brought is left  *)
(* as it is, whatever it overlaps.                                            *)
RangesAreSafe ==
  part = "whole" =>
    \A o \in Orgs : \A n \in content.util[o] : \E m \in util[o] :
      /\ Covers(m, n) /\ (m.at % m.size) = 0
      /\ m # n => /\ \A p \in Orgs : \A t \in content.subnets[p] : ~Overlaps(m, t)
                  /\ ~Overlaps(m, GerbilGroup)
                  /\ blind \/ \A i \in Rows : ~Overlaps(m, content.nets[i])

(* Tunnel blocks in an exit node's network besides gerbil's own, counted. *)
Room(n) == Cardinality({b \in (n.at + 1)..(n.at + n.size - BlockSize) : b % BlockSize = 0})

(* A restore that ends without a warning has room for every tunnel of a dump *)
(* with several exit nodes on the row that this host's gerbil ends up with.  *)
(* A second row with this host's key, one that the dump itself brought, is   *)
(* not looked at.                                                            *)
NoSilentOverflow ==
  at = "verify" /\ warned = "none" /\ Cardinality(Rows) > 1 =>
    \A i \in Ids : keys[i] = "own" /\ (content.keys[i] = "own" => i = Mine) =>
      content.tunnels <= Room(content.nets[i])

(* The host's own identity is on the row that a snapshot would take. *)
HasOwnIdentity == Rows # {} /\ keys[LowestOf(Rows)] = "own"

(* Nothing goes wrong any more, and there is a dump to restore that loads and *)
(* has a row of the id that the host's own identity is still at.              *)
Recoverable ==
  /\ upsets = MaxUpsets /\ at = "idle" /\ status # "done"
  /\ dump # NoDump /\ destructive /\ ~dump.breaks
  /\ HasOwnIdentity /\ dump.keys[LowestOf(Rows)] # "none"

(* While the host's identity is still in the database, a dump that loads and  *)
(* has a row of that id is restored in the end: whatever went wrong before,   *)
(* running the phase again is enough.                                         *)
RestoreEnds == Recoverable ~> status = "done"

(* "Snapshot this host's own identity before the load clobbers it"          *)
(* (restore_phase.py:215): what is put back is never the identity of another *)
(* host.  Does not hold: see the run foreign_identity.                       *)
SnapshotIsOwn == pre.key # "foreign"
=============================================================================

# charmer: a TLA+ model of the provisioner

charmer provisions a self-hosted Pangolin: one host that runs five containers
(postgres, pangolin, gerbil, traefik, a maintenance page) and any number of
Newt agents that dial in over WireGuard. It is a single-process Python program
that runs shell commands over SSH. Its own logic is in three places: a
**resumable phase runner** with a state file, **decisions about containers**
(what to restart, in which order, who has to follow), and **credentials** that
may be created once only. Nothing in it is concurrent by design; what makes it
hard is that every remote call may fail, that the process may die between any
two of them, that the operator then runs something again, and that Docker acts
on its own meanwhile.

All paths below are relative to `src/charmer/` in the repository.

## Inventory

| Part | State it keeps | Operations | What makes it correct |
|---|---|---|---|
| phase runner, `phases/base.py`, `cli.py` | position in the pipeline, `restore_ran` | `provision`, `--only`, `--replay`; plan, confirm, apply, verify per phase | never builds on an unsettled phase; a completed phase is left alone; re-running gets to the end |
| state file, `state.py` | status per phase, values generated once | `mark_phase`, `get_or_generate`, `save` (temp file + rename) | says no more than what happened; pinned secrets always fit the data on the host |
| preflight, `phases/preflight.py` | none | port, container, resource and agent checks | does not mistake the site's own footprint for a foreign one, nor the reverse |
| base, `phases/base_setup.py`, `hostchecks.py` | packages, docker's resolvers, UFW rules, sshd drop-ins on each host | apply, verify | never locks the operator out; done means key-only, where that was asked for |
| pangolin, `phases/pangolin_phase.py` | files under `/opt/pangolin`, five containers | push files, `restart`, `up -d`, `--force-recreate`, waits, verify | every change gets to the containers; tunnels are not dropped without need; traefik stays in gerbil's namespace |
| restore, `phases/restore_phase.py` | the database, the dump on the host | stop, load, reconcile gerbil's identity, restart, record | never done on half a stack; gerbil keeps its identity; the dump is deleted |
| adopt_newt, newt, `phases/adopt_newt_phase.py`, `newt_phase.py`, `newt_ops.py` | pinned newt id and secret per agent, bundle on the agent | adopt, mint, install, retire, redial | one site per agent, once ever; never two connectors with one identity; a bounced gerbil is redialled |
| handoff, `phases/handoff_phase.py` | monitor config file | write | comes last, over phases that are settled |
| shutdown, start, `phases/lifecycle.py` | `newt_redial_pending` | stop pangolin, start it again | pangolin stays down, the page is served, owed redials are made |
| clean, `phases/clean_phase.py`, `cli.py` | none | `down -v`, remove files, archive the state file, reset UFW | leaves nothing that a next provision would trip over; a state file is archived only over a bare host |
| config, init, transcript, remote execution, API client, monitor, self-update | files, no decisions about hosts | see `PROJECT.json` | parsing and I/O |

How they interact: `cli.py` builds a `PhaseContext` and hands a list of phases
to `run_phases()`; phases talk to hosts only through `NodeConn.run()` and
`put()`; they share the state file (which is saved at every mark and at a few
places in between) and, through `adopt_newt`, the config file. `shutdown` and
`start` are phases run outside the pipeline, over the same state file and the
same containers. The full list of hazards, each at its line and with the
properties that cover it, is in `PROJECT.json`.

## Modules

| Module | Models |
|---|---|
| `Resumable` | the abstract promise of `charm provision`: jobs settle in order, a run that stops loses at most the job it stopped at |
| `PhaseRunner` | the runner, the state file, the pipeline's effect on the site as far as the runner's promises depend on it; implements `Resumable` |
| `HostHardening` | base on one host: docker's resolvers, UFW, sshd |
| `Stack` | the containers, the rollout of the pangolin phase, restore's stop and restart, `shutdown`, `start` |
| `Restore` | the restore phase: the database, the uploaded dump, gerbil's identity, the utility subnets |
| `Replacement` | the abstract promise of the restore: data is replaced only as wanted and while nothing runs on it, what is served next is the whole of it, and only that is recorded and reported |
| `NewtAgents` | identities, bundles and connectors of the agents: adopt_newt, newt, the redials, restores under them |
| `Footprint` | what a site occupies on its host, from preflight over the first `up` to clean |

Each but `Resumable` and `Replacement`, the two abstract ones, comes with `<Module>Proofs`, its theorems, and
`MC<Module>`, its instances for TLC. The modules overlap on purpose: one phase
appears as a single step where another module only needs its effect
(`PhaseRunner`), and step by step where its own order is what may go wrong. The
effects agree: `LoadDump` of `PhaseRunner` and of `NewtAgents`, and restore's
steps in `Stack`, are what `Restore` does in detail.

### PhaseRunner

One command at a time. `at` is how far it is: `mark` (the `--replay` names are
marked pending, one save each), `next` (the head of the loop in
`run_phases()`), `confirm`, `apply`, the save points inside `restore`
(`loaded`, `recorded`, `redial`), `verify`, and `idle`. `pos` is the phase the
loop has reached, `selected` the list it runs over. `status`, `restoreAt`
(state file) and `dump`, `agents` (config file) survive a crash; the variables
of the command do not. Each branch of `run_phases()` is an action of its own:
`SkipPhase`, `PlanPhase`, `ConfirmPhase`, `DeclinePhase`, the `Apply...`
actions, `ApplyRaises` (marked failed, stop), `VerifyPasses`, `VerifyFails`,
`Finish`. `Die` is a process that dies, or an exception outside the `try`
block: nothing is marked. `sound` records what was really applied to the end
and verified, so that the properties can compare the state file with it.
`offered` records what the operator was asked about the database that is loaded
now: not yet, yes, or `lost`, when a load failed or was cut before
`ResetAdoption` (`CutShort`).

Left out: `--only` together with `--replay` (one or the other is used), the
contents of the phases, and a `mark_phase()` that cannot write.

`Resumable` knows only the set of settled jobs and the job a full run has
reached. `PhaseRunner` implements it with `settled <- SettledJobs` (phases that
are done, declined or not enabled) and `frontier <- Frontier` (`pos` in a full
run, 0 otherwise); `IsResumable` is its specification under this mapping.

### HostHardening

One host and one login. `Init` chooses what base may meet: UFW on or off, the
pre-0.9.0 drop-in, values in sshd's other files, who serves ssh (ssh.service,
ssh.socket, or a socket beside an enabled service), docker absent, without
compose, or complete, and whether containers inherit a resolver they cannot
reach. `at` is the next command of `apply()`:

    prepare daemon.json clear ufw | read check apply await | verify

`Effective` is what sshd's files say (the first value counts; drop-ins in
lexical order), `loaded` what the running sshd has read of them: the two differ
after a reload that did not happen, and a `Reboot` makes them equal. `rules` are
UFW's rules for port 22, `mine` the source address `_client_ip()` has found. A
chain of commands joined with `&&` stops at the one that fails, so
`UfwRulesFail` keeps the rules before it. `faults` names the failures the code
does not look at (the deletion of the open rule, a refused reload, an sshd that
died on a plain reload); the properties except them by name. `CleanHost` is
clean's reset of the firewall, which may stop after any of its three commands.
base's verify searches the text of `ufw status` for each monitor address, so a
rule for a longer address that contains it is taken for its own (`Within`,
`Mentioned`).
`Begin` needs `CanLogin(src)`: an operator who is locked out runs nothing.

Left out: the other hosts (base works on them one by one), the agents' public
ports, the package lists, and UFW entries recorded in the state file for
`status`.

### Stack

`cont` is the Docker state of the five containers, `health` pangolin's
healthcheck, `outdated` the containers whose compose definition has changed,
`unread` those to be restarted because a file they read at startup, or the
database under them, is newer. `stranded` says whether traefik is still in
gerbil's network namespace and, if not, whether a crash or charmer moved
gerbil; `owed` names the command that bounced gerbil if no redial of the
agents has followed. `cmd` and `at` are the running command and its step; a
step is one remote call or wait of

    pangolin:  cert compose config traefik | services up (force) rollout restart* (rejoin) health (redial) verify
    restore:   stop load "up pangolin" health "up gerbil" rejoin record redial verify
    shutdown:  "up gerbil maintenance" (save) rejoin "stop pangolin" verify
    start:     "up all" health (redial) record verify

What a compose call does is external to the repository and modelled from how
the code relies on it: `up` starts what is down, replaces what is absent or
outdated and leaves the rest alone, a container in restart backoff included;
without `--no-deps` it waits for a healthy pangolin and, when that fails, may
leave gerbil and traefik created and not started (the docstring of
`restart_pangolin_first()`); a container never moves to another namespace.
`ApplyRaises` is any exception of `apply()`, `StepFails` the failures that
follow from what a step finds, `Die` a dead process. `Crash` and
`DockerRestarts` happen between any two steps. A `docker compose ps` that
fails makes `_services()` and `gerbil_marker()` answer as if there was nothing:
`ReadServices`, `RolloutActions` and `CompareMarkers` have that branch.

Left out: the contents of the dump and gerbil's identity in it (see `Restore`), a maintenance
page that changed (nginx reads it per request), failures of single agents in
`redial_all()` (warnings), the wait for a recreated postgres (part of the
possible failure of `restart`), and an edit that puts a file back to what it
was on the host.

### Restore

`dump`, `destructive`, `target` are `restore.*` of the config, `status` and
`pinned` (`restore_sha256`) the state file. The database is `content` (the dump
it came from), `part` (how much of it is in) and what charmer changes
afterwards: `keys`, whose key each exitNodes row carries, and `util`, every org's
utility subnet. `staged` is the uploaded dump, `running` the containers. The
steps are the remote commands, in order; `Cut` ends the command at any of them
with its effect complete, partial or absent (`CutDatabase`, `CutContainers`).
psql stops at the first failing statement and keeps what came before it:
`Stopped` is what it may leave. Networks are intervals `[at, size]`; `Widened`
is `widen_utility_subnet()` and `Capacity` `exit_node_capacity()`.

`Replacement` knows data that comes from a `source`, is `whole` or not, and may
be patched; whether something is `serving` it; and what is `recorded` and
reported as `done`. `Restore` implements it with `source <- content`,
`whole <- (part = "whole")`, `patch <- <<keys, util>>`,
`serving <- (running # {})`, `recorded <- pinned` and
`done <- (status = "done")`; `IsReplacement` is its specification under this
mapping.

What gerbil does with its identity is external (`GerbilIsKnown`): Pangolin
answers it only when a row carries its key, or makes a row when there is none.

Left out: SQL and its answers as text, the agents (their redial is a warning),
a database that Pangolin itself writes to while it runs, a dump that was torn
before it was uploaded, and other commands between two runs of the phase.

### NewtAgents

`sites` are the identities Pangolin's database accepts, `agents` the config
file, `pinned`, `adopted` and `restoreAt` the state file; on a host, `old` is
the container of the old installation, `bundle` what `/opt/newt` holds and
`newt` the identity the bundle's container runs with. An identity stands for a
newtId with its secret; `check_credentials()` is membership in `sites`, or no
answer, which adopt_newt's verify lets pass with a warning. A
command passes `restore`, `redial` (of this or an earlier phase), `adopt` and
`newt`, each of which it may pass over (done, declined, not selected). A turn of
newt is `turn` (the check and the question), `mint`, `pin`, `push`, `retire`,
`mark`, `up`: one remote call or one save each, so that a run can end between
any two of them. `Cut` ends it there, whether the process died or the step
raised; an answer that is lost is the effect of a step followed by `Cut`.
`LoadDump` may bring back any set of the identities that ever existed.

Two ghosts name what a cut leaves behind: `unapplied` (a bundle was pushed, its
container not brought up) and `unretired` (pushed, and the adopted container
still there). `granted` counts the answers "y" and the creations of sites that
were never recorded.

Left out: the order of the agents in the config, several old connectors on one
host, an agent that is renamed or removed by hand, the org ID and the API key,
and changes of a bundle that are not the identity. `redial_all()` is one step
in which every agent may be redialled, missed or left down, because nothing
else touches the agents meanwhile.

### Footprint

`ours` and `held` are the stack's containers and the ports they hold, `dir` and
`data` the directory and the secrets its database was initialised with, `pin`
the secrets of the state file, numbered as they are generated. `tenants` are the
other users of the host: a process, or a container whose name is one of the
stack's, similar to one, or one in capitals. The names matter because preflight
searches `docker ps` without regard to case and compares with the expected set
with it. UDP ports are numbered below the TCP ports (`Udp`).

Every command first proves that it gets in as root at every host, or ends
(`Preauth`); an agent that does not answer stops provision and clean alike.
`Accepts` is the validation of the loopback ports, which looks at the port of the
integration API even where that is off (`apiOn`).

The commands are preflight and the footprint of the pangolin phase (`pin`,
`files`, `up`) under `provision`, and clean (`down`, `remove`, `archive`). A
failing `up` leaves the host as it was, with containers created, with what
starts before gerbil, or with everything (`StartedInPart`). `orphaned` and
`torn` name what a clean leaves that did not get to its end.

Left out: how the containers are rolled out (that is `Stack`), preflight's
warnings, the prompt for the site's name, and a site that is renamed (its state
file is then another one, `config.py:551`).

## Runs

| Run | Checks | Instance |
|---|---|---|
| `runner` | `TypeOK`, `SoundFoundation`, `DoneIsSound`, `IsResumable` | two agent hosts, every edit of dump and agents, four `--replay` sets, no `--only`, 3 upsets |
| `runner_resume` | `AdoptionFollowsRestore`, `CompletedIsLeftAlone`, `Converges` (fair) | one agent host, `--only` and `--replay` sets, 3 upsets |
| `hardening` | `TypeOK`, `CleanReportKeepsTheDoor`, `AbortRestoresSshd`, `WayInIsKept`, `DoneIsKeyOnly`, `ScopingIsReal`, `ComesToDone` (fair) | eight makes of host, root and sudo logins, ports 22 and 2222, two addresses, 2 upsets |
| `stack` | `TypeOK`, `RolloutIsComplete`, `TraefikFollowsGerbil`, `RedialRemembered`, `TunnelsKeptUp`, `ShutdownKeepsPangolinDown` | every file editable, postgres and gerbil redefinable, pangolin, gerbil and traefik may crash, every step may fail, 4 upsets |
| `restore` | `TypeOK`, `HalfDataStaysDown`, `SecretsDeleted`, `RestoredIsWhole`, `RangesAreSafe`, `NoSilentOverflow`, `IsReplacement`, `RestoreEnds` (fair) | two exit nodes, two orgs, five dumps, three widening targets in 32 addresses, 3 upsets |
| `newt` | `TypeOK`, `IdentitiesAreDistinct`, `MintsAreAccounted`, `NoRivals`, `NewtIsComplete` | two hosts whose old connectors share an identity, one of them in `/opt/newt`, two sites per agent, 4 upsets |
| `footprint` | `TypeOK`, `SecretsOutliveData`, `NothingLeftBehind`, `DoneIsThere`, `PreflightFindsClashes`, `BlockedOnlyByOthers`, `ComesUp` (fair) | six configs, two of which the validation refuses, five states of the machines, five tenants, 3 upsets |
| `lost_change` | `DoneIsCurrent`: violated | edits of `config.yml`, one failure |
| `restore_gate` | `RestoreIsGated`: violated | one unhealthy pangolin |
| `two_connectors` | `TwoNeverRun`: violated | one restore, one cut |
| `lockout` | `NeverLocksItselfOut`: violated | a sudo login, nothing goes wrong |
| `foreign_identity` | `SnapshotIsOwn`: violated | one load that ends half-way |

The `about` of each run in `PROJECT.json` says in a sentence what it shows, and
every property there has a mutant: a plausible bug in one definition that makes
TLC find the property violated.

**Bounds.** Everything out of the ordinary (a fault, a dead process, a crash, a
decline, an edit, a clean, a tenant's move, an `--only` or `--replay`) uses up
one *upset*. Plain commands are unbounded, so an upset can fall anywhere in any
number of re-runs. Three let an edit, a failure and a second failure of the
re-run fall together in the runner; four do the same for the stack and a crash.
The agents get four as well: a restore, a deleted site or a second restore, and
two cuts. Two hosts are enough for a shared identity, and two sites per agent
for one that is minted again. Where a site is asked for at `MaxMints`, Pangolin
refuses it. Restore gets three: a load that is cut, an edit to another dump, and
a fault of the re-run; two exit nodes and two orgs are what it takes for the
lowest row to be another host's and for one org's range to be in another's way,
and 32 addresses hold every relation two networks can have (apart, adjacent, one
in the other). base gets two: a failure and what the operator or the host does
after it (a move, a clean, a reboot); on port 22 alone the safety properties and
the proof's invariant were checked with three. Each of the eight hosts differs
from an ordinary one in one respect, since base's steps for UFW, docker and sshd
do not look at each other. Footprint's three are a failure or a death, the
tenant that comes into the gap, and the clean or replay that meets both. The
pipeline, the services and the steps are those of the code, not parameters.

**Fairness.** The liveness properties assume weak fairness of two actions. One
is that a command that runs goes on (`RunnerStep`, `Advance`): every remote call
and every wait in the phases has a timeout (`remote.py:127-142`, `sshexec.py:88`),
after which it raises or returns false. The other is an operator who keeps
re-running the plain command (`Provision`, `Begin`): the promise is about
re-runs and needs one. Upsets are not fair and run out; `ComesToDone`,
`RestoreEnds` and `ComesUp` speak of the time when they have. `Converges` is
checked with `--replay` and `--only` sets that leave preflight alone: with
pangolin not done, preflight takes the stack for a foreign one and no plain
re-run gets past it (`preflight.py:71-87`). `BlockedOnlyByOthers` says exactly
that: preflight fails for somebody else's fault, or while the stack is up and
not done. The preconditions of the three others name the states from which the
code does not recover:

- `ComesToDone`: a docker that came without compose, a line in sshd_config that
  beats every drop-in, and a daemon.json whose docker restart failed (the re-run
  sees the file, does not restart docker, and fails its own DNS probe).
- `RestoreEnds`: a dump that cannot load or has no row of the host's id, and a
  database whose lowest row is no longer the host's own (`foreign_identity`).
- `ComesUp`: something is in the way of the containers, or preflight fails.

**Deadlock** is off in `hardening`, `restore`, `foreign_identity` and
`footprint`: once the bound on upsets is used up, a site that is done, a dump
that is not configured or a lost login leaves nothing to do.

**What the violations show.** Five runs state a sentence of the repository and
find a behaviour of the code against it; `findings` in `PROJECT.json` quotes the
sentences.

- `lost_change`: a changed file is a change only to the run that pushes it. If
  that run fails before the restart, no later run restarts the service.
- `restore_gate`: the wait for "healthy" accepts "unhealthy".
- `two_connectors`: the bundle with an adopted identity is pushed before the old
  container is removed. If the run ends in between, the redial of any later
  command starts the bundle beside it.
- `lockout`: `$SSH_CLIENT` is read under sudo, which drops it, so the address of
  the running connection never joins the allow-list of a sudo login.
- `foreign_identity`: a load that ended half-way has put another host's exit node
  into the table, and the re-run takes it for the host's own.

Other behaviours a reader of the docs might not expect are part of the models
without a run of their own:

- A phase keeps its old "done" while `--only` runs it again. Interrupted, it
  passes for done in the next full run; `SoundFoundation` and `DoneIsSound` are
  therefore stated without `--only`.
- After a failed restore, declining it on the re-run skips it; newt and handoff
  then go on over a stopped stack.
- restore saves `restore_at` and sends adopt_newt back to pending in two saves,
  the first after the load. A restore that failed or was cut in between is run
  again and repairs that, but when the operator declines it the old "done" of
  adopt_newt stays beside the new database (`offered = "lost"`).
- Nothing but restore knows that a load has failed: `charm start` and
  `--replay pangolin` start the stack on half a database. `HalfDataStaysDown` is
  about the restore phase and its re-runs.
- Only ranges that are widened are checked against anything: a dump that comes
  with a utility subnet over an org's subnet keeps it (`RangesAreSafe`).
- adopt_newt can be asked again after newt and handoff are done; what it adds is
  in the config file, and the two are passed over.
- Whether newt asks before it mints depends on the restore having run in the
  same process; a re-run after an interruption does not ask.
- `up -d` starting a gerbil that was down looks like nothing to
  `rollout_actions()`; traefik stays in the dead namespace and no re-run of the
  phase changes that (`shutdown` does). `start` has no check for it either.
- `zcat | psql` answers with psql's status: a dump that is cut short on its way
  into the pipe loads "well" as far as it goes. The checksum of the upload is
  what stands against it (`Uploaded` in the proof).
- When the exit nodes' addresses cannot be read, `_utility_subnets()` widens
  without them (`blind` in `RangesAreSafe`).
- `_exit_node_headroom()` looks at one row of exitNodes. A dump of a deployment
  in which this host had another id brings a second row with the host's own key;
  its room is not compared with anything, nor is that of a dump with a single
  row, which gerbil takes over as it is (the exceptions in `NoSilentOverflow`).
- preflight looks at the ports of gerbil and postgres only, and only at what
  runs (the exceptions of `PreflightFindsClashes`).

`RolloutIsComplete` and `RedialRemembered` speak of behaviours in which no
`apply()` was left half-way and no look at the services failed (`~cut`).
`TraefikFollowsGerbil`, `TunnelsKeptUp` and `ShutdownKeepsPangolinDown` hold
whatever was interrupted before. `NoRivals` and `NewtIsComplete` leave out
exactly the hosts on which an earlier turn was cut at the wrong place
(`unretired`, `unapplied`), and `MintsAreAccounted` counts a lost creation as
granted: the sentence "minted once ever" of the README (README.md:629) holds up
to that and the operator's own answers.

## What is proved

The six `...Proofs` modules prove, with TLAPS, for every value of the constants
(any hosts, agents, dumps, configs and tenants, any sets of fallible steps, any
number of upsets), that the specifications satisfy the properties below. Every
safety property that a run checks is among them. The only assumptions are the
named `ASSUME` of each module, which say what the constants are; TLC evaluates
them on every run. One of them is about numbers: `CidrAssumption` of `Restore`
says of the networks in the dumps what CIDR makes true of every network, that it
starts at a multiple of its size and that of two sizes the smaller divides the
larger.

| Theorem | Statement |
|---|---|
| `PhaseRunnerProofs!TypeCorrect` | `Spec => []TypeOK` |
| `PhaseRunnerProofs!FrontierIsSettled` | `Spec => []FrontierSettled` |
| `PhaseRunnerProofs!LedgerIsHonest` | without `--only`: `Spec => []DoneIsSound` |
| `PhaseRunnerProofs!Foundation` | without `--only`: `Spec => []SoundFoundation` |
| `PhaseRunnerProofs!AdoptionFollows` | `Spec => []AdoptionFollowsRestore`, with `--only` as well |
| `PhaseRunnerProofs!CompletedStays` | `Spec => CompletedIsLeftAlone`, with `--only` as well |
| `PhaseRunnerProofs!RunnerIsResumable` | `Spec => IsResumable`, the refinement |
| `HostHardeningProofs!TypeCorrect` | `Spec => []TypeOK` |
| `HostHardeningProofs!TheWayInStays` | `Spec => []WayInIsKept` |
| `HostHardeningProofs!KeyOnlyIsReal` | `Spec => []DoneIsKeyOnly` |
| `HostHardeningProofs!ScopingHolds` | `Spec => []ScopingIsReal` |
| `HostHardeningProofs!TheDoorStaysOpen` | `Spec => []CleanReportKeepsTheDoor` |
| `HostHardeningProofs!AbortIsClean` | `Spec => []AbortRestoresSshd` |
| `HostHardeningProofs!CloserToDone` | `ComesToDone` but for the fairness |
| `StackProofs!TypeCorrect` | `Spec => []TypeOK` |
| `StackProofs!TunnelsSurvive` | `Spec => TunnelsKeptUp` |
| `StackProofs!PangolinStaysDown` | `Spec => ShutdownKeepsPangolinDown` |
| `StackProofs!TraefikIsRejoined` | `Spec => []TraefikFollowsGerbil` |
| `StackProofs!RolloutCompletes` | `Spec => []RolloutIsComplete` |
| `StackProofs!RedialsAreRemembered` | `Spec => []RedialRemembered` |
| `RestoreProofs!TypeCorrect` | `Spec => []TypeOK` |
| `RestoreProofs!HalfDataNeverRuns` | `Spec => []HalfDataStaysDown` |
| `RestoreProofs!SecretsAreDeleted` | `Spec => []SecretsDeleted` |
| `RestoreProofs!ReplacedOnlyWhileDown` | `Spec => ReplacedWhileDown` |
| `RestoreProofs!RestoredWhole` | `Spec => []RestoredIsWhole` |
| `RestoreProofs!RestoreIsReplacement` | `Spec => IsReplacement`, the refinement |
| `RestoreProofs!CapacityIsRoom` | `Capacity(n) = Room(n)` for every aligned network |
| `RestoreProofs!WidenedIsSafe` | `Widened(n, t, others)` is at a multiple of its size, covers `n` and, where it differs, clears `others` |
| `RestoreProofs!RangesStaySafe` | `Spec => []RangesAreSafe` |
| `RestoreProofs!NoOverflowGoesUnsaid` | `Spec => []NoSilentOverflow` |
| `RestoreProofs!RestoreComesCloser` | `RestoreEnds` but for the fairness, see below |
| `NewtAgentsProofs!TypeCorrect` | `Spec => []TypeOK` |
| `NewtAgentsProofs!IdentitiesStayDistinct` | `Spec => []IdentitiesAreDistinct` |
| `NewtAgentsProofs!EverySiteIsAccounted` | `Spec => []MintsAreAccounted` |
| `NewtAgentsProofs!OldOneGoesFirst` | `Spec => []NoRivals` |
| `NewtAgentsProofs!NewtCompletes` | `Spec => NewtIsComplete` |
| `FootprintProofs!TypeCorrect` | `Spec => []TypeOK` |
| `FootprintProofs!SecretsFitData` | `Spec => []SecretsOutliveData` |
| `FootprintProofs!CleanIsClean` | `Spec => []NothingLeftBehind` |
| `FootprintProofs!DoneStands` | `Spec => []DoneIsThere` |
| `FootprintProofs!OnlyOthersBlock` | `Spec => BlockedOnlyByOthers` |
| `FootprintProofs!ClashesAreFound` | `Spec => []PreflightFindsClashes` |
| `FootprintProofs!CloserToUp` | `ComesUp` but for the fairness |

**The runner.** `FrontierSettled` is inductive together with the type invariant
and `Placed`, which ties the `--replay` marks to the head of the pipeline and
the save points of restore to restore's place in it. The one delicate step is
`ResetAdoption`, which takes adopt_newt back to pending after a restore:
`Placed` says that the loop has not passed adopt_newt yet. `DoneIsSound` needs `NotYetDone`: without `--only` the loop never
works on a phase that the state file already calls done, because `--replay`
marks it pending first. With `--only` this fails, and so would the theorem: an
interrupted `--only` leaves the old "done" behind. `SoundFoundation` is then a
consequence of the two. `AdoptionFollowsRestore` needs `ReOffered`: except between
the two saves of a restore, a "done" of adopt_newt in the state file means that
it has run on the loaded database, or that this database is one of the `lost`
ones. It speaks of the state file and not of the command, so it holds whatever
ran with `--only` in between.
`CompletedStays` needs `Named`: a command that works on a phase which the state
file calls done was told to with `--only`. It also holds of `--only` runs,
because the loop of a full run passes over what is done before it asks.

**The refinement.** `RunnerIsResumable` sorts every step of `PhaseRunner` into
the four kinds of `Resumable`. A lemma each says that a step belongs to no full
run, begins one, leaves the loop at its phase or takes it one further, or ends
the command and touches no status but that of the current phase; `FrontierInv`
gives that what is behind `pos` is settled, and `ResetAdoption`, which unsettles
a phase, is before adopt_newt, so never behind the frontier.

**The host.** The invariant of `HostHardening` keeps its subjects apart.

- `Units` and `Switch`: ssh.socket is active as it is enabled, one of the two
  units always is, and a socket beside an enabled service that is down is left
  only by a switch that failed, over files that are key-only already.
- `Hardening`: what the steps `read` to `await` have established about the files
  and the running sshd; `Before` compares the files with those of `before`
  without the drop-in. Together they give `AbortRestoresSshd` and
  `DoneIsKeyOnly`.
- `Unserved`: nobody serves logins only while a switch off the socket is awaited,
  after a cut there, or after an sshd without a socket died. `LoginWorks`: neither the
  files nor the running sshd refuse the login charmer uses. With `Units` this is
  `WayInIsKept`.
- `Firewall`: which rules are there, step by step, and what `mine` and `clean`
  say of them: `CleanReportKeepsTheDoor` and `ScopingIsReal`.

**The stack.** None of the properties is inductive, and the parts of the
invariant are kept apart, each with a lemma for its step; TLC confirmed each of
them on the instance of `stack` before it was proved.

- `Placed`: a command is at one of its own steps. With it
  `ShutdownKeepsPangolinDown` reduces to the five steps of a shutdown.
- `Whole`: the containers of the stack are created together. While there are
  none, nothing is outdated, unread or owed, and `up` creates all five; once
  they exist, no step removes one. It is what makes a first run complete.
- `Rejoined`: after traefik's recreation, shutdown and restore do not move
  gerbil any more. It implies `TraefikFollowsGerbil`.
- `Carried`: per step of the rollout, which service may still be behind its
  definition, its files or its database, and which local variable of `apply()`
  knows it: `pangolinFiles` until the first restart, `outdated` until `up`,
  `fresh` for a recreated postgres until `rollout_actions()`, `restarts` and
  `recreateTraefik` until the end. At `verify` nothing is left:
  `RolloutIsComplete`.
- `Accounted`: who will make a redial that is owed: the command that bounced
  gerbil, at the steps before its `redial_all()` (`Owing`), or the state file.
  It implies `RedialRemembered`, and uses `Carried` for the first run, in which
  nothing was there to bounce.

`Carried` and `Accounted` are claims about behaviours that are not `cut`;
`CutStays` says that `cut` is never taken back.

**The restore.** `LoadInv` says, step by step, what was established on the way:
the config allows the replacement (`Allowed`), the stack is down (`Down`), what
psql reads is the whole upload (`Uploaded`), after its answer the database is the
whole dump (`LoadedOk`) and the upload is gone (`Gone`). No part of it looks
into a dump. `Started` adds which containers have been started since, and that
gerbil was seen to be known; it holds up to verify because nothing after
`WaitStable` touches `keys`.

Two properties rest on arithmetic. `SupernetCovers` and `BlocksCounted` are its
lemmas: the aligned network around an aligned one covers it when its size is a
multiple, and the multiples of the block size in an aligned network are counted
by a bijection with `1..k`. From them `CapacityIsRoom` and `WidenedIsSafe` say
of the two pure functions of the module what they are for, with no bound on the
sizes. `RangesInv` adds to `RangesAreSafe` that the ranges are as loaded until
`widen` comes to them, so that no org is widened twice. `RoomInv` remembers, from
the load to verify, which row the reconciliation wrote to and that the headroom
check, unless it warned, found room in the same one; `CapacityIsRoom` makes that
room for every tunnel.

The refinement needs `EndInv`, the parts above taken together, and `Unfinished`:
a running command is over a phase that is not done, since `--replay` marks it
pending and a phase that is done is passed over. `DatabaseStep` then sorts the
steps: the stop withdraws, the load, the reconciliation and the widenings
replace, the start of pangolin serves, and a `Cut` is whichever of them it cut,
or nothing.

**The agents.** Here too the invariant is kept in parts.

- `Provenance`: a pinned identity is nothing, the host's old one or one minted
  for it; between the two saves of an adoption the host has nothing pinned and
  no configured agent has its identity. With it `IdentitiesAreDistinct` is
  inductive.
- `Budget`: while nothing is pinned, or a site is about to be created, all the
  agent ever got was granted. That is the strengthening that makes
  `MintsAreAccounted` inductive: the one that is not granted is still to come.
- `Guarded`: an old container that is still there belongs to an entry that is
  "adopted", not "retired", and a bundle with its identity was left by a cut
  turn or is at the step that removes the container.
- `Applied`: a container that is not the one of its bundle was left by a cut
  turn or has `changed` set in this one; the agents this phase is through with
  have their pinned identity in the bundle and nothing to retire.

A lemma per invariant (`QuietFor...`) collects the actions that leave its
variables alone.

**The footprint.** `PinnedFirst`: secrets are pinned before the directory is
made, the directory before containers and data. `CleanInOrder`: clean takes them
away in the other order, and archives the pins only over a host without
directory and data. `SecretsBounded`: every generation of secrets but the first
follows a clean, which uses an upset; it is what the type invariant needs. With
these `SecretsOutliveData`, `NothingLeftBehind` and `DoneIsThere` are inductive.
`SawClearHost` remembers what a preflight of a fresh host has seen; it implies
`PreflightFindsClashes`.

**Liveness, but for the fairness.** `RestoreEnds`, `ComesToDone` and `ComesUp`
say that, once nothing goes wrong any more, re-running the command brings a phase
to its end. A prover without ENABLED cannot conclude such a thing, but it can
prove the part in which charmer could be wrong. In each of the three modules
`Assured` is the precondition of the property (`Recoverable`, `Unhindered`)
carried through the command: at every step, what the rest of it relies on. The
theorem says that with `upsets` used up, `Assured` holds between commands exactly
where the property promises something, and that every step from there either
reaches the end or keeps `Assured` and goes to a later step; `widen`, which
repeats, leaves one org less to look at, and a dump has finitely many. So no
run fails, turns back or goes round in circles, for any values of the constants.
What is left to TLC is that such a step is possible, and that a fair operator
and fair timeouts take it.

`Assured` of the restore follows gerbil's identity from the snapshot through the
load to the row it is written back to. In `HostHardening` the point is that sshd
listens at the end, after whatever an earlier run left: either it listens
already, or the conflict that the switch off the socket mends is there
(`Answering`). That a running ssh.service without the port is an enabled one is
the invariant `Held`.

**Only model-checked.** `Converges`, and of `ComesToDone`, `RestoreEnds` and
`ComesUp` the half that needs ENABLED and fairness. `Converges` spans many
commands, so its measure would be over whole histories, not over the steps of one.
The five violations are runs of TLC by nature.

## Not modelled

- `config.py` beyond the rules that `Footprint` and `HostHardening` use: parsing
  of one file into a dataclass. Its results are the constants of the modules.
- Two charmer processes over one state file. Each loads it once and saves it
  whole, so the later save wins; nothing in the code detects or prevents it, and
  no doc promises anything about it.
- `handoff` beyond its place in the pipeline: it prints where the site is and
  writes a config file for `charm monitor`, which no phase reads.
- The monitor and `logs`: they collect and draw, and no step relies on what they
  show.
- Self-update: a download, a checksum and a rename, in this order, of one file.
- The init wizard, the transcript, licences and changelog: prompts and text.
- Templates and certificate files: rendered text. Of the compose file the
  published ports, dependencies and namespaces appear in `Stack` and `Footprint`.
- The SSH transport and what docker, compose, systemd, sshd, UFW, psql and
  Pangolin do on their side: modelled from how the code uses them and marked
  external in `PROJECT.json`.

What could follow: the session parser of `monitor/logs.py` and the version
comparison of `update.py` against reference definitions.

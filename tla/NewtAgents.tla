----------------------------- MODULE NewtAgents -----------------------------
(***************************************************************************)
(* Who connects with which identity: the sites in Pangolin's database, the *)
(* credentials pinned in the state file, the compose bundle on each agent  *)
(* and the connector containers that run there.  adopt_newt takes over the *)
(* identity of a connector of the old installation                         *)
(* (phases/adopt_newt_phase.py), newt mints a site where nothing is pinned *)
(* and swaps the containers (phases/newt_phase.py, pangolin_api.py), a     *)
(* restore replaces the database under both, and every restart of gerbil   *)
(* recreates the containers from the bundles found on the agents           *)
(* (redial_all() in phases/newt_ops.py).                                   *)
(*                                                                         *)
(* An identity (newtId and secret) is a pair: <<h, 0>> was made by the old *)
(* installation, <<h, n>> with n > 0 is the n-th site minted for agent h.  *)
(* A bundle is the identity rendered into it.  An agent is named by its    *)
(* host, and a host has at most one connector of the old installation.     *)
(***************************************************************************)
EXTENDS Naturals

CONSTANTS
  Hosts,      \* hosts that may be agents
  Old,        \* host -> identity of its old connector, or None
  Legacy,     \* hosts whose old connector is itself a compose project in NEWT_DIR
  None,       \* no identity
  Foreign,    \* a compose file that charmer did not render
  MaxMints,   \* bound on the sites Pangolin creates for one agent
  MaxUpsets   \* bound on everything out of the ordinary (see Upset)

Identities == Hosts \X (0..MaxMints)

ASSUME AgentsAssumption ==
  /\ Old \in [Hosts -> (Hosts \X {0}) \cup {None}]
  /\ Legacy \subseteq {h \in Hosts : Old[h] # None}
  /\ None \notin Identities /\ Foreign \notin Identities /\ None # Foreign
  /\ None \notin Hosts
  /\ MaxMints \in Nat
  /\ MaxUpsets \in Nat

VARIABLES
  sites,       \* Pangolin's database: the identities it accepts
  agents,      \* config file: newt_agents
  pinned,      \* state file: newt_id_<name> and newt_secret_<name>, or None
  adopted,     \* state file: the entry under "adopted": none, adopted or retired
  restoreAt,   \* state file: "restore_at" is pinned
  old,         \* hosts whose old connector container is still there
  bundle,      \* host -> what its /opt/newt/docker-compose.yml holds
  newt,        \* host -> the identity the container of that bundle runs with
  at,          \* the step the running command has reached; "idle" when none runs
  restoreRan,  \* PhaseContext.restore_ran
  taken,       \* AdoptNewtPhase._adopted
  todo,        \* the agents that NewtPhase.apply() has still to finish
  skipped,     \* NewtPhase._skipped
  cur,         \* the agent the command is busy with, or None
  asked,       \* the operator said y to a new site for cur
  changed,     \* push_file() wrote a new bundle for cur
  mints,       \* host -> number of sites created for it so far
  granted,     \* ghost: y answers, and sites whose creation was never recorded
  unapplied,   \* ghost: hosts where a bundle was pushed and the turn then cut
  unretired,   \* ghost: hosts where that happened before the old one was removed
  upsets       \* number of upsets so far

stateFile == <<pinned, adopted, restoreAt>>
onHosts   == <<old, bundle, newt>>
command   == <<at, restoreRan, taken, todo, skipped, cur, asked, changed>>
ghosts    == <<granted, unapplied, unretired>>
vars      == <<sites, agents, stateFile, onHosts, command, mints, ghosts, upsets>>

Steps == {"idle", "restore", "record", "redial", "adopt", "save", "newt", "turn",
          "mint", "pin", "push", "retire", "mark", "up", "verify"}
BusySteps == {"save", "mint", "pin", "push", "retire", "mark", "up"}

TypeOK ==
  /\ sites \subseteq Identities
  /\ agents \subseteq Hosts
  /\ pinned \in [Hosts -> Identities \cup {None}]
  /\ adopted \in [Hosts -> {"none", "adopted", "retired"}]
  /\ restoreAt \in BOOLEAN
  /\ old \subseteq Hosts
  /\ bundle \in [Hosts -> Identities \cup {None, Foreign}]
  /\ newt \in [Hosts -> Identities \cup {None}]
  /\ at \in Steps
  /\ restoreRan \in BOOLEAN
  /\ taken \subseteq agents
  /\ todo \subseteq agents
  /\ skipped \subseteq agents
  /\ cur \in Hosts \cup {None} /\ (at \in BusySteps => cur \in agents)
  /\ asked \in BOOLEAN
  /\ changed \in BOOLEAN
  /\ mints \in [Hosts -> 0..MaxMints]
  /\ granted \in [Hosts -> Nat]
  /\ unapplied \subseteq Hosts
  /\ unretired \subseteq Hosts
  /\ upsets \in 0..MaxUpsets

(* Nothing provisioned, a fresh database; the old connectors still run. *)
Init ==
  /\ sites = {}
  /\ agents \in SUBSET Hosts
  /\ pinned = [h \in Hosts |-> None]
  /\ adopted = [h \in Hosts |-> "none"]
  /\ restoreAt = FALSE
  /\ old = {h \in Hosts \ Legacy : Old[h] # None}
  /\ bundle = [h \in Hosts |-> IF h \in Legacy THEN Foreign ELSE None]
  /\ newt = [h \in Hosts |-> IF h \in Legacy THEN Old[h] ELSE None]
  /\ at = "idle"
  /\ restoreRan = FALSE
  /\ taken = {} /\ todo = {} /\ skipped = {}
  /\ cur = None
  /\ asked = FALSE /\ changed = FALSE
  /\ mints = [h \in Hosts |-> 0]
  /\ granted = [h \in Hosts |-> 0]
  /\ unapplied = {} /\ unretired = {}
  /\ upsets = 0

(* Something the operator does not do every day, a failure or a crash. *)
Upset == upsets < MaxUpsets /\ upsets' = upsets + 1

At(s)   == at = s
GoTo(s) == at' = s

(* The process is over, and its variables with it. *)
Ends ==
  /\ GoTo("idle")
  /\ restoreRan' = FALSE
  /\ taken' = {} /\ todo' = {} /\ skipped' = {}
  /\ cur' = None
  /\ asked' = FALSE /\ changed' = FALSE

(* managed_newt_ids() *)
Managed == {pinned[a] : a \in agents} \ {None}

(* The identity a container started from h's bundle runs with. *)
Rendered(h) == IF bundle[h] = Foreign THEN Old[h] ELSE bundle[h]

(***************************************************************************)
(* The command line and the phases that come before adopt_newt.            *)
(***************************************************************************)
(* `charm provision`: a new process. *)
Provision ==
  /\ At("idle") /\ GoTo("restore")
  /\ UNCHANGED <<sites, agents, stateFile, onHosts, restoreRan, taken, todo, skipped, cur,
                 asked, changed, mints, ghosts, upsets>>

(* A phase that is done, switched off, declined or not among --only.  The  *)
(* redial of a restore cannot be left out.                                 *)
PassOver ==
  /\ \/ At("restore") /\ GoTo("redial")
     \/ At("redial") /\ ~restoreRan /\ GoTo("adopt")
     \/ At("adopt") /\ taken = {} /\ GoTo("newt")
  /\ UNCHANGED <<sites, agents, stateFile, onHosts, restoreRan, taken, todo, skipped, cur,
                 asked, changed, mints, ghosts, upsets>>

(* RestorePhase: the dump, of whatever age, replaces every site there was. *)
LoadDump ==
  /\ At("restore") /\ Upset
  /\ sites' \in SUBSET (({Old[h] : h \in Hosts} \ {None})
                        \cup {i \in Identities : i[2] \in 1..mints[i[1]]})
  /\ GoTo("record")
  /\ UNCHANGED <<agents, stateFile, onHosts, restoreRan, taken, todo, skipped, cur, asked,
                 changed, mints, ghosts>>

(* The stack is back: restore_at and the reset of adopt_newt are saved. *)
RecordRestore ==
  /\ At("record") /\ GoTo("redial")
  /\ restoreAt' = TRUE
  /\ restoreRan' = TRUE
  /\ UNCHANGED <<sites, agents, pinned, adopted, onHosts, taken, todo, skipped, cur, asked,
                 changed, mints, granted, unapplied, unretired, upsets>>

(* redial_all(), after this or another phase restarted gerbil: down and up *)
(* on every agent that has a bundle.  An agent that cannot be reached      *)
(* keeps what it runs, one whose `up` fails runs nothing: only a warning.  *)
RedialAll ==
  /\ At("redial") /\ GoTo("adopt")
  /\ \E outcome \in [{a \in agents : bundle[a] # None} -> {"redialled", "unreached", "down"}] :
       LET having(o) == {a \in DOMAIN outcome : outcome[a] = o} IN
       /\ IF having("redialled") = DOMAIN outcome THEN UNCHANGED upsets ELSE Upset
       /\ newt' = [h \in Hosts |-> IF h \in having("redialled") THEN Rendered(h)
                                   ELSE IF h \in having("down") THEN None ELSE newt[h]]
       /\ unapplied' = unapplied \ having("redialled")
  /\ UNCHANGED <<sites, agents, stateFile, old, bundle, restoreRan, taken, todo, skipped, cur,
                 asked, changed, mints, granted, unretired>>

(* The end of a run that leaves newt out. *)
Finish ==
  /\ At("newt") /\ Ends
  /\ UNCHANGED <<sites, agents, stateFile, onHosts, mints, ghosts, upsets>>

(***************************************************************************)
(* adopt_newt.                                                             *)
(***************************************************************************)
(* The old connector on h, whatever directory it was started from: what    *)
(* discover_connectors() finds there.                                      *)
OldConnector(h) == h \in old \/ bundle[h] = Foreign

(* Mutant: credentials that a configured agent has are not refused. *)
UsableManaged(h) == OldConnector(h) /\ Old[h] \in sites

(* _pick(): not managed already, and accepted by this Pangolin. *)
Usable(h) ==
  /\ OldConnector(h)
  /\ Old[h] \notin Managed
  /\ Old[h] \in sites

(* Mutant: a config file that could not be written does not stop the adoption. *)
OnboardUnwritten(h) ==
  /\ At("adopt") /\ GoTo("save")
  /\ restoreRan \/ restoreAt
  /\ h \notin agents
  /\ Usable(h)
  /\ cur' = h
  /\ UNCHANGED <<sites, agents, stateFile, onHosts, restoreRan, taken, todo, skipped, asked,
                 changed, mints, ghosts, upsets>>

(* _onboard() of a host that is not configured yet: the agent is written   *)
(* to the config file first.                                               *)
Onboard(h) ==
  /\ At("adopt") /\ GoTo("save")
  /\ restoreRan \/ restoreAt
  /\ h \notin agents
  /\ Usable(h)
  /\ agents' = agents \cup {h}
  /\ cur' = h
  /\ UNCHANGED <<sites, stateFile, onHosts, restoreRan, taken, todo, skipped, asked, changed,
                 mints, ghosts, upsets>>

(* ... and its credentials to the state file next. *)
SaveAdopted ==
  /\ At("save") /\ GoTo("adopt")
  /\ pinned' = [pinned EXCEPT ![cur] = Old[cur]]
  /\ adopted' = [adopted EXCEPT ![cur] = "adopted"]
  /\ taken' = taken \cup {cur}
  /\ cur' = None
  /\ UNCHANGED <<sites, agents, restoreAt, onHosts, restoreRan, todo, skipped, asked, changed,
                 mints, ghosts, upsets>>

(* AdoptNewtPhase.verify(): a rejected pair fails the phase and the run; one *)
(* that Pangolin gives no answer about passes with a warning.                *)
VerifyAdopted ==
  /\ At("adopt") /\ (restoreRan \/ restoreAt)
  /\ LET accepted == \A a \in taken : pinned[a] \in sites IN
       \/ /\ GoTo("newt") /\ UNCHANGED <<restoreRan, taken, todo, skipped, cur, asked, changed>>
          /\ IF accepted THEN UNCHANGED upsets ELSE Upset
       \/ ~accepted /\ Ends /\ UNCHANGED upsets
  /\ UNCHANGED <<sites, agents, stateFile, onHosts, mints, ghosts>>

(***************************************************************************)
(* newt: one turn per agent.  (MaxMints bounds what the operator accepts.) *)
(***************************************************************************)
StartNewt ==
  /\ At("newt") /\ GoTo("turn")
  /\ agents # {}
  /\ todo' = agents
  /\ skipped' = {}
  /\ UNCHANGED <<sites, agents, stateFile, onHosts, restoreRan, taken, cur, asked, changed,
                 mints, ghosts, upsets>>

(* check_credentials() accepts the pinned pair, or Pangolin does not answer. *)
Reuse(a) ==
  /\ At("turn") /\ GoTo("push")
  /\ a \in todo
  /\ pinned[a] # None
  /\ IF pinned[a] \in sites THEN UNCHANGED upsets ELSE Upset
  /\ cur' = a
  /\ asked' = FALSE
  /\ UNCHANGED <<sites, agents, stateFile, onHosts, restoreRan, taken, todo, skipped, changed,
                 mints, ghosts>>

(* Nothing is pinned, and the restored database may have a site for it; or *)
(* what is pinned is rejected.                                             *)
AskFirst(a) == IF pinned[a] = None THEN restoreRan ELSE pinned[a] \notin sites

Decline(a) ==
  /\ At("turn")
  /\ a \in todo /\ AskFirst(a)
  /\ skipped' = skipped \cup {a}
  /\ todo' = todo \ {a}
  /\ UNCHANGED <<sites, agents, stateFile, onHosts, at, restoreRan, taken, cur, asked, changed,
                 mints, ghosts, upsets>>

Accept(a) ==
  /\ At("turn") /\ GoTo("mint")
  /\ a \in todo /\ AskFirst(a)
  /\ mints[a] < MaxMints
  /\ cur' = a
  /\ asked' = TRUE
  /\ granted' = [granted EXCEPT ![a] = @ + 1]
  /\ UNCHANGED <<sites, agents, stateFile, onHosts, restoreRan, taken, todo, skipped, changed,
                 mints, unapplied, unretired, upsets>>

(* Mutant: what is pinned already is not looked at. *)
UnaskedAgain(a) ==
  /\ At("turn") /\ GoTo("mint")
  /\ a \in todo /\ ~restoreRan
  /\ cur' = a
  /\ asked' = FALSE
  /\ UNCHANGED <<sites, agents, stateFile, onHosts, restoreRan, taken, todo, skipped, changed,
                 mints, ghosts, upsets>>

(* Nothing is pinned, and this process has not restored anything. *)
Unasked(a) ==
  /\ At("turn") /\ GoTo("mint")
  /\ a \in todo /\ pinned[a] = None /\ ~restoreRan
  /\ cur' = a
  /\ asked' = FALSE
  /\ UNCHANGED <<sites, agents, stateFile, onHosts, restoreRan, taken, todo, skipped, changed,
                 mints, ghosts, upsets>>

(* pick_site_defaults() and create_newt_site(). *)
Mint ==
  /\ At("mint") /\ GoTo("pin")
  /\ mints[cur] < MaxMints
  /\ mints' = [mints EXCEPT ![cur] = @ + 1]
  /\ sites' = sites \cup {<<cur, mints[cur] + 1>>}
  /\ UNCHANGED <<agents, stateFile, onHosts, restoreRan, taken, todo, skipped, cur, asked,
                 changed, ghosts, upsets>>

(* The new identity is pinned; there is nothing to retire any more. *)
Pin ==
  /\ At("pin") /\ GoTo("push")
  /\ pinned' = [pinned EXCEPT ![cur] = <<cur, mints[cur]>>]
  /\ adopted' = [adopted EXCEPT ![cur] = "none"]
  /\ UNCHANGED <<sites, agents, restoreAt, onHosts, restoreRan, taken, todo, skipped, cur,
                 asked, changed, mints, ghosts, upsets>>

(* push_file() of the rendered bundle. *)
PushBundle ==
  /\ At("push") /\ GoTo("retire")
  /\ changed' = (bundle[cur] # pinned[cur])
  /\ bundle' = [bundle EXCEPT ![cur] = pinned[cur]]
  /\ UNCHANGED <<sites, agents, stateFile, old, newt, restoreRan, taken, todo, skipped, cur,
                 asked, mints, ghosts, upsets>>

(* Mutant: the test for charmer's own directory is the wrong way round. *)
RetireSwapped ==
  /\ At("retire")
  /\ IF adopted[cur] = "adopted"
       THEN /\ GoTo("mark")
            /\ old' = IF cur \in Legacy THEN old \ {cur} ELSE old
            /\ unretired' = unretired \ {cur}
       ELSE GoTo("up") /\ UNCHANGED <<old, unretired>>
  /\ UNCHANGED <<sites, agents, stateFile, bundle, newt, restoreRan, taken, todo, skipped, cur,
                 asked, changed, mints, granted, unapplied, upsets>>

(* _retire_adopted(): `docker rm -f` of the container the credentials were *)
(* taken from, unless `up` is about to replace it in its own project.      *)
Retire ==
  /\ At("retire")
  /\ IF adopted[cur] = "adopted"
       THEN /\ GoTo("mark")
            /\ old' = IF cur \in Legacy THEN old ELSE old \ {cur}
            /\ unretired' = unretired \ {cur}
       ELSE GoTo("up") /\ UNCHANGED <<old, unretired>>
  /\ UNCHANGED <<sites, agents, stateFile, bundle, newt, restoreRan, taken, todo, skipped, cur,
                 asked, changed, mints, granted, unapplied, upsets>>

(* ... and the save that records it. *)
MarkRetired ==
  /\ At("mark") /\ GoTo("up")
  /\ adopted' = [adopted EXCEPT ![cur] = "retired"]
  /\ UNCHANGED <<sites, agents, pinned, restoreAt, onHosts, restoreRan, taken, todo, skipped,
                 cur, asked, changed, mints, ghosts, upsets>>

(* Mutant: a container that runs is left alone, whatever was pushed. *)
UpDueUnlessRunning == newt[cur] = None

(* `docker compose up -d`, only when nothing runs or the bundle changed;   *)
(* then the wait for "running".                                            *)
UpDue == newt[cur] = None \/ changed

Up ==
  /\ At("up") /\ GoTo("turn")
  /\ IF UpDue
       THEN /\ newt' = [newt EXCEPT ![cur] = Rendered(cur)]
            /\ unapplied' = unapplied \ {cur}
       ELSE UNCHANGED <<newt, unapplied>>
  /\ todo' = todo \ {cur}
  /\ cur' = None
  /\ UNCHANGED <<sites, agents, stateFile, old, bundle, restoreRan, taken, skipped, asked,
                 changed, mints, granted, unretired, upsets>>

EndTurns ==
  /\ At("turn") /\ todo = {} /\ GoTo("verify")
  /\ UNCHANGED <<sites, agents, stateFile, onHosts, restoreRan, taken, todo, skipped, cur,
                 asked, changed, mints, ghosts, upsets>>

(* NewtPhase.verify(): every agent that was not skipped runs a container. *)
Running == \A a \in agents \ skipped : newt[a] # None

VerifyNewt ==
  /\ At("verify") /\ Ends
  /\ UNCHANGED <<sites, agents, stateFile, onHosts, mints, granted, unapplied, unretired, upsets>>

(***************************************************************************)
(* What goes wrong, and what others do.                                    *)
(***************************************************************************)
(* The process dies, or a step fails and run_phases() ends the run, before *)
(* the next step has any effect.  An answer of Pangolin or of docker that  *)
(* is lost is the effect followed by this.  Pangolin refusing another site *)
(* ends the run too.                                                       *)
Pushed == at \in {"retire", "mark", "up"}

Cut ==
  /\ ~At("idle") /\ Ends
  /\ IF At("mint") /\ mints[cur] = MaxMints THEN UNCHANGED upsets ELSE Upset
  /\ granted' = IF At("pin") THEN [granted EXCEPT ![cur] = @ + 1] ELSE granted
  /\ unapplied' = IF Pushed /\ changed THEN unapplied \cup {cur} ELSE unapplied
  /\ unretired' = IF At("retire") /\ adopted[cur] = "adopted"
                    THEN unretired \cup {cur} ELSE unretired
  /\ UNCHANGED <<sites, agents, stateFile, onHosts, mints>>

(* `docker compose up -d` removes the container and cannot start the next. *)
UpFails ==
  /\ At("up") /\ UpDue /\ Upset /\ Ends
  /\ newt' = [newt EXCEPT ![cur] = None]
  /\ UNCHANGED <<sites, agents, stateFile, old, bundle, mints, ghosts>>

(* A connector that dies and stays down. *)
Stop(h) ==
  /\ newt[h] # None /\ Upset
  /\ newt' = [newt EXCEPT ![h] = None]
  /\ UNCHANGED <<sites, agents, stateFile, old, bundle, command, mints, ghosts>>

(* A site deleted on the dashboard. *)
DeleteSite(i) ==
  /\ i \in sites /\ Upset
  /\ sites' = sites \ {i}
  /\ UNCHANGED <<agents, stateFile, onHosts, command, mints, ghosts>>

(* An agent that the operator adds to the config file by hand. *)
AddAgent(h) ==
  /\ At("idle") /\ h \notin agents
  /\ agents' = agents \cup {h}
  /\ UNCHANGED <<sites, stateFile, onHosts, command, mints, ghosts, upsets>>

Adoption == (\E h \in Hosts : Onboard(h)) \/ SaveAdopted \/ VerifyAdopted
Turn(a)  == Reuse(a) \/ Decline(a) \/ Accept(a) \/ Unasked(a)
Newt     == StartNewt \/ (\E a \in Hosts : Turn(a)) \/ Mint \/ Pin \/ PushBundle \/ Retire
            \/ MarkRetired \/ Up \/ EndTurns \/ VerifyNewt
Trouble  == Cut \/ UpFails \/ (\E h \in Hosts : Stop(h))
            \/ (\E i \in sites : DeleteSite(i)) \/ (\E h \in Hosts : AddAgent(h))

Next == Provision \/ PassOver \/ Finish \/ LoadDump \/ RecordRestore \/ RedialAll \/ Adoption \/ Newt
        \/ Trouble

Spec == Init /\ [][Next]_vars

(***************************************************************************)
(* Properties.                                                             *)
(***************************************************************************)
(* Two agents of the config never hold the same identity, also when two    *)
(* old hosts did: adopt_newt refuses credentials that a configured agent   *)
(* has (_pick()), and what newt mints is new, whatever was cut half-way.   *)
IdentitiesAreDistinct ==
  \A a, b \in agents : a # b /\ pinned[a] = pinned[b] => pinned[a] = None

(* The sites minted for h, and the adopted one as long as it is pinned. *)
Got(h) == IF pinned[h] = Old[h] /\ pinned[h] # None THEN mints[h] + 1 ELSE mints[h]

(* The sites an agent ever got (one adopted, the others minted) are at     *)
(* most one, plus one for every y the operator answered and for every site *)
(* whose creation the run did not live to record: no re-run, no restore    *)
(* and no adoption makes newt mint a second site on its own (the pinned    *)
(* credentials in NewtPhase.apply() and _mint()).                          *)
MintsAreAccounted == \A h \in Hosts : Got(h) <= 1 + granted[h]

(* charmer's connector never runs with the identity of an old connector    *)
(* that is still on the same host, unless the turn that was to remove the  *)
(* old one was cut between the bundle and the removal (_retire_adopted()). *)
NoRivals ==
  \A h \in old \ unretired : newt[h] # Old[h]

(* When newt is done, every agent it did not skip runs the identity that   *)
(* is pinned for it and nothing adopted is left to retire, unless its      *)
(* container is one that an earlier, cut turn left behind (the test for    *)
(* `docker compose up` in NewtPhase.apply(), and its verify()).            *)
NewtIsComplete ==
  [][At("verify") /\ Running /\ GoTo("idle") /\ upsets' = upsets =>
       \A a \in agents \ skipped :
         /\ newt[a] = pinned[a] \/ a \in unapplied
         /\ adopted[a] # "adopted"]_vars

(* "so two connectors never run with one identity" (newt_phase.py:22-23).  *)
TwoNeverRun == \A h \in old : newt[h] = None \/ newt[h] # Old[h]
=============================================================================

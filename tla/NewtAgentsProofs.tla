-------------------------- MODULE NewtAgentsProofs --------------------------
(* Proofs about NewtAgents, for any hosts and old connectors, and any      *)
(* bounds.                                                                 *)
EXTENDS NewtAgents, TLAPS

-----------------------------------------------------------------------------
(* The inductive invariants *)

(* The n-th site minted for h. *)
MintedFor(h) == {<<h, n>> : n \in 1..MaxMints}

(* Where a pinned identity comes from, and what an adoption that is being  *)
(* saved or a site that is being pinned may still rely on.                 *)
Provenance ==
  /\ \A h \in Hosts : pinned[h] \in {None, Old[h]} \cup MintedFor(h)
  /\ \A h \in Hosts \ agents : pinned[h] = None /\ mints[h] = 0
  /\ at = "save" => /\ pinned[cur] = None /\ mints[cur] = 0
                    /\ Old[cur] # None /\ Old[cur] \notin Managed
  /\ at = "pin" => mints[cur] > 0

Distinct == Provenance /\ IdentitiesAreDistinct

(* While nothing is pinned, or a site is about to be created, everything   *)
(* the agent got was granted; otherwise one may be its first.              *)
Budget ==
  /\ MintsAreAccounted
  /\ \A h \in Hosts :
       (pinned[h] = None \/ (at = "mint" /\ cur = h)) /\ ~(at = "pin" /\ cur = h)
         => Got(h) <= granted[h]

(* An old container that is there is an adopted one or nobody's, and what  *)
(* could start its rival was left by a cut turn, or is about to see it go. *)
Guarded ==
  /\ \A h \in old : h \notin Legacy /\ Old[h] # None /\ bundle[h] # Foreign
  /\ \A h \in old : pinned[h] = Old[h] => adopted[h] = "adopted"
  /\ \A h \in old : bundle[h] = Old[h] =>
       h \in unretired \/ (at = "retire" /\ cur = h /\ adopted[h] = "adopted")
  /\ at = "mark" => cur \notin old
  /\ NoRivals

(* A container that is not that of its bundle was left by a cut turn, or   *)
(* is due to be replaced in this one; and what this newt phase has done.   *)
Turning == at \in {"turn", "mint", "pin", "push", "retire", "mark", "up", "verify"}

UpToDate ==
  \A h \in Hosts : newt[h] = None \/ newt[h] = Rendered(h) \/ h \in unapplied
                   \/ (Pushed /\ cur = h /\ changed)

Applied ==
  /\ UpToDate
  /\ Turning => \A a \in agents \ (todo \cup skipped) :
                  pinned[a] # None /\ bundle[a] = pinned[a] /\ adopted[a] # "adopted"
  /\ Turning /\ at \in BusySteps => cur \in todo
  /\ Pushed => pinned[cur] # None /\ bundle[cur] = pinned[cur]
  /\ at = "push" => pinned[cur] # None
  /\ at = "up" => adopted[cur] # "adopted"
  /\ at = "verify" => todo = {}
-----------------------------------------------------------------------------
(* Types *)

LEMMA TypeStep == TypeOK /\ [Next]_vars => TypeOK'
<1> SUFFICES ASSUME TypeOK, [Next]_vars PROVE TypeOK'
  OBVIOUS
<1> USE AgentsAssumption DEF TypeOK, AgentsAssumption, Identities, At, GoTo, Upset, Ends,
        Steps, BusySteps, stateFile, onHosts, command, ghosts
<1>r. \A h \in Hosts : bundle[h] # None => Rendered(h) \in Identities \cup {None}
  BY DEF Rendered
<1>1. CASE Provision
  BY <1>1 DEF Provision
<1>2. CASE PassOver
  BY <1>2 DEF PassOver
<1>3. CASE LoadDump
  BY <1>3 DEF LoadDump
<1>4. CASE RecordRestore
  BY <1>4 DEF RecordRestore
<1>5. CASE RedialAll
  <2>1. PICK outcome \in [{a \in agents : bundle[a] # None} -> {"redialled", "unreached", "down"}] :
          LET having(o) == {a \in DOMAIN outcome : outcome[a] = o} IN
          /\ IF having("redialled") = DOMAIN outcome THEN UNCHANGED upsets ELSE Upset
          /\ newt' = [h \in Hosts |-> IF h \in having("redialled") THEN Rendered(h)
                                      ELSE IF h \in having("down") THEN None ELSE newt[h]]
          /\ unapplied' = unapplied \ having("redialled")
    BY <1>5 DEF RedialAll
  <2>2. newt' \in [Hosts -> Identities \cup {None}]
    BY <2>1, <1>r
  <2>3. upsets' \in 0..MaxUpsets
    BY <2>1
  <2>4. unapplied' \subseteq Hosts
    BY <2>1
  <2> QED
    BY <1>5, <2>2, <2>3, <2>4 DEF RedialAll
<1>6. CASE Finish
  BY <1>6 DEF Finish
<1>7. ASSUME NEW h \in Hosts, Onboard(h) PROVE TypeOK'
  BY <1>7 DEF Onboard
<1>8. CASE SaveAdopted
  <2>1. Old[cur] \in Identities \cup {None} /\ cur \in agents
    BY <1>8 DEF SaveAdopted
  <2> QED
    BY <1>8, <2>1 DEF SaveAdopted
<1>9. CASE VerifyAdopted
  <2>1. /\ UNCHANGED <<sites, agents, stateFile, onHosts, mints, ghosts>>
        /\ Ends \/ (GoTo("newt") /\ UNCHANGED <<restoreRan, taken, todo, skipped, cur, asked, changed>>)
    BY <1>9 DEF VerifyAdopted
  <2>2. upsets' \in 0..MaxUpsets
    BY <1>9 DEF VerifyAdopted, Upset
  <2> QED
    BY <2>1, <2>2
<1>10. CASE StartNewt
  BY <1>10 DEF StartNewt
<1>11. ASSUME NEW a \in Hosts, Reuse(a) PROVE TypeOK'
  <2>1. upsets' \in 0..MaxUpsets
    BY <1>11 DEF Reuse
  <2>2. a \in agents
    BY <1>11 DEF Reuse
  <2> QED
    BY <1>11, <2>1, <2>2 DEF Reuse
<1>12. ASSUME NEW a \in Hosts, Decline(a) PROVE TypeOK'
  BY <1>12 DEF Decline
<1>13. ASSUME NEW a \in Hosts, Accept(a) PROVE TypeOK'
  BY <1>13 DEF Accept
<1>14. ASSUME NEW a \in Hosts, Unasked(a) PROVE TypeOK'
  BY <1>14 DEF Unasked
<1>15. CASE Mint
  BY <1>15 DEF Mint
<1>16. CASE Pin
  BY <1>16 DEF Pin
<1>17. CASE PushBundle
  BY <1>17 DEF PushBundle
<1>18. CASE Retire
  BY <1>18 DEF Retire
<1>19. CASE MarkRetired
  BY <1>19 DEF MarkRetired
<1>20. CASE Up
  <2>1. cur \in agents
    BY <1>20 DEF Up
  <2>2. newt' \in [Hosts -> Identities \cup {None}]
    BY <1>20, <1>r DEF Up, Rendered
  <2>3. unapplied' \subseteq Hosts
    BY <1>20 DEF Up
  <2> QED
    BY <1>20, <2>1, <2>2, <2>3 DEF Up
<1>21. CASE EndTurns
  BY <1>21 DEF EndTurns
<1>22. CASE VerifyNewt
  BY <1>22 DEF VerifyNewt
<1>23. CASE Cut
  <2>1. upsets' \in 0..MaxUpsets
    BY <1>23 DEF Cut
  <2>2. granted' \in [Hosts -> Nat]
    BY <1>23 DEF Cut
  <2>3. unapplied' \subseteq Hosts
    BY <1>23 DEF Cut, Pushed
  <2>4. unretired' \subseteq Hosts
    BY <1>23 DEF Cut
  <2> QED
    BY <1>23, <2>1, <2>2, <2>3, <2>4 DEF Cut
<1>24. CASE UpFails
  <2>1. newt' \in [Hosts -> Identities \cup {None}]
    BY <1>24 DEF UpFails
  <2>2. upsets' \in 0..MaxUpsets
    BY <1>24 DEF UpFails
  <2> QED
    BY <1>24, <2>1, <2>2 DEF UpFails
<1>25. ASSUME NEW h \in Hosts, Stop(h) PROVE TypeOK'
  BY <1>25 DEF Stop
<1>26. ASSUME NEW i \in sites, DeleteSite(i) PROVE TypeOK'
  BY <1>26 DEF DeleteSite
<1>27. ASSUME NEW h \in Hosts, AddAgent(h) PROVE TypeOK'
  BY <1>27 DEF AddAgent
<1>28. CASE UNCHANGED vars
  BY <1>28 DEF vars
<1> QED
  BY <1>1, <1>2, <1>3, <1>4, <1>5, <1>6, <1>7, <1>8, <1>9, <1>10, <1>11, <1>12,
     <1>13, <1>14, <1>15, <1>16, <1>17, <1>18, <1>19, <1>20, <1>21, <1>22, <1>23,
     <1>24, <1>25, <1>26, <1>27, <1>28 DEF Next, Adoption, Turn, Newt, Trouble

(* The type invariant, for any hosts, old connectors and bounds. *)
THEOREM TypeCorrect == Spec => []TypeOK
<1>1. Init => TypeOK
  <2> SUFFICES ASSUME Init PROVE TypeOK
    OBVIOUS
  <2> USE AgentsAssumption DEF AgentsAssumption, Init, Identities
  <2>1. \A h \in Hosts : h \in Legacy => Old[h] \in Identities
    OBVIOUS
  <2>2. newt \in [Hosts -> Identities \cup {None}] /\ bundle \in [Hosts -> Identities \cup {None, Foreign}]
    BY <2>1
  <2>3. /\ mints \in [Hosts -> 0..MaxMints] /\ granted \in [Hosts -> Nat] /\ upsets \in 0..MaxUpsets
        /\ pinned \in [Hosts -> Identities \cup {None}] /\ agents \subseteq Hosts
    OBVIOUS
  <2> QED
    BY <2>2, <2>3 DEF TypeOK, Steps, BusySteps
<1> QED
  BY <1>1, TypeStep, PTL DEF Spec
-----------------------------------------------------------------------------
(* Identities *)

LEMMA QuietForIdentities ==
  ASSUME [Next]_vars, ~(\E h \in Hosts : Onboard(h)), ~SaveAdopted, ~Mint, ~Pin
  PROVE  /\ UNCHANGED <<pinned, mints>>
         /\ agents \subseteq agents'
         /\ at' \notin {"save", "pin"} \/ UNCHANGED <<at, cur, agents>>
BY DEF Next, Provision, PassOver, LoadDump, RecordRestore, RedialAll, Finish, Adoption,
       VerifyAdopted, Newt, StartNewt, Turn, Reuse, Decline, Accept, Unasked, PushBundle, Retire,
       MarkRetired, Up, EndTurns, VerifyNewt, Trouble, Cut, UpFails, Stop, DeleteSite, AddAgent,
       At, GoTo, Ends, vars, stateFile, onHosts, command, ghosts

LEMMA DistinctStep == TypeOK /\ TypeOK' /\ Distinct /\ [Next]_vars => Distinct'
<1> SUFFICES ASSUME TypeOK, TypeOK', Distinct, [Next]_vars PROVE Distinct'
  OBVIOUS
<1> USE AgentsAssumption DEF AgentsAssumption, Distinct, Provenance, IdentitiesAreDistinct
<1>t. /\ pinned \in [Hosts -> Identities \cup {None}] /\ mints \in [Hosts -> 0..MaxMints]
      /\ agents \subseteq Hosts /\ agents' \subseteq Hosts
      /\ at \in {"save", "pin", "mint"} => cur \in agents
  BY DEF TypeOK, BusySteps
<1>m. \A a, b \in Hosts : \A x \in MintedFor(a) : a # b => x \notin MintedFor(b)
  BY DEF MintedFor
<1>o. \A a, b \in Hosts : Old[b] \notin MintedFor(a)
  BY DEF MintedFor, Identities
<1>1. ASSUME NEW h \in Hosts, Onboard(h) PROVE Distinct'
  <2>1. /\ at' = "save" /\ cur' = h /\ agents' = agents \cup {h} /\ h \notin agents
        /\ UNCHANGED <<pinned, mints>> /\ Old[h] \notin Managed
    BY <1>1 DEF Onboard, At, GoTo, stateFile, Usable
  <2>2. pinned[h] = None /\ mints[h] = 0
    BY <2>1
  <2>3. Old[h] # None
    BY <1>1 DEF Onboard, Usable, OldConnector, TypeOK, Identities
  <2>4. Managed' = Managed
    BY <2>1, <2>2 DEF Managed
  <2>5. IdentitiesAreDistinct'
    BY <1>t, <2>1, <2>2
  <2> QED
    BY <1>t, <2>1, <2>2, <2>3, <2>4, <2>5
<1>2. CASE SaveAdopted
  <2>1. /\ at = "save" /\ at' = "adopt" /\ pinned' = [pinned EXCEPT ![cur] = Old[cur]]
        /\ UNCHANGED <<agents, mints>> /\ cur \in agents
    BY <1>t, <1>2 DEF SaveAdopted, At, GoTo
  <2>2. \A a \in agents : pinned[a] # Old[cur]
    BY <2>1 DEF Managed
  <2> QED
    BY <1>t, <2>1, <2>2
<1>3. CASE Mint
  <2>1. /\ at = "mint" /\ at' = "pin" /\ mints' = [mints EXCEPT ![cur] = @ + 1]
        /\ UNCHANGED <<agents, pinned, cur>> /\ cur \in agents
    BY <1>t, <1>3 DEF Mint, At, GoTo, stateFile
  <2>2. mints'[cur] > 0
    BY <1>t, <2>1
  <2> QED
    BY <1>t, <2>1, <2>2
<1>4. CASE Pin
  <2>1. /\ at = "pin" /\ at' = "push" /\ pinned' = [pinned EXCEPT ![cur] = <<cur, mints[cur]>>]
        /\ UNCHANGED <<agents, mints>> /\ cur \in agents
    BY <1>t, <1>4 DEF Pin, At, GoTo
  <2>2. mints[cur] \in 1..MaxMints
    BY <1>t, <2>1
  <2>3. <<cur, mints[cur]>> \in MintedFor(cur)
    BY <2>2 DEF MintedFor
  <2>4. \A b \in agents : b # cur => pinned[b] # <<cur, mints[cur]>>
    BY <1>t, <1>m, <1>o, <2>1, <2>3 DEF Identities
  <2> QED
    BY <1>t, <2>1, <2>3, <2>4
<1>5. ASSUME ~(\E h \in Hosts : Onboard(h)), ~SaveAdopted, ~Mint, ~Pin PROVE Distinct'
  <2>1. /\ UNCHANGED <<pinned, mints>> /\ agents \subseteq agents'
        /\ at' \notin {"save", "pin"} \/ UNCHANGED <<at, cur, agents>>
    BY <1>5, QuietForIdentities
  <2>2. IdentitiesAreDistinct'
    BY <1>t, <2>1
  <2> QED
    BY <1>t, <2>1, <2>2 DEF Managed
<1> QED
  BY <1>1, <1>2, <1>3, <1>4, <1>5

LEMMA IdentitiesInvariant == Spec => []Distinct
<1>1. Init => Distinct
  BY DEF Init, Distinct, Provenance, IdentitiesAreDistinct, Managed
<1> QED
  BY <1>1, DistinctStep, TypeCorrect, PTL DEF Spec

(* newt_phase.py and adopt_newt_phase.py: no two configured agents are     *)
(* ever pinned to one identity.                                            *)
THEOREM IdentitiesStayDistinct == Spec => []IdentitiesAreDistinct
<1>1. Distinct => IdentitiesAreDistinct
  BY DEF Distinct
<1> QED
  BY <1>1, IdentitiesInvariant, PTL
-----------------------------------------------------------------------------
(* Sites *)

LEMMA QuietForSites ==
  ASSUME [Next]_vars, ~SaveAdopted, ~Mint, ~Pin, ~Cut,
         ~(\E a \in Hosts : Accept(a) \/ Unasked(a))
  PROVE  /\ UNCHANGED <<pinned, mints, granted>>
         /\ (at # "pin" /\ at' \notin {"mint", "pin"}) \/ UNCHANGED <<at, cur>>
BY DEF Next, Provision, PassOver, LoadDump, RecordRestore, RedialAll, Finish, Adoption,
       Onboard, VerifyAdopted, Newt, StartNewt, Turn, Reuse, Decline, PushBundle, Retire,
       MarkRetired, Up, EndTurns, VerifyNewt, Trouble, UpFails, Stop, DeleteSite, AddAgent,
       At, GoTo, Ends, vars, stateFile, onHosts, command, ghosts

LEMMA BudgetStep == TypeOK /\ Distinct /\ Budget /\ [Next]_vars => Budget'
<1> SUFFICES ASSUME TypeOK, Distinct, Budget, [Next]_vars PROVE Budget'
  OBVIOUS
<1> USE DEF Budget, MintsAreAccounted, Got
<1>t. /\ pinned \in [Hosts -> Identities \cup {None}] /\ mints \in [Hosts -> 0..MaxMints]
      /\ granted \in [Hosts -> Nat] /\ MaxMints \in Nat
      /\ at \in {"save", "pin", "mint"} => cur \in Hosts
  BY AgentsAssumption DEF AgentsAssumption, TypeOK, BusySteps
<1>m. \A h \in Hosts : mints[h] \in Nat /\ granted[h] \in Nat
  BY <1>t
<1>1. CASE SaveAdopted
  <2>1. /\ at = "save" /\ at' = "adopt" /\ pinned' = [pinned EXCEPT ![cur] = Old[cur]]
        /\ UNCHANGED <<mints, granted>> /\ mints[cur] = 0
    BY <1>1 DEF SaveAdopted, At, GoTo, ghosts, Distinct, Provenance
  <2> QED
    BY <1>t, <1>m, <2>1
<1>2. CASE Mint
  <2>1. /\ at = "mint" /\ at' = "pin" /\ mints' = [mints EXCEPT ![cur] = @ + 1]
        /\ UNCHANGED <<pinned, granted, cur>>
    BY <1>2 DEF Mint, At, GoTo, stateFile, ghosts
  <2>2. cur \in Hosts /\ Got(cur) <= granted[cur]
    BY <1>t, <2>1
  <2>3. ASSUME NEW h \in Hosts, h # cur
        PROVE  Got(h)' <= 1 + granted'[h] /\ (pinned'[h] = None => Got(h)' <= granted'[h])
    BY <1>m, <1>t, <2>1, <2>2, <2>3
  <2>4. Got(cur)' <= 1 + granted'[cur]
    BY <1>m, <1>t, <2>1, <2>2
  <2> QED
    BY <2>1, <2>3, <2>4
<1>3. CASE Pin
  <2>1. /\ at = "pin" /\ at' = "push" /\ pinned' = [pinned EXCEPT ![cur] = <<cur, mints[cur]>>]
        /\ UNCHANGED <<mints, granted>> /\ mints[cur] > 0
    BY <1>3 DEF Pin, At, GoTo, ghosts, Distinct, Provenance
  <2>2. cur \in Hosts /\ mints[cur] # 0 /\ <<cur, mints[cur]>> \in Identities
    BY <1>t, <2>1 DEF Identities
  <2>3. <<cur, mints[cur]>> # Old[cur] /\ <<cur, mints[cur]>> # None
    BY <2>2, AgentsAssumption DEF AgentsAssumption
  <2> QED
    BY <1>t, <1>m, <2>1, <2>2, <2>3
<1>4. CASE Cut
  <2>1. /\ at' = "idle" /\ UNCHANGED <<pinned, mints>>
        /\ granted' = IF at = "pin" THEN [granted EXCEPT ![cur] = @ + 1] ELSE granted
    BY <1>4 DEF Cut, At, GoTo, Ends, stateFile
  <2> QED
    BY <1>t, <1>m, <2>1
<1>5. ASSUME NEW a \in Hosts, Accept(a) PROVE Budget'
  <2>1. /\ at = "turn" /\ at' = "mint" /\ cur' = a /\ UNCHANGED <<pinned, mints>>
        /\ granted' = [granted EXCEPT ![a] = @ + 1]
    BY <1>5 DEF Accept, At, GoTo, stateFile
  <2> QED
    BY <1>t, <1>m, <2>1
<1>6. ASSUME NEW a \in Hosts, Unasked(a) PROVE Budget'
  <2>1. /\ at = "turn" /\ at' = "mint" /\ cur' = a /\ UNCHANGED <<pinned, mints, granted>>
        /\ pinned[a] = None
    BY <1>6 DEF Unasked, At, GoTo, stateFile, ghosts
  <2> QED
    BY <1>t, <1>m, <2>1
<1>7. ASSUME ~SaveAdopted, ~Mint, ~Pin, ~Cut, ~(\E a \in Hosts : Accept(a) \/ Unasked(a))
      PROVE  Budget'
  <2>1. /\ UNCHANGED <<pinned, mints, granted>>
        /\ (at # "pin" /\ at' \notin {"mint", "pin"}) \/ UNCHANGED <<at, cur>>
    BY <1>7, QuietForSites
  <2>2. MintsAreAccounted'
    BY <2>1
  <2>3. CASE at # "pin" /\ at' \notin {"mint", "pin"}
    BY <2>1, <2>2, <2>3
  <2>4. CASE UNCHANGED <<at, cur>>
    BY <2>1, <2>2, <2>4
  <2> QED
    BY <2>1, <2>3, <2>4
<1> QED
  BY <1>1, <1>2, <1>3, <1>4, <1>5, <1>6, <1>7

(* newt_phase.py: a site is created for an agent at most once, except for  *)
(* every y of the operator and every creation that was never recorded.     *)
THEOREM EverySiteIsAccounted == Spec => []MintsAreAccounted
<1>1. Init => Budget
  <2> SUFFICES ASSUME Init PROVE Budget
    OBVIOUS
  <2>1. \A h \in Hosts : pinned[h] = None /\ mints[h] = 0 /\ granted[h] = 0
    BY DEF Init
  <2>2. at = "idle"
    BY DEF Init
  <2> QED
    BY <2>1, <2>2 DEF Budget, MintsAreAccounted, Got
<1>2. Budget => MintsAreAccounted
  BY DEF Budget
<1> QED
  BY <1>1, <1>2, BudgetStep, IdentitiesInvariant, TypeCorrect, PTL DEF Spec
-----------------------------------------------------------------------------
(* Rivals *)

LEMMA QuietForRivals ==
  ASSUME [Next]_vars, ~RedialAll, ~SaveAdopted, ~Pin, ~PushBundle, ~Retire, ~MarkRetired, ~Up,
         ~Cut, ~UpFails, ~(\E h \in Hosts : Stop(h))
  PROVE  /\ UNCHANGED <<old, pinned, adopted, bundle, newt, unretired>>
         /\ \/ at \notin {"retire", "mark"} /\ at' \notin {"retire", "mark"}
            \/ UNCHANGED <<at, cur>>
BY DEF Next, Provision, PassOver, LoadDump, RecordRestore, Finish, Adoption, Onboard,
       VerifyAdopted, Newt, StartNewt, Turn, Reuse, Decline, Accept, Unasked, Mint, EndTurns,
       VerifyNewt, Trouble, DeleteSite, AddAgent, At, GoTo, Ends, vars, stateFile, onHosts,
       command, ghosts

LEMMA GuardedStep == TypeOK /\ Distinct /\ Guarded /\ [Next]_vars => Guarded'
<1> SUFFICES ASSUME TypeOK, Distinct, Guarded, [Next]_vars PROVE Guarded'
  OBVIOUS
<1> USE DEF Guarded, NoRivals
<1>t. /\ old \subseteq Hosts /\ cur \in Hosts \cup {None}
      /\ pinned \in [Hosts -> Identities \cup {None}]
      /\ adopted \in [Hosts -> {"none", "adopted", "retired"}]
      /\ bundle \in [Hosts -> Identities \cup {None, Foreign}]
      /\ newt \in [Hosts -> Identities \cup {None}]
      /\ at \in BusySteps => cur \in Hosts
  BY DEF TypeOK
<1>n. Foreign \notin Identities /\ None \notin Identities /\ None # Foreign
  BY AgentsAssumption DEF AgentsAssumption
<1>p. \A h \in Hosts, n \in Nat : n # 0 /\ <<h, n>> = Old[h] => Old[h] = None
  BY AgentsAssumption DEF AgentsAssumption
<1>1. CASE RedialAll
  <2>1. /\ at = "redial" /\ at' = "adopt" /\ UNCHANGED <<old, pinned, adopted, bundle, unretired>>
        /\ \A h \in Hosts : newt'[h] \in {Rendered(h), None, newt[h]}
    BY <1>1 DEF RedialAll, At, GoTo, stateFile
  <2>2. \A h \in old : Rendered(h) = bundle[h]
    BY DEF Rendered
  <2> QED
    BY <1>t, <2>1, <2>2
<1>2. CASE SaveAdopted
  <2>1. /\ at = "save" /\ at' = "adopt" /\ UNCHANGED <<old, bundle, newt, unretired>>
        /\ pinned' = [pinned EXCEPT ![cur] = Old[cur]]
        /\ adopted' = [adopted EXCEPT ![cur] = "adopted"]
    BY <1>2 DEF SaveAdopted, At, GoTo, onHosts, ghosts
  <2> QED
    BY <1>t, <2>1
<1>3. CASE Pin
  <2>1. /\ at = "pin" /\ at' = "push" /\ UNCHANGED <<old, bundle, newt, unretired>> /\ cur \in Hosts
        /\ pinned' = [pinned EXCEPT ![cur] = <<cur, mints[cur]>>]
        /\ adopted' = [adopted EXCEPT ![cur] = "none"]
    BY <1>t, <1>3 DEF Pin, At, GoTo, onHosts, ghosts, BusySteps
  <2>2. mints[cur] # 0
    BY <2>1 DEF Distinct, Provenance
  <2>3. <<cur, mints[cur]>> = Old[cur] => Old[cur] = None
    BY <2>1, <2>2, <1>p DEF TypeOK
  <2> QED
    BY <1>t, <2>1, <2>3
<1>4. CASE PushBundle
  <2>1. /\ at = "push" /\ at' = "retire" /\ cur \in Hosts
        /\ UNCHANGED <<old, pinned, adopted, newt, unretired, cur>>
        /\ bundle' = [bundle EXCEPT ![cur] = pinned[cur]]
    BY <1>t, <1>4 DEF PushBundle, At, GoTo, stateFile, ghosts, BusySteps
  <2> QED
    BY <1>t, <1>n, <2>1
<1>5. CASE Retire
  <2>1. at = "retire" /\ cur \in Hosts /\ UNCHANGED <<pinned, adopted, bundle, newt, cur>>
    BY <1>t, <1>5 DEF Retire, At, stateFile, BusySteps
  <2>2. CASE adopted[cur] = "adopted"
    <3>1. /\ at' = "mark" /\ unretired' = unretired \ {cur}
          /\ old' = IF cur \in Legacy THEN old ELSE old \ {cur}
      BY <1>5, <2>2 DEF Retire, GoTo
    <3>2. old' \subseteq old /\ cur \notin old'
      BY <3>1
    <3> QED
      BY <2>1, <3>1, <3>2
  <2>3. CASE adopted[cur] # "adopted"
    <3>1. at' = "up" /\ UNCHANGED <<old, unretired>>
      BY <1>5, <2>3 DEF Retire, GoTo
    <3> QED
      BY <2>1, <2>3, <3>1
  <2> QED
    BY <2>2, <2>3
<1>6. CASE MarkRetired
  <2>1. /\ at = "mark" /\ at' = "up" /\ UNCHANGED <<old, pinned, bundle, newt, unretired, cur>>
        /\ adopted' = [adopted EXCEPT ![cur] = "retired"]
    BY <1>6 DEF MarkRetired, At, GoTo, onHosts, ghosts
  <2> QED
    BY <1>t, <2>1
<1>7. CASE Up
  <2>1. /\ at = "up" /\ at' = "turn" /\ UNCHANGED <<old, pinned, adopted, bundle, unretired>>
        /\ newt' = newt \/ newt' = [newt EXCEPT ![cur] = Rendered(cur)]
    BY <1>7 DEF Up, At, GoTo, stateFile
  <2>2. \A h \in old : Rendered(h) = bundle[h]
    BY DEF Rendered
  <2> QED
    BY <1>t, <2>1, <2>2
<1>8. CASE Cut
  <2>1. /\ at' = "idle" /\ UNCHANGED <<old, pinned, adopted, bundle, newt>>
        /\ unretired' = IF at = "retire" /\ adopted[cur] = "adopted"
                          THEN unretired \cup {cur} ELSE unretired
    BY <1>8 DEF Cut, At, GoTo, Ends, stateFile, onHosts
  <2> QED
    BY <2>1
<1>9. ASSUME NEW h \in Hosts, Stop(h) \/ (UpFails /\ h = cur) PROVE Guarded'
  <2>1. /\ UNCHANGED <<old, pinned, adopted, bundle, unretired>>
        /\ newt' = [newt EXCEPT ![h] = None]
        /\ (at = "up" /\ at' = "idle") \/ UNCHANGED <<at, cur>>
    BY <1>9 DEF Stop, UpFails, At, GoTo, Ends, stateFile, command, ghosts
  <2> QED
    BY <1>t, <2>1
<1>10. UpFails => cur \in Hosts
  BY <1>t DEF UpFails, At, BusySteps
<1>11. ASSUME ~RedialAll, ~SaveAdopted, ~Pin, ~PushBundle, ~Retire, ~MarkRetired, ~Up, ~Cut,
              ~UpFails, ~(\E h \in Hosts : Stop(h))
       PROVE  Guarded'
  BY <1>11, QuietForRivals
<1> QED
  BY <1>1, <1>2, <1>3, <1>4, <1>5, <1>6, <1>7, <1>8, <1>9, <1>10, <1>11

(* newt_phase.py: the old connector of an adopted agent is gone before     *)
(* charmer's own starts, except where the turn was cut before the removal. *)
THEOREM OldOneGoesFirst == Spec => []NoRivals
<1>1. Init => Guarded
  <2> SUFFICES ASSUME Init PROVE Guarded
    OBVIOUS
  <2>1. \A h \in old : h \in Hosts \ Legacy /\ Old[h] # None /\ bundle[h] = None /\ newt[h] = None
                      /\ pinned[h] = None
    BY DEF Init
  <2>2. at = "idle" /\ None # Foreign
    BY AgentsAssumption DEF Init, AgentsAssumption
  <2> QED
    BY <2>1, <2>2 DEF Guarded, NoRivals
<1>2. Guarded => NoRivals
  BY DEF Guarded
<1> QED
  BY <1>1, <1>2, GuardedStep, IdentitiesInvariant, TypeCorrect, PTL DEF Spec
-----------------------------------------------------------------------------
(* Completion *)

LEMMA QuietForCompletion ==
  ASSUME [Next]_vars, ~RedialAll, ~StartNewt, ~Newt, ~Cut, ~UpFails, ~(\E h \in Hosts : Stop(h))
  PROVE  /\ UNCHANGED <<bundle, newt, unapplied>>
         /\ \/ ~Turning /\ ~Turning'
            \/ UNCHANGED <<at, cur, changed, todo, skipped, agents, pinned, adopted>>
BY DEF Next, Provision, PassOver, LoadDump, RecordRestore, Finish, Adoption, Onboard, SaveAdopted,
       VerifyAdopted, Trouble, DeleteSite, AddAgent, At, GoTo, Ends, Turning, vars,
       stateFile, onHosts, command, ghosts

LEMMA AppliedStep == TypeOK /\ Applied /\ [Next]_vars => Applied'
<1> SUFFICES ASSUME TypeOK, Applied, [Next]_vars PROVE Applied'
  OBVIOUS
<1> USE DEF Applied, UpToDate, Turning, Pushed
<1>t. /\ agents \subseteq Hosts /\ todo \subseteq agents /\ skipped \subseteq agents
      /\ pinned \in [Hosts -> Identities \cup {None}]
      /\ adopted \in [Hosts -> {"none", "adopted", "retired"}]
      /\ bundle \in [Hosts -> Identities \cup {None, Foreign}]
      /\ newt \in [Hosts -> Identities \cup {None}]
      /\ mints \in [Hosts -> 0..MaxMints]
      /\ at \in BusySteps => cur \in agents /\ cur \in Hosts
  BY DEF TypeOK
<1>n. Foreign \notin Identities /\ None \notin Identities /\ None # Foreign
  BY AgentsAssumption DEF AgentsAssumption
<1>1. CASE RedialAll
  <2>1. /\ at = "redial" /\ at' = "adopt" /\ UNCHANGED bundle
        /\ \E R \in SUBSET Hosts :
             /\ \A h \in R : newt'[h] = Rendered(h)
             /\ \A h \in Hosts \ R : newt'[h] \in {None, newt[h]}
             /\ unapplied' = unapplied \ R
    <3>1. PICK outcome \in [{a \in agents : bundle[a] # None} -> {"redialled", "unreached", "down"}] :
            LET having(o) == {a \in DOMAIN outcome : outcome[a] = o} IN
            /\ newt' = [h \in Hosts |-> IF h \in having("redialled") THEN Rendered(h)
                                        ELSE IF h \in having("down") THEN None ELSE newt[h]]
            /\ unapplied' = unapplied \ having("redialled")
      BY <1>1 DEF RedialAll
    <3>2. {a \in DOMAIN outcome : outcome[a] = "redialled"} \in SUBSET Hosts
      BY <1>t
    <3>3. at = "redial" /\ at' = "adopt" /\ UNCHANGED bundle
      BY <1>1 DEF RedialAll, At, GoTo
    <3> QED
      BY <3>1, <3>2, <3>3
  <2> QED
    BY <1>t, <2>1 DEF Rendered
<1>2. CASE StartNewt
  <2>1. at = "newt" /\ at' = "turn" /\ todo' = agents /\ UNCHANGED <<agents, bundle, newt, unapplied>>
    BY <1>2 DEF StartNewt, At, GoTo, onHosts, ghosts
  <2> QED
    BY <2>1 DEF Rendered, BusySteps
<1>3. ASSUME NEW a \in Hosts, Reuse(a) \/ Accept(a) \/ Unasked(a) PROVE Applied'
  <2>1. /\ at = "turn" /\ a \in todo /\ cur' = a
        /\ UNCHANGED <<agents, todo, skipped, pinned, adopted, bundle, newt, unapplied>>
        /\ at' = "mint" \/ (at' = "push" /\ pinned[a] # None)
    BY <1>3 DEF Reuse, Accept, Unasked, At, GoTo, stateFile, onHosts, ghosts
  <2> QED
    BY <2>1 DEF Rendered
<1>4. ASSUME NEW a \in Hosts, Decline(a) PROVE Applied'
  <2>1. /\ at = "turn" /\ at' = "turn" /\ todo' = todo \ {a} /\ skipped' = skipped \cup {a}
        /\ UNCHANGED <<agents, pinned, adopted, bundle, newt, unapplied>>
    BY <1>4 DEF Decline, At, GoTo, stateFile, onHosts, ghosts
  <2> QED
    BY <2>1 DEF Rendered, BusySteps
<1>5. CASE Mint
  <2>1. /\ at = "mint" /\ at' = "pin"
        /\ UNCHANGED <<agents, todo, skipped, cur, pinned, adopted, bundle, newt, unapplied>>
    BY <1>5 DEF Mint, At, GoTo, stateFile, onHosts, ghosts
  <2> QED
    BY <2>1 DEF Rendered, BusySteps
<1>6. CASE Pin
  <2>1. /\ at = "pin" /\ at' = "push" /\ cur \in todo /\ cur \in Hosts
        /\ pinned' = [pinned EXCEPT ![cur] = <<cur, mints[cur]>>]
        /\ adopted' = [adopted EXCEPT ![cur] = "none"]
        /\ UNCHANGED <<agents, todo, skipped, cur, bundle, newt, unapplied>>
    BY <1>t, <1>6 DEF Pin, At, GoTo, onHosts, ghosts, BusySteps
  <2>2. <<cur, mints[cur]>> \in Identities
    BY <1>t, <2>1 DEF Identities
  <2> QED
    BY <1>t, <1>n, <2>1, <2>2 DEF Rendered, BusySteps
<1>7. CASE PushBundle
  <2>1. /\ at = "push" /\ at' = "retire" /\ cur \in todo /\ cur \in Hosts
        /\ changed' = (bundle[cur] # pinned[cur])
        /\ bundle' = [bundle EXCEPT ![cur] = pinned[cur]]
        /\ UNCHANGED <<agents, todo, skipped, cur, pinned, adopted, newt, unapplied>>
    BY <1>t, <1>7 DEF PushBundle, At, GoTo, stateFile, ghosts, BusySteps
  <2>2. UpToDate'
    BY <1>t, <2>1 DEF Rendered
  <2> QED
    BY <1>t, <2>1, <2>2 DEF BusySteps
<1>8. CASE Retire
  <2>1. /\ at = "retire" /\ (at' = "mark" \/ (at' = "up" /\ adopted[cur] # "adopted"))
        /\ UNCHANGED <<agents, todo, skipped, cur, changed, pinned, adopted, bundle, newt, unapplied>>
    BY <1>8 DEF Retire, At, GoTo, stateFile
  <2> QED
    BY <2>1 DEF Rendered, BusySteps
<1>9. CASE MarkRetired
  <2>1. /\ at = "mark" /\ at' = "up" /\ cur \in Hosts
        /\ adopted' = [adopted EXCEPT ![cur] = "retired"]
        /\ UNCHANGED <<agents, todo, skipped, cur, changed, pinned, bundle, newt, unapplied>>
    BY <1>t, <1>9 DEF MarkRetired, At, GoTo, onHosts, ghosts, BusySteps
  <2> QED
    BY <1>t, <2>1 DEF Rendered, BusySteps
<1>10. CASE Up
  <2>1. /\ at = "up" /\ at' = "turn" /\ cur \in Hosts /\ todo' = todo \ {cur}
        /\ UNCHANGED <<agents, skipped, pinned, adopted, bundle>>
        /\ IF UpDue THEN /\ newt' = [newt EXCEPT ![cur] = Rendered(cur)]
                         /\ unapplied' = unapplied \ {cur}
                    ELSE UNCHANGED <<newt, unapplied>>
    BY <1>t, <1>10 DEF Up, At, GoTo, stateFile, BusySteps
  <2>2. UpToDate'
    BY <1>t, <2>1 DEF Rendered, UpDue
  <2> QED
    BY <2>1, <2>2 DEF BusySteps
<1>11. CASE EndTurns
  <2>1. /\ at = "turn" /\ at' = "verify" /\ todo = {}
        /\ UNCHANGED <<agents, todo, skipped, pinned, adopted, bundle, newt, unapplied>>
    BY <1>11 DEF EndTurns, At, GoTo, stateFile, onHosts, ghosts
  <2> QED
    BY <2>1 DEF Rendered, BusySteps
<1>12. CASE VerifyNewt
  <2>1. at = "verify" /\ at' = "idle" /\ UNCHANGED <<bundle, newt, unapplied>>
    BY <1>12 DEF VerifyNewt, At, GoTo, Ends, onHosts
  <2> QED
    BY <2>1 DEF Rendered
<1>13. CASE Cut
  <2>1. /\ at' = "idle" /\ UNCHANGED <<bundle, newt>>
        /\ unapplied' = IF Pushed /\ changed THEN unapplied \cup {cur} ELSE unapplied
    BY <1>13 DEF Cut, At, GoTo, Ends, onHosts
  <2> QED
    BY <2>1 DEF Rendered
<1>14. CASE UpFails
  <2>1. /\ at = "up" /\ at' = "idle" /\ newt' = [newt EXCEPT ![cur] = None] /\ cur \in Hosts
        /\ UNCHANGED <<bundle, unapplied>>
    BY <1>t, <1>14 DEF UpFails, At, GoTo, Ends, ghosts, BusySteps
  <2> QED
    BY <1>t, <2>1 DEF Rendered
<1>15. ASSUME NEW h \in Hosts, Stop(h) PROVE Applied'
  <2>1. /\ newt' = [newt EXCEPT ![h] = None]
        /\ UNCHANGED <<at, cur, changed, agents, todo, skipped, pinned, adopted, bundle, unapplied>>
    BY <1>15 DEF Stop, stateFile, command, ghosts
  <2> QED
    BY <1>t, <2>1 DEF Rendered
<1>16. ASSUME ~RedialAll, ~StartNewt, ~Newt, ~Cut, ~UpFails, ~(\E h \in Hosts : Stop(h))
       PROVE  Applied'
  <2>1. /\ UNCHANGED <<bundle, newt, unapplied>>
        /\ \/ ~Turning /\ ~Turning'
           \/ UNCHANGED <<at, cur, changed, todo, skipped, agents, pinned, adopted>>
    BY <1>16, QuietForCompletion
  <2> QED
    BY <2>1 DEF Rendered
<1> QED
  BY <1>1, <1>2, <1>3, <1>4, <1>5, <1>6, <1>7, <1>8, <1>9, <1>10, <1>11, <1>12, <1>13, <1>14,
     <1>15, <1>16 DEF Newt, Turn

(* newt_phase.py: a newt phase that passes leaves every agent it did not   *)
(* skip on its pinned identity, with nothing to retire.                    *)
THEOREM NewtCompletes == Spec => NewtIsComplete
<1>1. Init => Applied
  BY DEF Init, Applied, UpToDate, Turning, Pushed, Rendered
<1>2. TypeOK /\ Applied /\ [Next]_vars =>
        [At("verify") /\ Running /\ GoTo("idle") /\ upsets' = upsets =>
           \A a \in agents \ skipped :
             /\ newt[a] = pinned[a] \/ a \in unapplied
             /\ adopted[a] # "adopted"]_vars
  <2> SUFFICES ASSUME TypeOK, Applied, at = "verify", Running, NEW a \in agents \ skipped
               PROVE  (newt[a] = pinned[a] \/ a \in unapplied) /\ adopted[a] # "adopted"
    BY DEF At
  <2>1. pinned[a] # None /\ bundle[a] = pinned[a] /\ adopted[a] # "adopted"
    BY DEF Applied, Turning
  <2>2. newt[a] # None /\ a \in Hosts
    BY DEF Running, TypeOK
  <2>3. Rendered(a) = pinned[a]
    BY <2>1, <2>2, AgentsAssumption DEF Rendered, TypeOK, AgentsAssumption
  <2> QED
    BY <2>1, <2>2, <2>3 DEF Applied, UpToDate, Pushed
<1> QED
  BY <1>1, <1>2, AppliedStep, TypeCorrect, PTL DEF Spec, NewtIsComplete
=============================================================================

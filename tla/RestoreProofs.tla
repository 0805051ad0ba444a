---------------------------- MODULE RestoreProofs ----------------------------
(* Proofs about Restore, for any dumps, networks and configs, and any      *)
(* number of faults and cuts.                                              *)
EXTENDS Restore, FiniteSetTheorems, TLAPS

-----------------------------------------------------------------------------
(* Types *)

LEMMA Least == ASSUME NEW S \in SUBSET Nat, S # {} PROVE \E i \in S : \A j \in S : i <= j
<1>1. PICK x \in S : \A y \in S : ~(<<y, x>> \in OpToRel(<, Nat))
  BY NatLessThanWellFounded, WFMin
<1>2. \A y \in S : ~(y < x)
  BY <1>1 DEF OpToRel
<1> QED
  BY <1>2

LEMMA LowestIsThere == ASSUME NEW S \in SUBSET Nat, S # {} PROVE LowestOf(S) \in S
  BY Least DEF LowestOf

LEMMA DumpFields ==
  \A d \in Dumps \cup {Fresh} : /\ d.keys \in [Ids -> {"none", "own", "foreign"}]
                               /\ d.util \in [Orgs -> SUBSET Net]
  BY RestoreAssumption DEF Dump

LEMMA ModBound == \A a \in Nat, b \in Nat \ {0} : a - (a % b) \in Nat
  OBVIOUS

(* Widening makes networks of networks. *)
LEMMA WidenedIsNet ==
  ASSUME NEW n \in Net, NEW size \in Nat, NEW others PROVE Widened(n, size, others) \in Net
<1>1. CASE n.size < size
  <2>1. size \in Nat \ {0} /\ n.at \in Nat
    BY <1>1 DEF Net
  <2>2. n.at - (n.at % size) \in Nat
    BY <2>1, ModBound
  <2> QED
    BY <2>1, <2>2 DEF Widened, Supernet, Net
<1> QED
  BY <1>1 DEF Widened

(* The type invariant, in parts. *)
ConfigOK == dump \in Dumps \cup {NoDump} /\ destructive \in BOOLEAN /\ target \in Targets
FileOK   == status \in {"pending", "done", "skipped", "failed"} /\ pinned \in Dumps \cup {NoDump}
DbOK     == /\ content \in Dumps \cup {Fresh} /\ part \in Part
            /\ keys \in [Ids -> {"none", "own", "foreign"}] /\ util \in [Orgs -> SUBSET Net]
HostOK   == staged \in {"none", "cut", "whole"} /\ running \subseteq Containers
PreOK    == pre \in [id : Ids \cup {0}, key : {"none", "own", "foreign"}]
CmdOK    == /\ at \in Steps /\ (at # "idle" => dump # NoDump) /\ PreOK
            /\ loaded \in BOOLEAN /\ todo \subseteq Orgs /\ blind \in BOOLEAN
RestOK   == warned \in {"none", "full", "unread"} /\ lost \in BOOLEAN /\ upsets \in 0..MaxUpsets

LEMMA TypeParts == TypeOK <=> ConfigOK /\ FileOK /\ DbOK /\ HostOK /\ CmdOK /\ RestOK
  BY DEF TypeOK, ConfigOK, FileOK, DbOK, HostOK, CmdOK, RestOK, PreOK

LEMMA TypePartsPrimed == TypeOK' <=> ConfigOK' /\ FileOK' /\ DbOK' /\ HostOK' /\ CmdOK' /\ RestOK'
  BY DEF TypeOK, ConfigOK, FileOK, DbOK, HostOK, CmdOK, RestOK, PreOK

LEMMA TypeStep == TypeOK /\ [Next]_vars => TypeOK'
<1> SUFFICES ASSUME TypeOK, [Next]_vars
             PROVE  ConfigOK' /\ FileOK' /\ DbOK' /\ HostOK' /\ CmdOK' /\ RestOK'
  BY TypePartsPrimed
<1>0. ConfigOK /\ FileOK /\ DbOK /\ HostOK /\ CmdOK /\ RestOK
  BY TypeParts
\* What is left alone keeps its type.
<1>u. /\ Upset => upsets' \in 0..MaxUpsets
      /\ UNCHANGED upsets => upsets' \in 0..MaxUpsets
  BY <1>0, RestoreAssumption DEF Upset, RestOK
<1>w. /\ UNCHANGED warned => warned' \in {"none", "full", "unread"}
      /\ UNCHANGED lost => lost' \in BOOLEAN
  BY <1>0 DEF RestOK
<1>a. UNCHANGED config => ConfigOK'
  BY <1>0 DEF ConfigOK, config
<1>b. UNCHANGED file => FileOK'
  BY <1>0 DEF FileOK, file
<1>c. UNCHANGED database => DbOK'
  BY <1>0 DEF DbOK, database
<1>h. /\ UNCHANGED host => DbOK' /\ HostOK'
      /\ UNCHANGED <<staged, running>> => HostOK'
  BY <1>0, <1>c DEF HostOK, host
<1>m. UNCHANGED command /\ (at # "idle" => UNCHANGED dump) => CmdOK'
  BY <1>0 DEF CmdOK, PreOK, command
<1>n. Nobody \in [id : Ids \cup {0}, key : {"none", "own", "foreign"}]
  BY DEF Nobody
<1>f. EndCommand => CmdOK'
  BY <1>0, <1>n DEF EndCommand, CmdOK, PreOK, Steps
<1>i. Fail => CmdOK' /\ FileOK'
  BY <1>0, <1>f DEF Fail, FileOK
<1>p. \A step : /\ GoTo(step) /\ step \in Steps /\ (dump # NoDump \/ at # "idle") /\ UNCHANGED config => CmdOK'
                /\ GoTo(step) => UNCHANGED <<pre, loaded, todo, blind>>
  BY <1>0 DEF GoTo, CmdOK, PreOK, config
<1>d. at # "idle" => dump \in Dumps
  BY <1>0 DEF CmdOK, ConfigOK
<1>s. ASSUME Stopped(dump) \/ Replaced(dump), at # "idle" PROVE DbOK'
  <2>1. dump \in Dumps \cup {Fresh}
    BY <1>d, <1>s
  <2>2. dump.keys \in [Ids -> {"none", "own", "foreign"}] /\ dump.util \in [Orgs -> SUBSET Net]
    BY <2>1, DumpFields
  <2>3. [i \in Ids |-> "none"] \in [Ids -> {"none", "own", "foreign"}] /\ [o \in Orgs |-> {}] \in [Orgs -> SUBSET Net]
    OBVIOUS
  <2> QED
    BY <1>c, <1>s, <2>1, <2>2, <2>3 DEF Stopped, Replaced, DbOK, Part
<1>k. [keys EXCEPT ![pre.id] = pre.key] \in [Ids -> {"none", "own", "foreign"}]
  <2>1. pre.key \in {"none", "own", "foreign"} /\ keys \in [Ids -> {"none", "own", "foreign"}]
    BY <1>0 DEF CmdOK, PreOK, DbOK
  <2> QED
    BY <2>1
<1>1. CASE Begin
  BY <1>a, <1>b, <1>h, <1>i, <1>p, <1>u, <1>w, <1>1 DEF Begin, Steps, RestOK
<1>2. CASE BeginWithoutDump \/ Decline \/ Replay
  <2>1. FileOK'
    BY <1>0, <1>2 DEF BeginWithoutDump, Decline, Replay, FileOK
  <2> QED
    BY <1>a, <1>h, <1>m, <1>u, <1>w, <1>2, <2>1 DEF BeginWithoutDump, Decline, Replay, RestOK, config
<1>3. CASE EditConfig
  <2>1. ConfigOK'
    BY <1>0, <1>3 DEF EditConfig, ConfigOK
  <2> QED
    BY <1>b, <1>h, <1>m, <1>u, <1>w, <1>3, <2>1 DEF EditConfig, RestOK
<1>4. CASE StopStack
  <2>1. HostOK'
    BY <1>0, <1>4 DEF StopStack, HostOK
  <2> QED
    BY <1>a, <1>b, <1>c, <1>i, <1>p, <1>u, <1>w, <1>4, <2>1 DEF StopStack, RestOK, Steps
<1>5. CASE Upload
  <2>1. HostOK' /\ lost' \in BOOLEAN
    BY <1>0, <1>5 DEF Upload, HostOK
  <2> QED
    BY <1>a, <1>b, <1>c, <1>p, <1>u, <1>w, <1>5, <2>1 DEF Upload, RestOK, Steps
<1>6. CASE Checksum
  <2>1. HostOK'
    BY <1>0, <1>6 DEF Checksum, HostOK
  <2> QED
    BY <1>a, <1>b, <1>c, <1>i, <1>p, <1>u, <1>w, <1>6, <2>1 DEF Checksum, RestOK, Steps
<1>7. CASE Snapshot
  <2>1. Rows # {} => LowestOf(Rows) \in Ids /\ keys[LowestOf(Rows)] \in {"none", "own", "foreign"}
    <3>1. Rows \in SUBSET Nat /\ Rows \subseteq Ids
      BY RestoreAssumption DEF Rows
    <3>2. Rows # {} => LowestOf(Rows) \in Rows
      BY <3>1, LowestIsThere
    <3> QED
      BY <1>0, <3>1, <3>2 DEF DbOK
  <2>2. PreOK'
    BY <1>n, <1>7, <2>1 DEF Snapshot, PreOK
  <2>3. CmdOK'
    BY <1>0, <1>7, <2>2 DEF Snapshot, CmdOK, Steps, config
  <2> QED
    BY <1>a, <1>b, <1>h, <1>u, <1>w, <1>7, <2>3 DEF Snapshot, RestOK
<1>8. CASE Load
  <2>1. CmdOK'
    BY <1>0, <1>8 DEF Load, CmdOK, PreOK, Steps, config
  <2>2. at # "idle" /\ (Stopped(dump) \/ Replaced(dump)) /\ (Upset \/ UNCHANGED upsets)
    BY <1>8 DEF Load
  <2>3. DbOK'
    BY <1>s, <2>2
  <2> QED
    BY <1>a, <1>b, <1>h, <1>u, <1>w, <1>8, <2>1, <2>2, <2>3 DEF Load, RestOK
<1>9. CASE DeleteDump
  <2>1. HostOK'
    BY <1>0, <1>9 DEF DeleteDump, HostOK
  <2> QED
    BY <1>a, <1>b, <1>c, <1>i, <1>p, <1>u, <1>w, <1>9, <2>1 DEF DeleteDump, RestOK, Steps
<1>10. CASE Reconcile
  <2>1. DbOK'
    BY <1>0, <1>k, <1>10 DEF Reconcile, DbOK
  <2> QED
    BY <1>a, <1>b, <1>h, <1>i, <1>p, <1>u, <1>w, <1>10, <2>1 DEF Reconcile, RestOK, Steps
<1>11. CASE Headroom
  <2>1. warned' \in {"none", "full", "unread"}
    BY <1>11 DEF Headroom
  <2> QED
    BY <1>a, <1>b, <1>h, <1>p, <1>u, <1>w, <1>11, <2>1 DEF Headroom, RestOK, Steps
<1>12. CASE ReadOrgs
  <2>1. CmdOK'
    BY <1>0, <1>12 DEF ReadOrgs, CmdOK, PreOK, Steps, config
  <2> QED
    BY <1>a, <1>b, <1>h, <1>u, <1>w, <1>12, <2>1 DEF ReadOrgs, RestOK
<1>13. CASE WidenOrg
  <2>1. PICK o \in todo :
          /\ todo' = todo \ {o}
          /\ \/ UNCHANGED upsets /\ util' = IF target = 0 THEN util ELSE
                    [util EXCEPT ![o] = {Widened(n, target, Taken) : n \in util[o]}]
             \/ UNCHANGED util /\ Upset
    BY <1>13 DEF WidenOrg
  <2>2. o \in Orgs /\ util \in [Orgs -> SUBSET Net] /\ target \in Nat
    BY <1>0, RestoreAssumption DEF CmdOK, DbOK, ConfigOK
  <2>3. {Widened(n, target, Taken) : n \in util[o]} \in SUBSET Net
    BY <2>2, WidenedIsNet
  <2>4. [util EXCEPT ![o] = {Widened(n, target, Taken) : n \in util[o]}] \in [Orgs -> SUBSET Net]
    BY <2>2, <2>3
  <2>5. util' \in [Orgs -> SUBSET Net]
    BY <2>1, <2>2, <2>4
  <2>6. DbOK'
    BY <1>0, <1>13, <2>5 DEF WidenOrg, DbOK
  <2>7. CmdOK'
    BY <1>0, <1>13, <2>1 DEF WidenOrg, CmdOK, PreOK, config
  <2> QED
    BY <1>a, <1>b, <1>h, <1>u, <1>w, <1>13, <2>1, <2>6, <2>7 DEF WidenOrg, RestOK
<1>14. CASE OrgsChecked
  BY <1>a, <1>b, <1>h, <1>p, <1>u, <1>w, <1>14 DEF OrgsChecked, RestOK, Steps
<1>15. ASSUME NEW step \in Steps \ {"idle"}, NEW next \in Steps, Answers(step, next), UNCHANGED config
       PROVE  CmdOK' /\ FileOK' /\ upsets' \in 0..MaxUpsets
  BY <1>b, <1>i, <1>p, <1>u, <1>15 DEF Answers
<1>16. CASE UpPangolin \/ UpGerbil \/ UpTraefik
  <2>1. PICK step \in Steps \ {"idle"}, next \in Steps, service \in Containers : Up(step, service, next)
    BY <1>16 DEF UpPangolin, UpGerbil, UpTraefik, Containers, Steps
  <2>2. HostOK'
    BY <1>0, <2>1 DEF Up, HostOK
  <2> QED
    BY <1>a, <1>c, <1>w, <1>15, <2>1, <2>2 DEF Up, RestOK
<1>17. CASE WaitHealthy
  BY <1>a, <1>h, <1>w, <1>15, <1>17 DEF WaitHealthy, RestOK, Steps
<1>18. CASE WaitStable
  BY <1>a, <1>b, <1>h, <1>i, <1>p, <1>u, <1>w, <1>18 DEF WaitStable, RestOK, Steps
<1>19. CASE Record
  <2>1. FileOK'
    BY <1>0, <1>19 DEF Record, FileOK, ConfigOK
  <2> QED
    BY <1>a, <1>h, <1>p, <1>u, <1>w, <1>19, <2>1 DEF Record, RestOK, Steps
<1>20. CASE Verify
  <2>1. FileOK'
    BY <1>0, <1>20 DEF Verify, FileOK
  <2> QED
    BY <1>a, <1>f, <1>h, <1>u, <1>w, <1>20, <2>1 DEF Verify, RestOK
<1>21. CASE Cut
  <2>1. DbOK'
    <3>1. CASE UNCHANGED database
      BY <1>c, <3>1
    <3>2. CASE at = "load" /\ (Stopped(dump) \/ (~dump.breaks /\ Replaced(dump)))
      BY <1>s, <3>2
    <3>3. CASE keys' = [keys EXCEPT ![pre.id] = pre.key] /\ UNCHANGED <<content, part, util>>
      BY <1>0, <1>k, <3>3 DEF DbOK
    <3> QED
      BY <1>21, <3>1, <3>2, <3>3 DEF Cut, CutDatabase
  <2>2. running' \subseteq Containers
    BY <1>0, <1>21 DEF Cut, CutContainers, Containers, HostOK
  <2>3. HostOK' /\ lost' \in BOOLEAN
    BY <1>0, <1>21, <2>2 DEF Cut, HostOK
  <2>4. FileOK'
    BY <1>0, <1>21 DEF Cut, FileOK
  <2> QED
    BY <1>a, <1>f, <1>u, <1>w, <1>21, <2>1, <2>3, <2>4 DEF Cut, RestOK
<1>22. CASE UNCHANGED vars
  BY <1>a, <1>b, <1>h, <1>m, <1>u, <1>w, <1>22 DEF vars, RestOK, config
<1> QED
  BY <1>1, <1>2, <1>3, <1>4, <1>5, <1>6, <1>7, <1>8, <1>9, <1>10, <1>11, <1>12, <1>13, <1>14, <1>16,
     <1>17, <1>18, <1>19, <1>20, <1>21, <1>22 DEF Next, Advance

LEMMA InitTypeOK == Init => TypeOK
<1> SUFFICES ASSUME Init PROVE TypeOK
  OBVIOUS
<1>1. ConfigOK /\ FileOK
  BY DEF Init, ConfigOK, FileOK
<1>2. DbOK
  BY DumpFields DEF Init, DbOK, Part
<1>3. HostOK
  BY DEF Init, HostOK
<1>4. CmdOK
  BY DEF Init, CmdOK, PreOK, Nobody, Steps
<1>5. RestOK
  <2>1. MaxUpsets \in Nat
    BY RestoreAssumption
  <2>2. warned = "none" /\ lost \in BOOLEAN /\ upsets = 0
    BY DEF Init
  <2> QED
    BY <2>1, <2>2 DEF RestOK
<1> QED
  BY <1>1, <1>2, <1>3, <1>4, <1>5, TypeParts

(* The type invariant of the phase: networks stay networks, rows rows.     *)
THEOREM TypeCorrect == Spec => []TypeOK
  BY InitTypeOK, TypeStep, PTL DEF Spec

-----------------------------------------------------------------------------
(* The database and the containers.  The stack stays down from its stop to *)
(* the start of pangolin, and that start is reached only over a load that  *)
(* went through; nothing of this looks at what is in a dump.               *)
DownSteps == {"upload", "checksum", "snapshot", "load", "delete", "reconcile", "headroom",
              "orgs", "widen", "up pangolin"}
AfterLoad == {"reconcile", "headroom", "orgs", "widen", "up pangolin", "healthy", "up gerbil",
              "stable", "traefik", "record", "verify"}

Allowed  == at # "idle" => destructive /\ dump # NoDump
Down     == at \in DownSteps => running = {}
Uploaded == at \in {"snapshot", "load"} => staged = "whole"
LoadedOk == at \in AfterLoad \/ (at = "delete" /\ loaded) => part = "whole" /\ content = dump
Gone     == at \in AfterLoad => staged = "none"

LoadInv == Allowed /\ Down /\ Uploaded /\ LoadedOk /\ Gone /\ HalfDataStaysDown /\ SecretsDeleted

LEMMA LoadInit == Init => LoadInv
  BY DEF Init, LoadInv, Allowed, Down, Uploaded, LoadedOk, Gone, HalfDataStaysDown,
         SecretsDeleted, DownSteps, AfterLoad

LEMMA LoadStep == LoadInv /\ [Next]_vars => LoadInv'
<1> SUFFICES ASSUME LoadInv, [Next]_vars PROVE LoadInv'
  OBVIOUS
<1> USE DEF LoadInv, Allowed, Down, Uploaded, LoadedOk, Gone, HalfDataStaysDown, SecretsDeleted,
            DownSteps, AfterLoad, config, host, database, GoTo, EndCommand, Fail
<1>0. CASE Begin
  BY <1>0 DEF Begin
<1>1. CASE BeginWithoutDump \/ Decline \/ Replay \/ EditConfig
  <2>1. at = "idle" /\ at' = "idle" /\ UNCHANGED <<host, lost>>
    BY <1>1 DEF BeginWithoutDump, Decline, Replay, EditConfig, command
  <2> QED
    BY <2>1
<1>2. CASE StopStack
  BY <1>2 DEF StopStack
<1>3. CASE Upload \/ Checksum
  BY <1>3 DEF Upload, Checksum
<1>4. CASE Snapshot
  BY <1>4 DEF Snapshot
<1>5. CASE Load
  BY <1>5 DEF Load, Replaced, Stopped
<1>6. CASE DeleteDump
  BY <1>6 DEF DeleteDump
<1>7. CASE Reconcile
  BY <1>7 DEF Reconcile
<1>8. CASE Headroom \/ ReadOrgs \/ WidenOrg \/ OrgsChecked
  BY <1>8 DEF Headroom, ReadOrgs, WidenOrg, OrgsChecked
<1>9. CASE UpPangolin
  BY <1>9 DEF UpPangolin, Up, Answers
<1>10. CASE UpGerbil \/ UpTraefik
  BY <1>10 DEF UpGerbil, UpTraefik, Up, Answers
<1>11. CASE WaitHealthy \/ WaitStable
  BY <1>11 DEF WaitHealthy, WaitStable, Answers
<1>12. CASE Record \/ Verify
  BY <1>12 DEF Record, Verify
<1>13. CASE Cut
  BY <1>13 DEF Cut, CutDatabase, CutContainers, Stopped, Replaced
<1>14. CASE UNCHANGED vars
  BY <1>14 DEF vars, command
<1> QED
  BY <1>0, <1>1, <1>2, <1>3, <1>4, <1>5, <1>6, <1>7, <1>8, <1>9, <1>10, <1>11, <1>12, <1>13, <1>14
     DEF Next, Advance

LEMMA LoadInvariant == Spec => []LoadInv
  BY LoadInit, LoadStep, PTL DEF Spec

(* No step of the restore phase leaves or starts Pangolin on half a         *)
(* database, over any number of failed, interrupted, declined and repeated *)
(* runs of the phase; what other commands start is not in Restore.         *)
THEOREM HalfDataNeverRuns == Spec => []HalfDataStaysDown
  BY LoadInvariant, PTL DEF LoadInv

(* The dump stays on the host only when the process or its connection was  *)
(* lost, and until the next run of the phase deletes it.                   *)
THEOREM SecretsAreDeleted == Spec => []SecretsDeleted
  BY LoadInvariant, PTL DEF LoadInv

(* The database changes only while the stack is down and the config says   *)
(* destructive.                                                            *)
THEOREM ReplacedOnlyWhileDown == Spec => ReplacedWhileDown
<1>1. LoadInv /\ [Next]_vars =>
        [database' # database => running = {} /\ destructive /\ dump # NoDump]_vars
  <2> SUFFICES ASSUME LoadInv, [Next]_vars, database' # database
               PROVE  running = {} /\ destructive /\ dump # NoDump
    OBVIOUS
  <2>1. at \in {"load", "reconcile", "widen"}
    <3>1. Load \/ Reconcile \/ WidenOrg \/ Cut
      BY DEF Next, Advance, vars, host, database, Begin, BeginWithoutDump, Decline, Replay, EditConfig,
             StopStack, Upload, Checksum, Snapshot, DeleteDump, Headroom, ReadOrgs, OrgsChecked,
             UpPangolin, UpGerbil, UpTraefik, Up, WaitHealthy, WaitStable, Record, Verify
    <3>2. CASE Cut
      BY <3>2 DEF Cut, CutDatabase, database
    <3> QED
      BY <3>1, <3>2 DEF Load, Reconcile, WidenOrg
  <2> QED
    BY <2>1 DEF LoadInv, Allowed, Down, DownSteps
<1> QED
  BY <1>1, LoadInvariant, PTL DEF Spec, ReplacedWhileDown

-----------------------------------------------------------------------------
(* The end of the phase: every container was started after the load, and   *)
(* gerbil was seen to be known.                                            *)
Started ==
  /\ at \in {"healthy", "up gerbil", "stable", "traefik", "record", "verify"} => "pangolin" \in running
  /\ at \in {"stable", "traefik", "record", "verify"} => "gerbil" \in running
  /\ at \in {"record", "verify"} => "traefik" \in running
  /\ at \in {"traefik", "record", "verify"} => GerbilIsKnown
  /\ at = "verify" => pinned = dump

EndInv == LoadInv /\ Started

LEMMA StartedStep == EndInv /\ [Next]_vars => Started'
<1> SUFFICES ASSUME EndInv, [Next]_vars PROVE Started'
  OBVIOUS
<1> USE DEF EndInv, Started
<1>k. UNCHANGED keys => (GerbilIsKnown => GerbilIsKnown')
  BY DEF GerbilIsKnown, Rows
<1>1. CASE at' \in {"idle", "stop"} \/ at' \in DownSteps
  BY <1>1 DEF DownSteps
<1>2. CASE UpPangolin
  BY <1>1, <1>2 DEF UpPangolin, Up, Answers, GoTo, Fail, EndCommand, DownSteps
<1>3. CASE WaitHealthy
  BY <1>1, <1>3 DEF WaitHealthy, Answers, GoTo, Fail, EndCommand, host
<1>4. CASE UpGerbil
  BY <1>1, <1>4 DEF UpGerbil, Up, Answers, GoTo, Fail, EndCommand
<1>5. CASE WaitStable
  BY <1>1, <1>k, <1>5 DEF WaitStable, GoTo, Fail, EndCommand, host, database
<1>6. CASE UpTraefik
  <2>1. CASE at' = "idle"
    BY <1>1, <2>1
  <2>2. CASE at' # "idle"
    <3>1. at = "traefik" /\ at' = "record" /\ keys' = keys /\ running' = running \cup {"traefik"}
      BY <1>6, <2>2 DEF UpTraefik, Up, Answers, GoTo, Fail, EndCommand, database
    <3> QED
      BY <1>k, <3>1
  <2> QED
    BY <2>1, <2>2
<1>7. CASE Record
  BY <1>k, <1>7 DEF Record, GoTo, host, database, config
<1>8. CASE UNCHANGED vars
  BY <1>k, <1>8 DEF vars, command, host, database, config, file
<1>9. CASE \/ Begin \/ BeginWithoutDump \/ Decline \/ Replay \/ EditConfig \/ StopStack \/ Upload
           \/ Checksum \/ Snapshot \/ Load \/ DeleteDump \/ Reconcile \/ Headroom \/ ReadOrgs
           \/ WidenOrg \/ OrgsChecked \/ Verify \/ Cut
  <2>1. at' \in {"idle", "stop"} \/ at' \in DownSteps
    BY <1>9 DEF Begin, BeginWithoutDump, Decline, Replay, EditConfig, StopStack, Upload, Checksum,
                Snapshot, Load, DeleteDump, Reconcile, Headroom, ReadOrgs, WidenOrg, OrgsChecked,
                Verify, Cut, GoTo, Fail, EndCommand, command, DownSteps
  <2> QED
    BY <1>1, <2>1
<1> QED
  BY <1>2, <1>3, <1>4, <1>5, <1>6, <1>7, <1>8, <1>9 DEF Next, Advance

(* What verify, which counts tables, takes for granted: the whole dump of  *)
(* the config is loaded and deleted, and gerbil has a row of its own.      *)
THEOREM RestoredWhole == Spec => []RestoredIsWhole
<1>1. Init => EndInv
  BY LoadInit DEF Init, EndInv, Started
<1>2. EndInv /\ [Next]_vars => EndInv'
  BY LoadStep, StartedStep DEF EndInv
<1>3. TypeOK /\ EndInv => RestoredIsWhole
  BY DEF EndInv, Started, LoadInv, LoadedOk, Gone, AfterLoad, Containers, GerbilIsKnown,
         RestoredIsWhole, TypeOK
<1> QED
  BY <1>1, <1>2, <1>3, TypeCorrect, PTL DEF Spec

-----------------------------------------------------------------------------
(* Arithmetic of aligned blocks *)

(* Division with remainder. *)
LEMMA Division ==
  ASSUME NEW a \in Nat, NEW b \in Nat \ {0}
  PROVE  /\ a \div b \in Nat /\ a % b \in 0..(b - 1)
         /\ a = b * (a \div b) + (a % b)
  OBVIOUS

(* A multiple leaves no remainder, and is so often its divisor. *)
LEMMA Multiple ==
  ASSUME NEW k \in Nat, NEW b \in Nat \ {0} PROVE (b * k) % b = 0 /\ (b * k) \div b = k
<1> DEFINE a == b * k
<1>1. a \in Nat
  OBVIOUS
<1>2. a \div b \in Nat /\ a % b \in 0..(b - 1) /\ a = b * (a \div b) + (a % b)
  BY <1>1, Division
<1>3. b * (k - (a \div b)) = a % b
  BY <1>2
<1>4. k - (a \div b) = 0
  BY <1>2, <1>3
<1> QED
  BY <1>2, <1>3, <1>4

(* No number is strictly between a multiple and the next one. *)
LEMMA NextMultiple ==
  ASSUME NEW j \in Nat, NEW k \in Nat, NEW b \in Nat \ {0}, b * j < b * k PROVE b * j + b <= b * k
<1>1. j < k
  OBVIOUS
<1>2. j + 1 <= k
  BY <1>1
<1> QED
  BY <1>2

(* What leaves no remainder is a multiple. *)
LEMMA Divisible ==
  ASSUME NEW a \in Nat, NEW b \in Nat \ {0}, a % b = 0 PROVE \E k \in Nat : a = b * k
<1>1. a \div b \in Nat /\ a = b * (a \div b) + (a % b)
  BY Division
<1>2. a = b * (a \div b)
  BY <1>1
<1> QED
  BY <1>1, <1>2

(* Dividing is transitive. *)
LEMMA DividesThrough ==
  ASSUME NEW a \in Nat, NEW b \in Nat \ {0}, NEW c \in Nat \ {0}, a % b = 0, b % c = 0
  PROVE  a % c = 0
<1>1. PICK j \in Nat : a = b * j
  BY Divisible
<1>2. PICK k \in Nat : b = c * k
  BY Divisible
<1>3. k * j \in Nat /\ a = c * (k * j)
  BY <1>1, <1>2
<1> QED
  BY <1>3, Multiple

(* A multiple of the smaller of two sizes, rounded down to one of the larger. *)
LEMMA RoundedDown ==
  ASSUME NEW a \in Nat, NEW s \in Nat \ {0}, NEW size \in Nat \ {0}, size % s = 0, a % s = 0
  PROVE  /\ a - (a % size) \in Nat /\ a - (a % size) <= a
         /\ a + s <= (a - (a % size)) + size
<1>1. PICK q \in Nat, m \in 0..(size - 1) : a = size * q + m /\ m = a % size
  BY Division
<1>2. PICK j \in Nat : a = s * j
  BY Divisible
<1>3. PICK r \in Nat : size = s * r
  BY Divisible
<1>4. r * q + r \in Nat /\ size * q + size = s * (r * q + r)
  BY <1>3
<1>5. s * j < s * (r * q + r)
  <2>1. a < size * q + size
    BY <1>1
  <2> QED
    BY <1>2, <1>4, <2>1
<1>6. s * j + s <= s * (r * q + r)
  BY <1>4, <1>5, NextMultiple
<1>7. a + s <= size * q + size
  BY <1>2, <1>4, <1>6
<1>8. a - (a % size) = size * q /\ size * q \in Nat
  BY <1>1
<1> QED
  BY <1>1, <1>7, <1>8

(* supernet() of an aligned network covers it, when the sizes divide. *)
LEMMA SupernetCovers ==
  ASSUME NEW n \in Net, NEW size \in Nat \ {0}, size % n.size = 0, n.at % n.size = 0
  PROVE  Covers(Supernet(n, size), n)
<1>1. n.size \in Nat \ {0} /\ n.at \in Nat
  BY DEF Net
<1>2. /\ n.at - (n.at % size) <= n.at
      /\ n.at + n.size <= (n.at - (n.at % size)) + size
  BY <1>1, RoundedDown
<1> QED
  BY <1>2 DEF Covers, Supernet

(* supernet() starts at a multiple of its size.                              *)
LEMMA SupernetAligned ==
  ASSUME NEW n \in Net, NEW size \in Nat \ {0}
  PROVE  (Supernet(n, size).at % Supernet(n, size).size) = 0
<1>1. n.at \in Nat
  BY DEF Net
<1>2. PICK q \in Nat, r \in 0..(size - 1) : n.at = size * q + r /\ r = n.at % size
  BY <1>1, Division
<1>3. n.at - (n.at % size) = size * q
  BY <1>2
<1>4. (size * q) % size = 0
  BY Multiple
<1> QED
  BY <1>3, <1>4 DEF Supernet

-----------------------------------------------------------------------------
(* The addresses that exit_node_capacity() counts, one per tunnel block besides *)
(* gerbil's own, are as many as it says.                                        *)
LEMMA BlocksCounted ==
  ASSUME NEW B \in Nat \ {0}, NEW a \in Nat, NEW q \in Nat \ {0}
  PROVE  Cardinality({b \in (B * a + 1)..(B * a + B * q - B) : b % B = 0}) = q - 1
<1> DEFINE S == {b \in (B * a + 1)..(B * a + B * q - B) : b % B = 0}
           f == [k \in 1..(q - 1) |-> B * (a + k)]
<1>1. ASSUME NEW k \in 1..(q - 1) PROVE B * (a + k) \in S
  <2>1. (B * (a + k)) % B = 0
    BY Multiple
  <2>2. B * (a + k) = B * a + B * k /\ B * k >= 1
    OBVIOUS
  <2>3. B * k + B <= B * q
    <3>1. k + 1 <= q
      OBVIOUS
    <3> QED
      BY <3>1
  <2> QED
    BY <2>1, <2>2, <2>3
<1>2. ASSUME NEW b \in S PROVE \E k \in 1..(q - 1) : b = B * (a + k)
  <2>1. b \in Nat /\ b % B = 0 /\ B * a < b /\ b <= B * a + B * q - B
    OBVIOUS
  <2>2. PICK c \in Nat : b = B * c
    BY <2>1, Divisible
  <2>3. a < c
    BY <2>1, <2>2
  <2>4. c < a + q
    <3>1. B * c < B * (a + q)
      BY <2>1, <2>2
    <3> QED
      BY <2>2, <3>1
  <2>5. c - a \in 1..(q - 1) /\ a + (c - a) = c
    BY <2>2, <2>3, <2>4
  <2> QED
    BY <2>2, <2>5
<1>3. f \in Bijection(1..(q - 1), S)
  <2>1. f \in [1..(q - 1) -> S]
    BY <1>1
  <2>2. ASSUME NEW j \in 1..(q - 1), NEW k \in 1..(q - 1), f[j] = f[k] PROVE j = k
    <3>1. B * (a + j) = B * (a + k)
      BY <2>2
    <3> QED
      BY <3>1
  <2>3. f \in Injection(1..(q - 1), S)
    BY <2>1, <2>2 DEF Injection, IsInjective
  <2>4. \A b \in S : \E k \in 1..(q - 1) : f[k] = b
    BY <1>2
  <2> QED
    BY <2>1, <2>3, <2>4 DEF Bijection, Surjection
<1>4. IsFiniteSet(1..(q - 1)) /\ Cardinality(1..(q - 1)) = q - 1
  <2>1. 1 \in Int /\ q - 1 \in Int
    OBVIOUS
  <2> QED
    BY <2>1, FS_Interval
<1>5. ExistsBijection(1..(q - 1), S)
  BY <1>3 DEF ExistsBijection
<1> QED
  BY <1>4, <1>5, FS_Bijection

(* exit_node_capacity() counts right, for every aligned network. *)
THEOREM CapacityIsRoom ==
  ASSUME NEW n \in Net, n.at % n.size = 0, BlockSize <= n.size => n.size % BlockSize = 0
  PROVE  Capacity(n) = Room(n)
<1> DEFINE B == BlockSize
<1>1. n.size \in Nat \ {0} /\ n.at \in Nat /\ B \in Nat \ {0}
  BY RestoreAssumption DEF Net
<1>2. CASE n.size < B
  <2>1. {b \in (n.at + 1)..(n.at + n.size - B) : b % B = 0} = {}
    BY <1>1, <1>2
  <2> QED
    BY <1>2, <2>1, FS_EmptySet DEF Capacity, Room
<1>3. CASE B <= n.size
  <2>1. PICK q \in Nat : n.size = B * q
    BY <1>1, <1>3, Divisible
  <2>2. q # 0 /\ n.size \div B = q
    BY <1>1, <2>1, Multiple
  <2>3. PICK a \in Nat : n.at = B * a
    <3>1. n.at % B = 0
      BY <1>1, <1>3, DividesThrough
    <3> QED
      BY <1>1, <3>1, Divisible
  <2>4. Room(n) = q - 1
    <3>1. Room(n) = Cardinality({b \in (B * a + 1)..(B * a + B * q - B) : b % B = 0})
      BY <2>1, <2>3 DEF Room
    <3>2. q \in Nat \ {0}
      BY <2>2
    <3>3. Cardinality({b \in (B * a + 1)..(B * a + B * q - B) : b % B = 0}) = q - 1
      BY <1>1, <3>2, BlocksCounted
    <3> QED
      BY <3>1, <3>3
  <2> QED
    BY <1>1, <1>3, <2>2, <2>4 DEF Capacity
<1> QED
  BY <1>1, <1>2, <1>3

(* What CIDR says of the networks in a dump. *)
LEMMA DumpNetworks ==
  \A d \in Dumps \cup {Fresh} : /\ \A i \in Ids : d.nets[i] \in Networks
                               /\ \A o \in Orgs : d.util[o] \subseteq Networks
  BY DEF Networks, NetsOf

LEMMA Cidr ==
  ASSUME NEW n \in Networks
  PROVE  /\ n \in Net /\ n.at % n.size = 0
         /\ BlockSize <= n.size => n.size % BlockSize = 0
         /\ \A t \in Targets : n.size < t => t % n.size = 0
<1>1. n \in Net
  <2>1. PICK d \in Dumps \cup {Fresh} : n \in NetsOf(d)
    BY DEF Networks
  <2>2. d \in Dump
    BY <2>1, RestoreAssumption
  <2>3. /\ \A i \in Ids : d.nets[i] \in Net
        /\ \A o \in Orgs : d.subnets[o] \subseteq Net /\ d.util[o] \subseteq Net
    BY <2>2 DEF Dump
  <2> QED
    BY <2>1, <2>3 DEF NetsOf
<1>2. n.size \in Nat \ {0} /\ n.size \in Sizes /\ BlockSize \in Sizes
  BY <1>1 DEF Net, Sizes
<1>3. \A t \in Targets : n.size < t => t \in Sizes /\ t \in Nat
  BY <1>2, RestoreAssumption DEF Sizes
<1>4. ASSUME NEW t \in Targets, n.size < t PROVE t % n.size = 0
  <2>1. t \in Sizes /\ n.size <= t
    BY <1>2, <1>3, <1>4
  <2> QED
    BY <1>2, <2>1, CidrAssumption
<1> QED
  BY <1>1, <1>2, <1>4, CidrAssumption

-----------------------------------------------------------------------------
(* The utility subnets.  An org that the loop has not come to still has the *)
(* range of the dump; one that it has, a range that widen_utility_subnet()  *)
(* made of it, with the neighbours as they are: no step after the reading   *)
(* of the addresses changes a row.                                          *)
AsLoaded  == util = content.util
Untouched == at \in {"reconcile", "headroom", "orgs"} \/ (at = "delete" /\ loaded) => AsLoaded
Unread    == at = "widen" => \A o \in todo : util[o] = content.util[o]

RangesInv == Untouched /\ Unread /\ RangesAreSafe

(* A widened network covers the one it is made of, is aligned to its size,   *)
(* and keeps clear of others.                                                *)
THEOREM WidenedIsSafe ==
  ASSUME NEW n \in Networks, NEW t \in Targets, NEW others
  PROVE  /\ Covers(Widened(n, t, others), n)
         /\ (Widened(n, t, others).at % Widened(n, t, others).size) = 0
         /\ Widened(n, t, others) # n => \A m \in others : ~Overlaps(Widened(n, t, others), m)
<1>1. n \in Net /\ n.size \in Nat \ {0} /\ n.at \in Nat /\ t \in Nat /\ (n.at % n.size) = 0
  BY Cidr, RestoreAssumption DEF Net
<1>2. Covers(n, n)
  BY <1>1 DEF Covers
<1>3. CASE n.size < t /\ \A m \in others : ~Overlaps(Supernet(n, t), m)
  <2>1. t \in Nat \ {0} /\ t % n.size = 0 /\ n.at % n.size = 0
    BY <1>1, <1>3, Cidr
  <2>2. Covers(Supernet(n, t), n)
    BY <1>1, <2>1, SupernetCovers
  <2>3. (Supernet(n, t).at % Supernet(n, t).size) = 0
    BY <1>1, <2>1, SupernetAligned
  <2>4. Widened(n, t, others) = Supernet(n, t)
    BY <1>3 DEF Widened
  <2> QED
    BY <1>3, <2>2, <2>3, <2>4
<1>4. CASE ~(n.size < t /\ \A m \in others : ~Overlaps(Supernet(n, t), m))
  <2>1. Widened(n, t, others) = n
    BY <1>4 DEF Widened
  <2> QED
    BY <1>1, <1>2, <2>1
<1> QED
  BY <1>3, <1>4

(* Ranges that are those of the dump are safe. *)
LEMMA AsLoadedIsSafe == TypeOK /\ AsLoaded => RangesAreSafe
<1> SUFFICES ASSUME TypeOK, AsLoaded, NEW o \in Orgs, NEW n \in content.util[o]
             PROVE  Covers(n, n) /\ (n.at % n.size) = 0
  BY DEF RangesAreSafe, AsLoaded
<1>1. n \in Networks
  BY DumpNetworks DEF TypeOK
<1>2. n.at \in Nat /\ n.size \in Nat /\ (n.at % n.size) = 0
  BY <1>1, Cidr DEF Net
<1> QED
  BY <1>2 DEF Covers

LEMMA AsLoadedIsSafePrimed == TypeOK' /\ AsLoaded' => RangesAreSafe'
  BY AsLoadedIsSafe, PTL

LEMMA RangesStep ==
  TypeOK /\ TypeOK' /\ LoadInv /\ LoadInv' /\ RangesInv /\ [Next]_vars => RangesInv'
<1> SUFFICES ASSUME TypeOK, TypeOK', LoadInv, LoadInv', RangesInv, [Next]_vars PROVE RangesInv'
  OBVIOUS
<1> USE DEF RangesInv, Untouched, Unread
\* What leaves the ranges and what they are compared with alone.
<1>r. UNCHANGED <<database, blind>> => RangesAreSafe'
  BY DEF RangesAreSafe, OrgSubnets, Rows, database
<1>l. UNCHANGED database => (AsLoaded => AsLoaded')
  BY DEF AsLoaded, database
<1>i. at' \in {"idle", "stop", "upload", "checksum", "snapshot", "load", "up pangolin", "healthy",
             "up gerbil", "stable", "traefik", "record", "verify"} => Untouched' /\ Unread'
  OBVIOUS
<1>s. AsLoaded' => RangesAreSafe'
  BY AsLoadedIsSafePrimed
<1>1. CASE Begin \/ BeginWithoutDump \/ Decline \/ Replay \/ EditConfig \/ StopStack \/ Upload \/ Checksum
  <2>1. UNCHANGED <<database, blind>> /\ at' \in {"idle", "stop", "upload", "checksum", "snapshot"}
    BY <1>1 DEF Begin, BeginWithoutDump, Decline, Replay, EditConfig, StopStack, Upload, Checksum,
                GoTo, Fail, EndCommand, command, host
  <2> QED
    BY <1>r, <1>i, <2>1
<1>2. CASE Snapshot
  BY <1>r, <1>i, <1>2 DEF Snapshot, host
<1>3. CASE Load
  <2>1. CASE loaded'
    <3>1. Replaced(dump) /\ at' = "delete"
      BY <1>3, <2>1 DEF Load, LoadInv, Uploaded
    <3>2. AsLoaded'
      BY <3>1 DEF AsLoaded, Replaced
    <3> QED
      BY <1>s, <3>1, <3>2
  <2>2. CASE ~loaded'
    <3>1. Stopped(dump) /\ at' = "delete" /\ UNCHANGED blind
      BY <1>3, <2>2 DEF Load
    <3>2. RangesAreSafe'
      BY <1>r, <3>1 DEF Stopped, RangesAreSafe
    <3> QED
      BY <2>2, <3>1, <3>2
  <2> QED
    BY <2>1, <2>2
<1>4. CASE DeleteDump
  <2>1. UNCHANGED <<database, blind>> /\ (at' = "idle" \/ (at' = "reconcile" /\ at = "delete" /\ loaded))
    BY <1>4 DEF DeleteDump, GoTo, Fail, EndCommand
  <2> QED
    BY <1>r, <1>i, <1>l, <2>1
<1>5. CASE Reconcile
  <2>1. /\ UNCHANGED <<content, util>> /\ at = "reconcile" /\ at' \in {"idle", "headroom"}
    BY <1>5 DEF Reconcile, GoTo, Fail, EndCommand
  <2>2. AsLoaded'
    BY <2>1 DEF AsLoaded
  <2> QED
    BY <1>s, <2>1, <2>2
<1>6. CASE Headroom
  BY <1>r, <1>l, <1>6 DEF Headroom, GoTo, host
<1>7. CASE ReadOrgs
  <2>1. UNCHANGED database /\ at = "orgs" /\ at' \in {"widen", "up pangolin"}
    BY <1>7 DEF ReadOrgs, host
  <2>2. AsLoaded /\ AsLoaded'
    BY <1>l, <2>1
  <2>3. Unread'
    BY <2>2 DEF AsLoaded
  <2> QED
    BY <1>s, <2>1, <2>2, <2>3
<1>8. CASE WidenOrg
  <2>0. UNCHANGED <<content, part, keys, blind, at, loaded>> /\ at = "widen"
    BY <1>8 DEF WidenOrg
  <2>1. PICK o \in todo :
          /\ todo' = todo \ {o}
          /\ \/ util' = IF target = 0 THEN util ELSE
                    [util EXCEPT ![o] = {Widened(n, target, Taken) : n \in util[o]}]
             \/ UNCHANGED util
    BY <1>8 DEF WidenOrg
  <2>2. /\ o \in Orgs /\ util \in [Orgs -> SUBSET Net] /\ util[o] = content.util[o]
        /\ target \in Targets /\ content \in Dumps \cup {Fresh} /\ todo \subseteq Orgs
    BY <2>0, <2>1 DEF TypeOK
  <2>3. CASE UNCHANGED util
    BY <1>r, <2>0, <2>1, <2>3 DEF database
  <2>4. CASE util' = [util EXCEPT ![o] = {Widened(n, target, Taken) : n \in util[o]}]
    <3>1. \A p \in Orgs : p # o => util'[p] = util[p]
      BY <2>2, <2>4
    <3>2. Unread'
      BY <2>0, <2>1, <2>2, <3>1
    <3>3. ASSUME part = "whole", NEW p \in Orgs, NEW n \in content.util[p]
          PROVE  \E m \in util'[p] :
                   /\ Covers(m, n) /\ (m.at % m.size) = 0
                   /\ m # n => /\ \A q \in Orgs : \A t \in content.subnets[q] : ~Overlaps(m, t)
                               /\ ~Overlaps(m, GerbilGroup)
                               /\ blind \/ \A i \in Rows : ~Overlaps(m, content.nets[i])
      <4>1. CASE p # o
        BY <3>1, <3>3, <4>1 DEF RangesAreSafe
      <4>2. CASE p = o
        <5> DEFINE m == Widened(n, target, Taken)
        <5>1. m \in util'[o]
          BY <2>2, <2>4, <3>3, <4>2
        <5>2. n \in Networks
          BY <2>2, <3>3, DumpNetworks
        <5>3. Covers(m, n) /\ (m.at % m.size) = 0 /\ (m # n => \A k \in Taken : ~Overlaps(m, k))
          BY <2>2, <5>2, WidenedIsSafe
        <5>4. /\ \A q \in Orgs : content.subnets[q] \subseteq Taken
              /\ GerbilGroup \in Taken
              /\ blind \/ \A i \in Rows : content.nets[i] \in Taken
          BY DEF Taken, OrgSubnets, Addresses
        <5> QED
          BY <4>2, <5>1, <5>3, <5>4
      <4> QED
        BY <4>1, <4>2
    <3>4. Rows' = Rows
      BY <2>0 DEF Rows
    <3>5. RangesAreSafe'
      BY <2>0, <3>3, <3>4 DEF RangesAreSafe
    <3> QED
      BY <2>0, <3>2, <3>5
  <2> QED
    BY <2>1, <2>3, <2>4
<1>9. CASE OrgsChecked
  BY <1>r, <1>9 DEF OrgsChecked, GoTo, host
<1>10. CASE UpPangolin \/ WaitHealthy \/ UpGerbil \/ WaitStable \/ UpTraefik \/ Record \/ Verify
  <2>1. UNCHANGED <<database, blind>>
    BY <1>10 DEF UpPangolin, UpGerbil, UpTraefik, Up, WaitHealthy, WaitStable, Answers, Record, Verify,
                 GoTo, Fail, EndCommand, host
  <2>2. at' \in {"idle", "healthy", "up gerbil", "stable", "traefik", "record", "verify"}
    BY <1>10 DEF UpPangolin, UpGerbil, UpTraefik, Up, WaitHealthy, WaitStable, Answers, Record, Verify,
                 GoTo, Fail, EndCommand
  <2> QED
    BY <1>r, <1>i, <2>1, <2>2
<1>11. CASE Cut
  <2>1. at' = "idle" /\ UNCHANGED blind
    BY <1>11 DEF Cut, EndCommand
  <2>2. CASE UNCHANGED database
    BY <1>r, <2>1, <2>2
  <2>3. CASE Stopped(dump)
    BY <1>r, <2>1, <2>3 DEF Stopped, RangesAreSafe
  <2>4. CASE Replaced(dump)
    BY <1>s, <2>1, <2>4 DEF Replaced, AsLoaded
  <2>5. CASE at = "reconcile" /\ UNCHANGED <<content, part, util>>
    BY <1>s, <2>1, <2>5 DEF AsLoaded
  <2> QED
    BY <1>11, <2>1, <2>2, <2>3, <2>4, <2>5 DEF Cut, CutDatabase
<1>12. CASE UNCHANGED vars
  BY <1>r, <1>l, <1>12 DEF vars, host, command, database
<1> QED
  BY <1>1, <1>2, <1>3, <1>4, <1>5, <1>6, <1>7, <1>8, <1>9, <1>10, <1>11, <1>12 DEF Next, Advance

(* Whatever the networks of a dump and the width that is asked for: every    *)
(* org keeps a range that covers its own and is aligned, and none is widened *)
(* over an org's subnet, gerbil's network or an exit node that could be read.*)
THEOREM RangesStaySafe == Spec => []RangesAreSafe
<1>1. Init => RangesInv
  <2> SUFFICES ASSUME Init PROVE RangesInv
    OBVIOUS
  <2>1. AsLoaded /\ at = "idle"
    BY DEF Init, AsLoaded
  <2> QED
    BY <2>1, InitTypeOK, AsLoadedIsSafe DEF RangesInv, Untouched, Unread
<1>2. TypeOK /\ TypeOK' /\ LoadInv /\ LoadInv' /\ RangesInv /\ [Next]_vars => RangesInv'
  BY RangesStep
<1>3. RangesInv => RangesAreSafe
  BY DEF RangesInv
<1> QED
  BY <1>1, <1>2, <1>3, TypeCorrect, LoadInvariant, PTL DEF Spec

-----------------------------------------------------------------------------
(* The headroom check.  Until the reconciliation the rows are those of the  *)
(* dump; afterwards only the row the identity was written to may have this  *)
(* host's key where the dump had another one, and that is the row checked.  *)
Rewritten == AfterLoad \ {"reconcile"}
Counted   == AfterLoad \ {"reconcile", "headroom"}

AsDumped   == at = "reconcile" \/ (at = "delete" /\ loaded) => keys = content.keys
WrittenRow == at \in Rewritten =>
                \A i \in Ids : keys[i] = "own" /\ content.keys[i] # "own" => i = pre.id
Fits       == ~(Cardinality(Rows) > 1 /\ content.tunnels > Capacity(content.nets[Mine]))
Warned     == at \in Counted /\ warned = "none" => Fits

RoomInv == AsDumped /\ WrittenRow /\ Warned

LEMMA RoomStep == TypeOK /\ LoadInv /\ RoomInv /\ [Next]_vars => RoomInv'
<1> SUFFICES ASSUME TypeOK, LoadInv, RoomInv, [Next]_vars PROVE RoomInv'
  OBVIOUS
<1> USE DEF RoomInv, AsDumped, WrittenRow, Warned, Rewritten, Counted, AfterLoad
\* What the check is about stays as it was.
<1>k. UNCHANGED <<content, keys, pre>> => (Fits => Fits')
  BY DEF Fits, Rows, Mine
<1>i. at' \in {"idle", "stop", "upload", "checksum", "snapshot", "load"} => RoomInv'
  OBVIOUS
<1>1. CASE \/ Begin \/ BeginWithoutDump \/ Decline \/ Replay \/ EditConfig \/ StopStack \/ Upload
           \/ Checksum \/ Snapshot \/ Verify \/ Cut
  <2>1. at' \in {"idle", "stop", "upload", "checksum", "snapshot", "load"}
    BY <1>1 DEF Begin, BeginWithoutDump, Decline, Replay, EditConfig, StopStack, Upload, Checksum,
                Snapshot, Verify, Cut, GoTo, Fail, EndCommand, command
  <2> QED
    BY <1>i, <2>1
<1>2. CASE Load
  BY <1>2 DEF Load, Replaced, LoadInv, Uploaded
<1>3. CASE DeleteDump
  BY <1>3 DEF DeleteDump, GoTo, Fail, EndCommand, database
<1>4. CASE Reconcile
  <2>1. CASE at' = "idle"
    BY <1>i, <2>1
  <2>2. CASE at' # "idle"
    <3>1. /\ at = "reconcile" /\ at' = "headroom" /\ UNCHANGED <<content, pre>>
          /\ keys' = keys \/ keys' = [keys EXCEPT ![pre.id] = pre.key]
      BY <1>4, <2>2 DEF Reconcile, GoTo, Fail, EndCommand
    <3>2. keys = content.keys /\ keys \in [Ids -> {"none", "own", "foreign"}]
      BY <3>1 DEF TypeOK
    <3>3. \A i \in Ids : keys'[i] = "own" /\ content.keys[i] # "own" => i = pre.id
      BY <3>1, <3>2
    <3> QED
      BY <3>1, <3>3
  <2> QED
    BY <2>1, <2>2
<1>5. CASE Headroom
  <2>1. at = "headroom" /\ at' = "orgs" /\ UNCHANGED <<content, keys, pre>>
    BY <1>5 DEF Headroom, GoTo, host, database
  <2>2. warned' = "none" => Fits
    BY <1>5 DEF Headroom, Fits
  <2> QED
    BY <1>k, <2>1, <2>2
<1>6. CASE \/ ReadOrgs \/ WidenOrg \/ OrgsChecked \/ UpPangolin \/ WaitHealthy \/ UpGerbil \/ WaitStable
           \/ UpTraefik \/ Record
  <2>1. CASE at' = "idle"
    BY <1>i, <2>1
  <2>2. CASE at' # "idle"
    <3>1. UNCHANGED <<content, keys, pre, warned>> /\ at \in Counted /\ at' \in Counted
      BY <1>6, <2>2 DEF ReadOrgs, WidenOrg, OrgsChecked, UpPangolin, WaitHealthy, UpGerbil, WaitStable,
                        UpTraefik, Up, Answers, Record, GoTo, Fail, EndCommand, host, database
    <3> QED
      BY <1>k, <3>1
  <2> QED
    BY <2>1, <2>2
<1>7. CASE UNCHANGED vars
  BY <1>k, <1>7 DEF vars, host, command, database
<1> QED
  BY <1>1, <1>2, <1>3, <1>4, <1>5, <1>6, <1>7 DEF Next, Advance

(* With several exit nodes, a restore that did not warn has the room on the   *)
(* row the identity was written to: by CapacityIsRoom what was compared with  *)
(* is what there is.  A single exit node is not looked at by the code, nor is *)
(* a second row with the host's own key; neither is claimed here.             *)
THEOREM NoOverflowGoesUnsaid == Spec => []NoSilentOverflow
<1>1. Init => RoomInv
  BY DEF Init, RoomInv, AsDumped, WrittenRow, Warned, Rewritten, Counted, AfterLoad
<1>2. TypeOK /\ LoadInv /\ RoomInv /\ [Next]_vars => RoomInv'
  BY RoomStep
<1>3. TypeOK /\ RoomInv => NoSilentOverflow
  <2> SUFFICES ASSUME TypeOK, RoomInv, at = "verify", warned = "none", Cardinality(Rows) > 1,
                      NEW i \in Ids, keys[i] = "own", content.keys[i] = "own" => i = Mine
               PROVE  content.tunnels <= Room(content.nets[i])
    BY DEF NoSilentOverflow
  <2>1. i = Mine
    <3>1. i \in Rows
      BY DEF Rows
    <3>2. content.keys[i] # "own" => i = pre.id
      BY DEF RoomInv, WrittenRow, Rewritten, AfterLoad
    <3> QED
      BY <3>1, <3>2 DEF Mine
  <2>2. ~(content.tunnels > Capacity(content.nets[i]))
    BY <2>1 DEF RoomInv, Warned, Fits, Counted, AfterLoad
  <2>3. content \in Dumps \cup {Fresh} /\ content.tunnels \in Nat
    BY RestoreAssumption DEF TypeOK, Dump
  <2>4. content.nets[i] \in Networks
    BY <2>3, DumpNetworks
  <2>5. Capacity(content.nets[i]) \in Int /\ Capacity(content.nets[i]) = Room(content.nets[i])
    <3>1. content.nets[i].size \in Nat /\ BlockSize \in Nat \ {0}
      BY <2>4, Cidr, RestoreAssumption DEF Net
    <3>2. Capacity(content.nets[i]) \in Int
      BY <3>1 DEF Capacity
    <3> QED
      BY <2>4, <3>2, Cidr, CapacityIsRoom
  <2> QED
    BY <2>2, <2>3, <2>5
<1> QED
  BY <1>1, <1>2, <1>3, TypeCorrect, LoadInvariant, PTL DEF Spec

-----------------------------------------------------------------------------
(* The refinement of Replacement.  A step of the phase touches at most one  *)
(* of the things that Replacement speaks of; which of its actions that is   *)
(* follows from what the step finds.                                        *)
Unfinished == at # "idle" => status # "done"

DatabaseInv == TypeOK /\ EndInv /\ Unfinished

LEMMA UnfinishedStep == Unfinished /\ [Next]_vars => Unfinished'
<1> SUFFICES ASSUME Unfinished, [Next]_vars, at' # "idle" PROVE status' # "done"
  BY DEF Unfinished
<1>1. CASE Begin
  BY <1>1 DEF Begin, Fail, EndCommand, file
<1>2. CASE BeginWithoutDump \/ Decline \/ Replay \/ EditConfig \/ Verify \/ Cut
  BY <1>2 DEF BeginWithoutDump, Decline, Replay, EditConfig, Verify, Cut, EndCommand, command
<1>3. CASE \/ StopStack \/ Upload \/ Checksum \/ Snapshot \/ Load \/ DeleteDump \/ Reconcile \/ Headroom
           \/ ReadOrgs \/ WidenOrg \/ OrgsChecked \/ UpPangolin \/ WaitHealthy \/ UpGerbil \/ WaitStable
           \/ UpTraefik \/ Record
  <2>1. at # "idle" /\ status' \in {status, "failed"}
    BY <1>3 DEF StopStack, Upload, Checksum, Snapshot, Load, DeleteDump, Reconcile, Headroom, ReadOrgs,
                WidenOrg, OrgsChecked, UpPangolin, WaitHealthy, UpGerbil, WaitStable, UpTraefik, Up, Answers,
                Record, GoTo, Fail, file
  <2> QED
    BY <2>1 DEF Unfinished
<1>4. CASE UNCHANGED vars
  BY <1>4 DEF vars, command, file, Unfinished
<1> QED
  BY <1>1, <1>2, <1>3, <1>4 DEF Next, Advance

LEMMA DatabaseStep == DatabaseInv /\ TypeOK' /\ [Next]_vars => [Database!Next]_(Database!vars)
<1> SUFFICES ASSUME DatabaseInv, TypeOK', [Next]_vars PROVE Database!Next \/ UNCHANGED Database!vars
  OBVIOUS
<1> USE DEF DatabaseInv, EndInv, LoadInv, Allowed, Down, LoadedOk, Started, Unfinished, DownSteps, AfterLoad
<1>0. /\ dump \in Dumps \cup {NoDump} /\ destructive \in BOOLEAN /\ content \in Dumps \cup {Fresh}
      /\ NoDump \notin Dumps
  BY RestoreAssumption DEF TypeOK
\* What the phase does on the host, and to its own variables.
<1>s. ASSUME UNCHANGED <<config, database, pinned>>, (running' # {}) <=> (running # {}),
             (status' = "done") <=> (status = "done")
      PROVE  UNCHANGED Database!vars
  BY <1>s DEF Database!vars, Database!data, config, database
<1>f. Fail => status' = "failed" /\ UNCHANGED pinned
  BY DEF Fail
<1>w. ASSUME at = "stop", running' \subseteq running, status' \in {status, "failed"},
             UNCHANGED <<config, database, pinned>>
      PROVE  Database!Next \/ UNCHANGED Database!vars
  <2>1. CASE running' = {}
    BY <1>0, <1>w, <2>1 DEF Database!Next, Database!Withdraw, Database!data, config, database
  <2>2. CASE running' # {}
    BY <1>s, <1>w, <2>2
  <2> QED
    BY <2>1, <2>2
<1>r. ASSUME at \in {"load", "reconcile", "widen"}, content' \in {content, dump},
             status' \in {status, "failed"}, UNCHANGED <<config, pinned, running>>
      PROVE  Database!Next
  <2>1. running = {} /\ destructive /\ dump # NoDump /\ status # "done"
    BY <1>r
  <2> QED
    BY <1>r, <2>1 DEF Database!Next, Database!Replace, config
<1>p. ASSUME at = "up pangolin", running' \in {running, running \cup {"pangolin"}},
             status' \in {status, "failed"}, UNCHANGED <<config, database, pinned>>
      PROVE  Database!Next \/ UNCHANGED Database!vars
  <2>1. CASE running' = running
    BY <1>s, <1>p, <2>1
  <2>2. CASE running' # {}
    BY <1>0, <1>p, <2>2 DEF Database!Next, Database!Serve, Database!data, config, database
  <2> QED
    BY <1>p, <2>1, <2>2
<1>1. CASE Begin \/ Decline
  BY <1>f, <1>s, <1>1 DEF Begin, Decline, host, file
<1>2. CASE BeginWithoutDump
  BY <1>0, <1>2 DEF BeginWithoutDump, Database!Next, Database!Finish, Database!data, config, host, database
<1>3. CASE Replay \/ EditConfig
  <2>1. dump' \in Dumps \cup {NoDump} /\ destructive' \in BOOLEAN
    BY <1>0, <1>3 DEF Replay, EditConfig, config
  <2>2. UNCHANGED <<database, running, pinned>> /\ (status' = "done" => status = "done")
    BY <1>3 DEF Replay, EditConfig, host, file
  <2>3. Database!Decide
    BY <2>1, <2>2 DEF Database!Decide, Database!data, database
  <2> QED
    BY <2>3 DEF Database!Next
<1>4. CASE StopStack
  BY <1>f, <1>w, <1>4 DEF StopStack, file
<1>5. CASE \/ Upload \/ Checksum \/ Snapshot \/ DeleteDump \/ Headroom \/ ReadOrgs \/ OrgsChecked
           \/ WaitHealthy \/ WaitStable
  <2>1. UNCHANGED <<config, database, pinned, running>> /\ status' \in {status, "failed"} /\ at # "idle"
    BY <1>5 DEF Upload, Checksum, Snapshot, DeleteDump, Headroom, ReadOrgs, OrgsChecked, WaitHealthy,
                WaitStable, Answers, Fail, host, file
  <2> QED
    BY <1>s, <2>1
<1>6. CASE Load
  BY <1>r, <1>6 DEF Load, Replaced, Stopped, file, database
<1>7. CASE Reconcile
  BY <1>f, <1>r, <1>7 DEF Reconcile, file
<1>8. CASE WidenOrg
  BY <1>r, <1>8 DEF WidenOrg, file
<1>9. CASE UpPangolin
  BY <1>f, <1>p, <1>9 DEF UpPangolin, Up, Answers, file
<1>10. CASE UpGerbil \/ UpTraefik
  <2>1. /\ UNCHANGED <<config, database, pinned>> /\ status' \in {status, "failed"} /\ at # "idle"
        /\ running # {} /\ running \subseteq running'
    BY <1>f, <1>10 DEF UpGerbil, UpTraefik, Up, Answers, file
  <2> QED
    BY <1>s, <2>1
<1>11. CASE Record
  <2>1. /\ running # {} /\ part = "whole" /\ content = dump /\ status # "done"
        /\ UNCHANGED <<config, host, status>> /\ pinned' = dump
    BY <1>11 DEF Record
  <2> QED
    BY <2>1 DEF Database!Next, Database!Record, Database!Served, Database!data, config, host, database
<1>12. CASE Verify
  <2>1. /\ running # {} /\ part = "whole" /\ content = dump /\ pinned = dump /\ status # "done"
        /\ UNCHANGED <<config, host, pinned>>
    BY <1>12 DEF Verify
  <2>2. CASE status' = "done"
    BY <2>1, <2>2 DEF Database!Next, Database!Finish, Database!Served, Database!data, config, host, database
  <2>3. CASE status' # "done"
    BY <1>s, <2>1, <2>3 DEF host
  <2> QED
    BY <2>2, <2>3
<1>13. CASE Cut
  <2>0. /\ at # "idle" /\ status' \in {status, "failed"} /\ UNCHANGED <<config, pinned>>
        /\ CutDatabase /\ CutContainers
    BY <1>13 DEF Cut
  <2>1. CASE at = "stop"
    BY <1>w, <2>0, <2>1 DEF CutDatabase, CutContainers
  <2>2. CASE at = "up pangolin"
    BY <1>p, <2>0, <2>2 DEF CutDatabase, CutContainers
  <2>3. CASE at \in {"load", "reconcile"}
    <3>1. UNCHANGED running
      BY <2>0, <2>3 DEF CutContainers
    <3>2. content' \in {content, dump}
      BY <2>0 DEF CutDatabase, Stopped, Replaced, database
    <3> QED
      BY <1>r, <2>0, <2>3, <3>1, <3>2
  <2>4. CASE at \in {"up gerbil", "traefik"}
    <3>1. running # {} /\ running \subseteq running' /\ UNCHANGED database
      BY <2>0, <2>4 DEF CutContainers, CutDatabase
    <3> QED
      BY <1>s, <2>0, <3>1
  <2>5. CASE at \notin {"stop", "load", "reconcile", "up pangolin", "up gerbil", "traefik"}
    <3>1. UNCHANGED <<running, database>>
      BY <2>0, <2>5 DEF CutContainers, CutDatabase
    <3> QED
      BY <1>s, <2>0, <3>1
  <2> QED
    BY <2>1, <2>2, <2>3, <2>4, <2>5
<1>14. CASE UNCHANGED vars
  BY <1>s, <1>14 DEF vars, host, file
<1> QED
  BY <1>1, <1>2, <1>3, <1>4, <1>5, <1>6, <1>7, <1>8, <1>9, <1>10, <1>11, <1>12, <1>13, <1>14
     DEF Next, Advance

(* The phase implements Replacement, for any dumps, faults and cuts.       *)
THEOREM RestoreIsReplacement == Spec => IsReplacement
<1>1. Init => Database!Init /\ DatabaseInv
  <2> SUFFICES ASSUME Init PROVE Database!Init /\ DatabaseInv
    OBVIOUS
  <2>1. Database!Init
    BY DEF Init, Database!Init, Containers
  <2>2. EndInv /\ Unfinished
    BY LoadInit DEF Init, EndInv, Started, Unfinished
  <2> QED
    BY <2>1, <2>2, InitTypeOK DEF DatabaseInv
<1>2. DatabaseInv /\ [Next]_vars => DatabaseInv'
  BY TypeStep, LoadStep, StartedStep, UnfinishedStep DEF DatabaseInv, EndInv
<1>3. DatabaseInv /\ DatabaseInv' /\ [Next]_vars => [Database!Next]_(Database!vars)
  BY DatabaseStep DEF DatabaseInv
<1> QED
  BY <1>1, <1>2, <1>3, PTL DEF Spec, IsReplacement, Database!Spec

-----------------------------------------------------------------------------
(* RestoreEnds but for the fairness.  Assured is the precondition of        *)
(* RestoreEnds, carried through the command: what the snapshot took is the  *)
(* host's own identity, the dump has a row for it, so that it is written    *)
(* back and gerbil is known.  Once nothing goes wrong any more no step      *)
(* leaves Assured but to "done", and each takes the command closer to it.   *)
Place(s) ==
  CASE s = "idle"      -> 0  [] s = "stop"        -> 1  [] s = "upload"    -> 2  [] s = "checksum"  -> 3
    [] s = "snapshot"  -> 4  [] s = "load"        -> 5  [] s = "delete"    -> 6  [] s = "reconcile" -> 7
    [] s = "headroom"  -> 8  [] s = "orgs"        -> 9  [] s = "widen"     -> 10
    [] s = "up pangolin" -> 11 [] s = "healthy"   -> 12 [] s = "up gerbil" -> 13 [] s = "stable"    -> 14
    [] s = "traefik"   -> 15 [] s = "record"      -> 16 [] s = "verify"    -> 17

(* A later step, or one org less to look at. *)
Closer == Place(at) < Place(at') \/ (at' = at /\ todo' \subseteq todo /\ todo' # todo)

Unaltered == {"idle", "stop", "upload", "checksum", "snapshot"}
Patched   == {"headroom", "orgs", "widen", "up pangolin", "healthy", "up gerbil", "stable"}

Willing == upsets = MaxUpsets /\ dump # NoDump /\ destructive /\ ~dump.breaks /\ status # "done"
Snapped == at \in {"load", "delete", "reconcile"} =>
             pre.key = "own" /\ pre.id \in Ids /\ dump.keys[pre.id] # "none"

Assured ==
  /\ Willing
  /\ at \in Unaltered => HasOwnIdentity /\ dump.keys[LowestOf(Rows)] # "none"
  /\ at = "checksum" => staged = "whole"
  /\ Snapped
  /\ at = "delete" => loaded
  /\ at \in {"delete", "reconcile"} => keys = dump.keys
  /\ at \in Patched => GerbilIsKnown

LEMMA Places ==
  ASSUME NEW s
  PROVE  /\ s = "widen" => Place(s) = 10
         /\ s = "up pangolin" => Place(s) = 11
         /\ s = "healthy" => Place(s) = 12
         /\ s = "up gerbil" => Place(s) = 13
         /\ s = "stable" => Place(s) = 14
  BY Zenon DEF Place

LEMMA AssuredStep ==
  TypeOK /\ EndInv /\ Assured /\ Next => (Assured' /\ Closer) \/ (at' = "idle" /\ status' = "done")
<1> SUFFICES ASSUME TypeOK, EndInv, Assured, Next
             PROVE  (Assured' /\ Closer) \/ (at' = "idle" /\ status' = "done")
  OBVIOUS
<1> USE DEF Assured, Willing, Snapped
<1>u. ~Upset
  BY RestoreAssumption DEF Upset
<1>k. UNCHANGED keys => UNCHANGED Rows /\ (HasOwnIdentity => HasOwnIdentity') /\ (GerbilIsKnown => GerbilIsKnown')
  BY DEF GerbilIsKnown, Rows, HasOwnIdentity
<1>p. ASSUME at' \in Patched \cup {"traefik", "record", "verify"}, UNCHANGED <<config, status, upsets>>,
             at' \in Patched => GerbilIsKnown'
      PROVE  Assured'
  BY <1>p DEF config, Patched, Unaltered
<1>1. CASE Begin
  BY <1>k, <1>1 DEF Begin, GoTo, host, database, file, config, Closer, Place, Unaltered, Patched
<1>2. CASE BeginWithoutDump \/ Decline \/ Replay \/ EditConfig \/ Cut
  BY <1>u, <1>2 DEF BeginWithoutDump, Decline, Replay, EditConfig, Cut
<1>3. CASE StopStack
  <2>1. at = "stop" /\ at' = "upload" /\ UNCHANGED <<config, keys, status, upsets>>
    BY <1>u, <1>3 DEF StopStack, GoTo, database, file
  <2> QED
    BY <1>k, <2>1 DEF config, Closer, Place, Unaltered, Patched
<1>4. CASE Upload
  BY <1>k, <1>u, <1>4 DEF Upload, GoTo, database, file, config, Closer, Place, Unaltered, Patched
<1>5. CASE Checksum
  BY <1>k, <1>u, <1>5 DEF Checksum, GoTo, database, file, config, Closer, Place, Unaltered, Patched
<1>6. CASE Snapshot
  <2>1. Rows # {} /\ pre' = [id |-> LowestOf(Rows), key |-> keys[LowestOf(Rows)]]
    BY <1>u, <1>6 DEF Snapshot, HasOwnIdentity, Unaltered
  <2>2. LowestOf(Rows) \in Ids
    BY <2>1, RestoreAssumption, LowestIsThere DEF Rows
  <2> QED
    BY <1>u, <1>6, <2>1, <2>2 DEF Snapshot, HasOwnIdentity, host, database, file, config, Closer, Place, Unaltered,
       Patched
<1>7. CASE Load
  <2>1. staged = "whole"
    BY <1>7 DEF EndInv, LoadInv, Uploaded, Load
  <2>2. Replaced(dump) /\ loaded'
    BY <1>u, <1>7, <2>1 DEF Load
  <2> QED
    BY <1>u, <1>7, <2>2 DEF Load, Replaced, file, config, Closer, Place, Unaltered, Patched
<1>8. CASE DeleteDump
  BY <1>8 DEF DeleteDump, GoTo, database, file, config, Closer, Place, Unaltered, Patched
<1>9. CASE Reconcile
  <2>1. pre.id \in Rows /\ keys \in [Ids -> {"none", "own", "foreign"}]
    BY <1>9 DEF Reconcile, Rows, TypeOK
  <2>2. pre # Nobody
    BY <1>9 DEF Reconcile, Nobody
  <2>3. keys' = [keys EXCEPT ![pre.id] = pre.key]
    BY <1>u, <1>9, <2>1, <2>2 DEF Reconcile
  <2>4. pre.id \in Ids /\ keys'[pre.id] = "own"
    BY <1>9, <2>1, <2>3 DEF Reconcile, Rows
  <2>5. GerbilIsKnown'
    BY <2>4 DEF GerbilIsKnown
  <2>6. at = "reconcile" /\ at' = "headroom" /\ UNCHANGED <<config, status, upsets>>
    BY <1>u, <1>9, <2>2 DEF Reconcile, GoTo, file
  <2> QED
    BY <1>p, <2>5, <2>6 DEF Closer, Place, Patched
<1>10. CASE Headroom \/ OrgsChecked
  <2>1. /\ (at = "headroom" /\ at' = "orgs") \/ (at = "widen" /\ at' = "up pangolin")
        /\ UNCHANGED <<config, keys, status, upsets>>
    BY <1>u, <1>10 DEF Headroom, OrgsChecked, GoTo, host, database, file
  <2>2. Closer
    <3>1. CASE at = "headroom" /\ at' = "orgs"
      BY <3>1 DEF Closer, Place
    <3>2. CASE at = "widen" /\ at' = "up pangolin"
      <4>1. Place(at) = 10 /\ Place(at') = 11
        BY Places, <3>2, Zenon
      <4> QED
        BY <4>1 DEF Closer
    <3> QED
      BY <2>1, <3>1, <3>2
  <2>3. Assured'
    BY <1>k, <1>p, <2>1 DEF Patched
  <2> QED
    BY <2>2, <2>3
<1>11. CASE ReadOrgs
  <2>1. at = "orgs" /\ at' = "widen" /\ UNCHANGED <<config, keys, status, upsets>>
    BY <1>u, <1>11 DEF ReadOrgs, host, database, file
  <2>2. Closer
    BY <2>1 DEF Closer, Place
  <2>3. Assured'
    BY <1>k, <1>p, <2>1 DEF Patched
  <2> QED
    BY <2>2, <2>3
<1>12. CASE WidenOrg
  BY <1>k, <1>u, <1>12 DEF WidenOrg, file, config, Closer, Place, Unaltered, Patched
<1>13. CASE UpPangolin \/ UpGerbil \/ WaitHealthy \/ UpTraefik
  <2>1. /\ \/ at = "up pangolin" /\ at' = "healthy"
           \/ at = "healthy" /\ at' = "up gerbil"
           \/ at = "up gerbil" /\ at' = "stable"
           \/ at = "traefik" /\ at' = "record"
        /\ UNCHANGED <<config, keys, status, upsets>>
    BY <1>u, <1>13 DEF UpPangolin, UpGerbil, WaitHealthy, UpTraefik, Up, Answers, GoTo, host, database, file
  <2>2. Closer
    <3>1. CASE at = "up pangolin" /\ at' = "healthy"
      <4>1. Place(at) = 11 /\ Place(at') = 12
        BY Places, <3>1, Zenon
      <4> QED
        BY <4>1 DEF Closer
    <3>2. CASE at = "healthy" /\ at' = "up gerbil"
      <4>1. Place(at) = 12 /\ Place(at') = 13
        BY Places, <3>2, Zenon
      <4> QED
        BY <4>1 DEF Closer
    <3>3. CASE at = "up gerbil" /\ at' = "stable"
      <4>1. Place(at) = 13 /\ Place(at') = 14
        BY Places, <3>3, Zenon
      <4> QED
        BY <4>1 DEF Closer
    <3>4. CASE at = "traefik" /\ at' = "record"
      BY <3>4 DEF Closer, Place
    <3> QED
      BY <2>1, <3>1, <3>2, <3>3, <3>4
  <2>3. Assured'
    BY <1>k, <1>p, <2>1 DEF Patched
  <2> QED
    BY <2>2, <2>3
<1>14. CASE WaitStable
  <2>1. at = "stable" /\ at' = "traefik" /\ UNCHANGED <<config, status, upsets>>
    BY <1>u, <1>14 DEF WaitStable, GoTo, file, Patched
  <2> QED
    BY <1>p, <2>1 DEF Closer, Place, Patched
<1>15. CASE Record
  BY <1>15 DEF Record, GoTo, host, database, config, Closer, Place, Unaltered, Patched
<1>16. CASE Verify
  <2>1. part = "whole"
    BY <1>16 DEF Verify, EndInv, LoadInv, LoadedOk, AfterLoad
  <2>2. Containers \subseteq running /\ GerbilIsKnown
    BY <1>16 DEF Verify, EndInv, Started, Containers
  <2>3. part # "dropped" /\ Reachable
    BY <2>1, <2>2 DEF Reachable, TypeOK
  <2> QED
    BY <1>u, <1>16, <2>3 DEF Verify, EndCommand
<1> QED
  BY <1>1, <1>2, <1>3, <1>4, <1>5, <1>6, <1>7, <1>8, <1>9, <1>10, <1>11, <1>12, <1>13, <1>14, <1>15, <1>16
     DEF Next, Advance

(* Where RestoreEnds promises an end, Assured holds, and every step, until  *)
(* the phase is done, keeps it and comes closer to it.                      *)
THEOREM RestoreComesCloser ==
  Spec => /\ [](at = "idle" => (Assured <=> Recoverable))
          /\ [][Assured => (Assured' /\ Closer) \/ (at' = "idle" /\ status' = "done")]_vars
<1>1. at = "idle" => (Assured <=> Recoverable)
  BY DEF Assured, Willing, Snapped, Unaltered, Patched, Recoverable
<1>2. TypeOK /\ EndInv /\ [Next]_vars =>
        [Assured => (Assured' /\ Closer) \/ (at' = "idle" /\ status' = "done")]_vars
  BY AssuredStep
<1>3. EndInv /\ [Next]_vars => EndInv'
  BY LoadStep, StartedStep DEF EndInv
<1>4. Init => EndInv
  BY LoadInit DEF Init, EndInv, Started
<1> QED
  BY <1>1, <1>2, <1>3, <1>4, TypeCorrect, PTL DEF Spec
=============================================================================

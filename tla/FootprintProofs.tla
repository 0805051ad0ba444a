--------------------------- MODULE FootprintProofs ---------------------------
(* Proofs about Footprint, for any configs, machines and tenants, and any  *)
(* number of faults, cleans and edits.                                     *)
EXTENDS Footprint, TLAPS

-----------------------------------------------------------------------------
(* Types *)

(* The type invariant, in parts. *)
WorldOK == cfg \in Configs /\ site \in Sites /\ tenants \subseteq Tenants
FileOK  == status \in [Phases -> {"pending", "done", "failed"}] /\ pin \in 0..secrets
StackOK == /\ ours \in {"none", "stopped", "up"} /\ held \subseteq Int /\ (ours # "up" => held = {})
           /\ dir \in BOOLEAN /\ data \in 0..secrets
CountOK == upsets \in 0..MaxUpsets /\ secrets \in 0..(MaxUpsets + 1)
PastOK  == /\ checked \in [tenants : SUBSET Tenants, cfg : Configs, fresh : BOOLEAN]
           /\ orphaned \in BOOLEAN /\ torn \in BOOLEAN

LEMMA TypeParts == TypeOK <=> WorldOK /\ FileOK /\ StackOK /\ CountOK /\ PastOK /\ at \in Steps
  BY DEF TypeOK, WorldOK, FileOK, StackOK, CountOK, PastOK

LEMMA TypePartsPrimed ==
  TypeOK' <=> WorldOK' /\ FileOK' /\ StackOK' /\ CountOK' /\ PastOK' /\ at' \in Steps
  BY DEF TypeOK, WorldOK, FileOK, StackOK, CountOK, PastOK

LEMMA Ports == \A c \in Configs : Published(c) \subseteq Int /\ Loopback(c) \subseteq Int
<1> TAKE c \in Configs
<1>1. c.pg \in Nat /\ c.api \in Nat /\ c.apiOn \in BOOLEAN
  BY FootprintAssumption DEF Config
<1>2. PgPort(c) \subseteq Int /\ ApiPort(c) \subseteq Int /\ WireGuard \subseteq Int
  BY <1>1 DEF PgPort, ApiPort, WireGuard, Udp
<1>3. Public(c) \subseteq Int
  BY <1>2 DEF Public
<1>4. Loopback(c) \subseteq Int
  BY <1>2 DEF Loopback, PangolinApi, Maintenance
<1> QED
  BY <1>3, <1>4 DEF Published


(* What every command relies on: secrets come before files, files before the *)
(* containers and their data, and clean takes them away in reverse order.    *)
PinnedFirst ==
  /\ at \in {"files", "up"} => pin # 0
  /\ at = "up" => dir
  /\ dir \/ data # 0 => pin # 0
  /\ data # 0 => dir /\ data = pin
  /\ pin = 0 => ours = "none" \/ orphaned

CleanInOrder ==
  /\ at \in {"remove", "archive"} => torn /\ (ours = "none" \/ orphaned)
  /\ at = "archive" => ~dir

(* Every generation of secrets but the first follows a clean. *)
SecretsBounded ==
  /\ secrets <= upsets + 1
  /\ pin = 0 \/ at \in {"down", "remove", "archive"} => secrets <= upsets

LEMMA TypeInit == Init => TypeOK
<1> SUFFICES ASSUME Init PROVE WorldOK /\ FileOK /\ StackOK /\ CountOK /\ PastOK /\ at \in Steps
  BY TypeParts
<1>1. MaxUpsets \in Nat
  BY FootprintAssumption
<1>2. FileOK
  BY DEF Init, FileOK
<1>3. StackOK
  <2>1. dir \in BOOLEAN /\ held \subseteq Int /\ held = {}
    BY DEF Init
  <2>2. data \in 0..secrets
    BY DEF Init
  <2>3. ours \in {"none", "stopped", "up"}
    BY DEF Init
  <2> QED
    BY <2>1, <2>2, <2>3 DEF StackOK
<1>c. CountOK
  BY <1>1 DEF Init, CountOK
<1>4. PastOK
  <2>1. {} \in SUBSET Tenants /\ cfg \in Configs /\ FALSE \in BOOLEAN
    BY DEF Init
  <2> QED
    BY <2>1 DEF Init, PastOK
<1> QED
  BY <1>2, <1>3, <1>4, <1>c DEF Init, WorldOK, Steps

(* Whatever an `up` leaves is a stack. *)
LEMMA StartedIsStack ==
  ASSUME WorldOK, FileOK, StackOK, CountOK, UNCHANGED <<secrets, dir>>, StartedInPart
  PROVE  StackOK'
<1>1. Initialised \in 0..secrets
  BY DEF Initialised, FileOK, StackOK
<1>2. Published(cfg) \subseteq Int /\ Loopback(cfg) \ Taken \subseteq Int
  BY Ports DEF WorldOK
<1> QED
  BY <1>1, <1>2 DEF StartedInPart, Started, StackOK

LEMMA TypeStep == TypeOK /\ SecretsBounded /\ [Next]_vars => TypeOK'
<1> SUFFICES ASSUME TypeOK, SecretsBounded, [Next]_vars
             PROVE  WorldOK' /\ FileOK' /\ StackOK' /\ CountOK' /\ PastOK' /\ at' \in Steps
  BY TypePartsPrimed
<1>0. WorldOK /\ FileOK /\ StackOK /\ CountOK /\ PastOK /\ at \in Steps
  BY TypeParts
\* What is left alone keeps its type.
<1>n. MaxUpsets \in Nat
  BY FootprintAssumption
<1>c. /\ Upset /\ UNCHANGED secrets => CountOK'
      /\ UNCHANGED <<secrets, upsets>> => CountOK'
  BY <1>0, <1>n DEF Upset, CountOK
<1>w. UNCHANGED <<cfg, site, tenants>> => WorldOK'
  BY <1>0 DEF WorldOK
<1>f. /\ UNCHANGED <<file, secrets>> => FileOK'
      /\ \A p \in Phases, s \in {"pending", "done", "failed"} :
           Mark(p, s) /\ UNCHANGED <<pin, secrets>> => FileOK'
  BY <1>0 DEF FileOK, file, Mark
<1>s. /\ UNCHANGED <<stack, secrets>> => StackOK'
      /\ UNCHANGED <<ours, held, data, secrets>> /\ dir' \in BOOLEAN => StackOK'
      /\ UNCHANGED <<ours, held, secrets>> /\ dir' \in BOOLEAN /\ data' \in {0, data} => StackOK'
      /\ UNCHANGED <<dir, data, secrets>> /\ ours' \in {"none", "stopped"} /\ held' = {} => StackOK'
  <2>1. 0 \in 0..secrets
    BY <1>0 DEF CountOK
  <2> QED
    BY <1>0, <2>1 DEF StackOK, stack
<1>m. (~Midlife) \in BOOLEAN
  BY DEF Midlife
<1>p. /\ UNCHANGED past => PastOK'
      /\ UNCHANGED checked /\ orphaned' \in BOOLEAN /\ torn' \in BOOLEAN => PastOK'
      /\ UNCHANGED <<orphaned, torn>> /\ checked' = [tenants |-> tenants, cfg |-> cfg, fresh |-> ~Midlife]
           => PastOK'
  <2>1. tenants \in SUBSET Tenants /\ cfg \in Configs
    BY <1>0 DEF WorldOK
  <2>2. [tenants |-> tenants, cfg |-> cfg, fresh |-> ~Midlife]
          \in [tenants : SUBSET Tenants, cfg : Configs, fresh : BOOLEAN]
    BY <1>m, <2>1
  <2> QED
    BY <1>0, <2>2 DEF PastOK, past
<1>k. UNCHANGED past => UNCHANGED secrets
  BY DEF past
<1>b. orphaned \in BOOLEAN /\ torn \in BOOLEAN /\ dir \in BOOLEAN
  BY <1>0 DEF PastOK, StackOK
<1>h. "preflight" \in Phases /\ "pangolin" \in Phases
  BY DEF Phases
<1>1. CASE Provision
  BY <1>0, <1>c, <1>w, <1>f, <1>s, <1>p, <1>k, <1>1 DEF Provision, Steps
<1>2. CASE Replay
  <2>1. FileOK'
    BY <1>0, <1>2, <1>k DEF Replay, FileOK
  <2> QED
    BY <1>0, <1>c, <1>w, <1>s, <1>p, <1>k, <1>2, <2>1 DEF Replay
<1>3. CASE Preflight
  <2>1. PastOK' /\ at' \in Steps
    BY <1>0, <1>p, <1>3 DEF Preflight, Steps, past
  <2> QED
    BY <1>0, <1>c, <1>w, <1>f, <1>s, <1>h, <1>3, <2>1 DEF Preflight
<1>4. CASE Pin
  <2>1. secrets' \in 0..(MaxUpsets + 1) /\ secrets <= secrets' /\ CountOK'
    BY <1>0, <1>n, <1>4 DEF Pin, CountOK, SecretsBounded
  <2>2. FileOK' /\ StackOK'
    BY <1>0, <1>4, <2>1 DEF Pin, FileOK, StackOK, stack, CountOK
  <2> QED
    BY <1>0, <1>w, <1>p, <1>b, <1>4, <2>1, <2>2 DEF Pin, Steps
<1>5. CASE Files
  <2>1. dir' \in BOOLEAN
    BY <1>b, <1>5 DEF Files
  <2>2. UNCHANGED secrets
    BY <1>5 DEF Files, past
  <2>3. FileOK'
    BY <1>f, <1>h, <1>5, <2>2 DEF Files, file
  <2> QED
    BY <1>0, <1>c, <1>w, <1>s, <1>p, <1>5, <2>1, <2>2, <2>3 DEF Files, Steps
<1>6. CASE Up
  <2>1. (StartedInPart \/ (CanStart /\ Started)) /\ UNCHANGED <<secrets, dir>>
    BY <1>6 DEF Up
  <2>2. StartedInPart /\ UNCHANGED <<secrets, dir>>
    BY <2>1 DEF StartedInPart
  <2>3. StackOK'
    BY <1>0, <2>2, StartedIsStack
  <2> QED
    BY <1>0, <1>c, <1>w, <1>f, <1>p, <1>b, <1>h, <1>6, <2>3 DEF Up, Steps
<1>7. CASE Clean
  BY <1>0, <1>c, <1>w, <1>f, <1>s, <1>p, <1>k, <1>7 DEF Clean, Steps
<1>8. CASE Down
  <2>1. torn' \in BOOLEAN /\ orphaned' \in BOOLEAN
    BY <1>b, <1>8 DEF Down
  <2>2. StackOK'
    BY <1>s, <1>8 DEF Down, stack
  <2> QED
    BY <1>0, <1>c, <1>w, <1>f, <1>p, <1>8, <2>1, <2>2 DEF Down, Steps
<1>9. CASE Remove
  <2>1. dir' \in BOOLEAN /\ data' \in {0, data}
    BY <1>b, <1>9 DEF Remove
  <2> QED
    BY <1>0, <1>c, <1>w, <1>f, <1>s, <1>p, <1>k, <1>9, <2>1 DEF Remove, Steps
<1>10. CASE Archive
  <2>1. 0 \in 0..secrets
    BY <1>0 DEF CountOK
  <2>2. FileOK'
    BY <1>10, <2>1 DEF Archive, FileOK
  <2> QED
    BY <1>0, <1>c, <1>w, <1>s, <1>p, <1>b, <1>10, <2>2 DEF Archive, Steps
<1>11. CASE Die
  <2>1. torn' \in BOOLEAN
    BY <1>b, <1>11 DEF Die
  <2>2. UNCHANGED secrets
    BY <1>11 DEF Die
  <2>3. StackOK'
    <3>1. CASE at = "up" /\ StartedInPart /\ UNCHANGED dir
      BY <1>0, <2>2, <3>1, StartedIsStack
    <3>2. CASE UNCHANGED stack \/ (dir' = TRUE /\ UNCHANGED <<ours, held, data>>)
      BY <1>s, <2>2, <3>2
    <3>3. CASE ours' = "none" /\ held' = {} /\ UNCHANGED <<dir, data>>
      BY <1>s, <2>2, <3>3
    <3>4. CASE dir' \in {dir, FALSE} /\ data' = 0 /\ UNCHANGED <<ours, held>>
      BY <1>s, <1>b, <2>2, <3>4
    <3> QED
      BY <1>11, <3>1, <3>2, <3>3, <3>4 DEF Die
  <2> QED
    BY <1>0, <1>c, <1>w, <1>f, <1>p, <1>b, <1>11, <2>1, <2>3 DEF Die, Steps
<1>12. CASE EditConfig
  <2>1. WorldOK'
    BY <1>0, <1>12 DEF EditConfig, WorldOK
  <2> QED
    BY <1>0, <1>c, <1>f, <1>s, <1>p, <1>k, <1>12, <2>1 DEF EditConfig
<1>13. CASE SiteChanges
  <2>1. WorldOK'
    BY <1>0, <1>13 DEF SiteChanges, WorldOK
  <2> QED
    BY <1>0, <1>c, <1>f, <1>s, <1>p, <1>k, <1>13, <2>1 DEF SiteChanges
<1>14. CASE TenantMoves
  <2>1. WorldOK'
    BY <1>0, <1>14 DEF TenantMoves, WorldOK
  <2> QED
    BY <1>0, <1>c, <1>f, <1>s, <1>p, <1>k, <1>14, <2>1 DEF TenantMoves
<1>15. CASE StackStops
  BY <1>0, <1>c, <1>w, <1>f, <1>s, <1>p, <1>k, <1>15 DEF StackStops
<1>16. CASE UNCHANGED vars
  BY <1>0, <1>c, <1>w, <1>f, <1>s, <1>p, <1>k, <1>16 DEF vars
<1> QED
  BY <1>1, <1>2, <1>3, <1>4, <1>5, <1>6, <1>7, <1>8, <1>9, <1>10, <1>11, <1>12, <1>13, <1>14, <1>15, <1>16
     DEF Next, Advance

LEMMA SecretsInit == Init => PinnedFirst /\ CleanInOrder /\ SecretsBounded
  BY DEF Init, PinnedFirst, CleanInOrder, SecretsBounded

(* Types, and the order of secrets, files and containers. *)
Inv == TypeOK /\ PinnedFirst /\ CleanInOrder /\ SecretsBounded

LEMMA SecretsStep == Inv /\ [Next]_vars => SecretsBounded'
<1> SUFFICES ASSUME Inv, [Next]_vars PROVE SecretsBounded'
  OBVIOUS
<1>0. /\ upsets \in Nat /\ secrets \in Nat /\ SecretsBounded
      /\ Upset => upsets' = upsets + 1
  BY FootprintAssumption DEF Inv, TypeOK, Upset
<1>1. \/ UNCHANGED <<secrets, pin>> /\ at' \notin {"down", "remove", "archive"} /\ (UNCHANGED upsets \/ Upset)
         => SecretsBounded'
  BY <1>0 DEF SecretsBounded
<1>2. UNCHANGED <<secrets, pin, at>> /\ (UNCHANGED upsets \/ Upset) => SecretsBounded'
  BY <1>0 DEF SecretsBounded
<1>3. /\ UNCHANGED past => UNCHANGED secrets
      /\ UNCHANGED file => UNCHANGED pin
  BY DEF past, file
<1>4. CASE Provision \/ Preflight
  BY <1>1, <1>3, <1>4 DEF Provision, Preflight, file
<1>5. CASE Replay \/ EditConfig \/ SiteChanges \/ TenantMoves \/ StackStops
  BY <1>2, <1>3, <1>5 DEF Replay, EditConfig, SiteChanges, TenantMoves, StackStops
<1>6. CASE Pin
  BY <1>0, <1>6 DEF Pin, SecretsBounded
<1>7. CASE Files \/ Up
  BY <1>1, <1>3, <1>7 DEF Files, Up
<1>8. CASE Clean
  <2>1. UNCHANGED <<secrets, pin>> /\ upsets' = upsets + 1
    BY <1>0, <1>3, <1>8 DEF Clean
  <2> QED
    BY <1>0, <2>1 DEF SecretsBounded
<1>9. CASE Down \/ Remove
  <2>1. UNCHANGED <<secrets, pin>> /\ at \in {"down", "remove"} /\ (UNCHANGED upsets \/ Upset)
    BY <1>3, <1>9 DEF Down, Remove
  <2> QED
    BY <1>0, <2>1 DEF SecretsBounded
<1>10. CASE Archive
  BY <1>0, <1>10 DEF Archive, SecretsBounded
<1>11. CASE Die
  BY <1>1, <1>3, <1>11 DEF Die
<1>12. CASE UNCHANGED vars
  BY <1>2, <1>3, <1>12 DEF vars
<1> QED
  BY <1>4, <1>5, <1>6, <1>7, <1>8, <1>9, <1>10, <1>11, <1>12 DEF Next, Advance

(* What an `up` leaves behind keeps the order: its secrets are pinned. *)
LEMMA StartedInOrder ==
  ASSUME PinnedFirst, at = "up", StartedInPart, UNCHANGED <<pin, dir, orphaned>>, at' = "idle"
  PROVE  PinnedFirst'
<1>1. pin # 0 /\ dir /\ Initialised = pin
  BY DEF PinnedFirst, Initialised
<1>2. data' = data \/ data' = pin
  BY <1>1 DEF StartedInPart, Started
<1> QED
  BY <1>1, <1>2 DEF PinnedFirst

LEMMA OrderStep == Inv /\ [Next]_vars => PinnedFirst' /\ CleanInOrder'
<1> SUFFICES ASSUME Inv, [Next]_vars PROVE PinnedFirst' /\ CleanInOrder'
  OBVIOUS
<1>0. PinnedFirst /\ CleanInOrder /\ secrets \in Nat /\ pin \in 0..secrets
  BY FootprintAssumption DEF Inv, TypeOK
<1>1. /\ UNCHANGED past => UNCHANGED <<secrets, orphaned, torn>>
      /\ UNCHANGED file => UNCHANGED pin
      /\ UNCHANGED stack => UNCHANGED <<ours, held, dir, data>>
  BY DEF past, file, stack
\* Steps that leave the site as it is, and do not go where more is promised.
<1>2. UNCHANGED <<ours, dir, data, pin, orphaned, torn>> /\ at' \in {at, "idle", "preflight", "pin", "down"}
        => PinnedFirst' /\ CleanInOrder'
  BY <1>0 DEF PinnedFirst, CleanInOrder
<1>4. CASE Provision \/ Preflight \/ Replay \/ Clean \/ EditConfig \/ SiteChanges \/ TenantMoves
  <2>1. UNCHANGED <<ours, dir, data, pin, orphaned, torn>>
    BY <1>1, <1>4 DEF Provision, Preflight, Replay, Clean, EditConfig, SiteChanges, TenantMoves
  <2>2. at' \in {at, "idle", "preflight", "pin", "down"}
    BY <1>4 DEF Provision, Preflight, Replay, Clean, EditConfig, SiteChanges, TenantMoves
  <2> QED
    BY <1>2, <2>1, <2>2
<1>5. CASE StackStops
  BY <1>0, <1>1, <1>5 DEF StackStops, PinnedFirst, CleanInOrder
<1>6. CASE Pin
  <2>1. pin' # 0 /\ (pin # 0 => pin' = pin)
    BY <1>0, <1>6 DEF Pin
  <2> QED
    BY <1>0, <1>1, <1>6, <2>1 DEF Pin, PinnedFirst, CleanInOrder
<1>7. CASE Files
  BY <1>0, <1>1, <1>7 DEF Files, PinnedFirst, CleanInOrder
<1>8. CASE Up
  <2>1. CASE UNCHANGED orphaned /\ StartedInPart
    BY <1>0, <1>8, <2>1, StartedInOrder DEF Up, CleanInOrder
  <2>2. CASE Started
    <3>1. pin # 0 /\ dir /\ Initialised = pin
      BY <1>0, <1>8 DEF Up, PinnedFirst, Initialised
    <3> QED
      BY <1>0, <1>8, <2>2, <3>1 DEF Up, Started, PinnedFirst, CleanInOrder
  <2> QED
    BY <1>8, <2>1, <2>2 DEF Up
<1>9. CASE Down
  BY <1>0, <1>1, <1>9 DEF Down, PinnedFirst, CleanInOrder
<1>10. CASE Remove
  <2>1. UNCHANGED <<ours, pin, orphaned, torn>>
    BY <1>1, <1>10 DEF Remove
  <2>2. dir' => dir /\ (data' # 0 => data' = data)
    BY <1>0, <1>10 DEF Remove
  <2>3. data' # 0 => dir'
    BY <1>0, <1>10 DEF Remove, PinnedFirst
  <2>4. at = "remove" /\ at' \in {"archive", "idle"} /\ (at' = "archive" => ~dir')
    BY <1>10 DEF Remove
  <2> QED
    BY <1>0, <2>1, <2>2, <2>3, <2>4 DEF PinnedFirst, CleanInOrder
<1>11. CASE Archive
  BY <1>0, <1>1, <1>11 DEF Archive, PinnedFirst, CleanInOrder
<1>12. CASE Die
  <2>1. UNCHANGED <<pin, orphaned>> /\ at' = "idle"
    BY <1>1, <1>12 DEF Die
  <2>2. CASE at = "up" /\ StartedInPart /\ UNCHANGED dir
    BY <1>0, <2>1, <2>2, StartedInOrder DEF CleanInOrder
  <2>i. CleanInOrder'
    BY <2>1 DEF CleanInOrder
  <2>3. CASE UNCHANGED stack
    BY <1>0, <1>1, <2>1, <2>3, <2>i DEF PinnedFirst
  <2>4. CASE at = "files" /\ dir' = TRUE /\ UNCHANGED <<ours, held, data>>
    BY <1>0, <2>1, <2>4, <2>i DEF PinnedFirst
  <2>5. CASE at = "down" /\ dir /\ ours' = "none" /\ held' = {} /\ UNCHANGED <<dir, data>>
    BY <1>0, <2>1, <2>5, <2>i DEF PinnedFirst
  <2>6. CASE at = "remove" /\ dir' \in {dir, FALSE} /\ data' = 0 /\ UNCHANGED <<ours, held>>
    <3>1. dir' => dir
      BY <2>6
    <3> QED
      BY <1>0, <2>1, <2>6, <2>i, <3>1 DEF PinnedFirst
  <2> QED
    BY <1>12, <2>2, <2>3, <2>4, <2>5, <2>6 DEF Die
<1>13. CASE UNCHANGED vars
  BY <1>1, <1>2, <1>13 DEF vars
<1> QED
  BY <1>4, <1>5, <1>6, <1>7, <1>8, <1>9, <1>10, <1>11, <1>12, <1>13 DEF Next, Advance

LEMMA Invariance == Spec => []Inv
<1>1. Init => Inv
  BY TypeInit, SecretsInit DEF Inv
<1>2. Inv /\ [Next]_vars => Inv'
  BY TypeStep, SecretsStep, OrderStep DEF Inv
<1> QED
  BY <1>1, <1>2, PTL DEF Spec

-----------------------------------------------------------------------------
(* The completed phase *)

(* The type invariant of the footprint (preflight, pangolin's files and *)
(* containers, clean), with the number of secrets ever generated.       *)
THEOREM TypeCorrect == Spec => []TypeOK
<1>1. Inv => TypeOK
  BY DEF Inv
<1> QED
  BY <1>1, Invariance, PTL

(* The database on the host is always one that the pinned password opens *)
(* (state.py "Generated exactly once per site's lifetime").              *)
THEOREM SecretsFitData == Spec => []SecretsOutliveData
<1>1. Inv => SecretsOutliveData
  BY DEF Inv, PinnedFirst, SecretsOutliveData
<1> QED
  BY <1>1, Invariance, PTL

(* A site without pinned state has left nothing on the host but the        *)
(* containers that a clean failed to stop (clean_phase.py, cli.cmd_clean). *)
THEOREM CleanIsClean == Spec => []NothingLeftBehind
<1>1. Inv => NothingLeftBehind
  BY DEF Inv, TypeOK, PinnedFirst, NothingLeftBehind
<1> QED
  BY <1>1, Invariance, PTL

LEMMA DoneInit == Init => DoneIsThere
  BY DEF Init, DoneIsThere, Midlife, Phases

LEMMA DoneStep == Inv /\ DoneIsThere /\ [Next]_vars => DoneIsThere'
<1> SUFFICES ASSUME Inv, DoneIsThere, [Next]_vars PROVE DoneIsThere'
  OBVIOUS
<1>0. /\ PinnedFirst /\ CleanInOrder /\ status \in [Phases -> {"pending", "done", "failed"}]
      /\ "pangolin" \in Phases /\ "preflight" \in Phases
  BY DEF Inv, TypeOK, Phases
<1>1. /\ UNCHANGED past => UNCHANGED torn
      /\ UNCHANGED file => UNCHANGED <<status, pin>>
      /\ UNCHANGED stack => UNCHANGED <<ours, held, dir, data>>
  BY DEF past, file, stack
\* "done" stays, or is lost, on a site that is left alone.
<1>2. (Midlife' => Midlife) /\ UNCHANGED <<ours, dir, data, pin>> /\ (torn => torn') => DoneIsThere'
  BY DEF DoneIsThere
<1>3. /\ UNCHANGED status => (Midlife' <=> Midlife)
      /\ \A s \in {"done", "failed"} : Mark("preflight", s) => (Midlife' <=> Midlife)
      /\ Mark("pangolin", "failed") => ~Midlife'
  BY <1>0 DEF Midlife, Mark
<1>4. ~Midlife' => DoneIsThere'
  BY DEF DoneIsThere
<1>5. CASE Provision \/ Clean \/ EditConfig \/ SiteChanges \/ TenantMoves
  BY <1>1, <1>2, <1>3, <1>5 DEF Provision, Clean, EditConfig, SiteChanges, TenantMoves
<1>6. CASE Replay
  <2>1. Midlife' => Midlife
    BY <1>0, <1>6 DEF Replay, Midlife
  <2> QED
    BY <1>1, <1>2, <1>6, <2>1 DEF Replay
<1>7. CASE Preflight
  <2>1. Midlife' <=> Midlife
    BY <1>3, <1>7 DEF Preflight
  <2> QED
    BY <1>1, <1>2, <1>7, <2>1 DEF Preflight
<1>8. CASE Pin
  <2>1. pin # 0 => pin' = pin
    BY <1>8 DEF Pin
  <2> QED
    BY <1>1, <1>3, <1>8, <2>1 DEF Pin, DoneIsThere
<1>9. CASE Files
  <2>1. UNCHANGED status \/ Mark("pangolin", "failed")
    BY <1>9 DEF Files
  <2> QED
    <3>1. CASE Mark("pangolin", "failed")
      BY <1>3, <1>4, <3>1
    <3>2. CASE UNCHANGED status /\ ~Mark("pangolin", "failed")
      <4>1. dir' = TRUE /\ UNCHANGED <<ours, data, pin, torn>>
        BY <1>1, <1>9, <3>2 DEF Files
      <4> QED
        BY <1>3, <3>2, <4>1 DEF DoneIsThere
    <3> QED
      BY <2>1, <3>1, <3>2
<1>10. CASE Up
  <2>1. CASE Mark("pangolin", "failed")
    BY <1>3, <1>4, <2>1
  <2>2. CASE Started
    BY <1>0, <1>10, <2>2 DEF Up, Started, Initialised, PinnedFirst, DoneIsThere
  <2> QED
    BY <1>10, <2>1, <2>2 DEF Up
<1>11. CASE Down
  BY <1>11 DEF Down, DoneIsThere
<1>12. CASE Remove
  BY <1>0, <1>1, <1>12 DEF Remove, CleanInOrder, DoneIsThere
<1>13. CASE Archive
  <2>1. ~Midlife'
    BY <1>0, <1>13 DEF Archive, Midlife
  <2> QED
    BY <1>4, <2>1
<1>14. CASE Die
  <2>1. UNCHANGED <<status, pin>> /\ (torn => torn') /\ (at \in {"down", "remove", "archive"} => torn')
    BY <1>1, <1>14 DEF Die
  <2>2. CASE UNCHANGED stack
    BY <1>1, <1>2, <1>3, <2>1, <2>2
  <2>3. CASE at = "files" /\ dir' = TRUE /\ UNCHANGED <<ours, held, data>>
    BY <1>3, <2>1, <2>3 DEF DoneIsThere
  <2>4. CASE at = "up" /\ StartedInPart /\ UNCHANGED dir
    <3>1. data # 0 => data' = data
      BY <2>4 DEF StartedInPart, Started, Initialised
    <3>2. ours # "none" => ours' # "none"
      BY <2>4 DEF StartedInPart, Started
    <3> QED
      BY <1>3, <2>1, <2>4, <3>1, <3>2 DEF DoneIsThere
  <2>5. CASE at \in {"down", "remove"}
    BY <2>1, <2>5 DEF DoneIsThere
  <2> QED
    BY <1>14, <2>2, <2>3, <2>4, <2>5 DEF Die
<1>15. CASE StackStops
  BY <1>1, <1>3, <1>15 DEF StackStops, DoneIsThere
<1>16. CASE UNCHANGED vars
  BY <1>1, <1>2, <1>3, <1>16 DEF vars
<1> QED
  BY <1>5, <1>6, <1>7, <1>8, <1>9, <1>10, <1>11, <1>12, <1>13, <1>14, <1>15, <1>16 DEF Next, Advance

(* A pangolin phase that the state file calls done is on the host, with the *)
(* pinned secrets, unless a clean stopped half-way (cli.cmd_clean).         *)
THEOREM DoneStands == Spec => []DoneIsThere
<1>1. Inv /\ DoneIsThere /\ Inv' /\ [Next]_vars => DoneIsThere'
  BY DoneStep
<1> QED
  BY <1>1, DoneInit, Invariance, PTL DEF Spec

-----------------------------------------------------------------------------
(* preflight *)

(* preflight.py never fails a site for the stack's own ports and containers *)
(* once the pangolin phase is done.                                         *)
THEOREM OnlyOthersBlock == Spec => BlockedOnlyByOthers
<1>1. Inv /\ [Next]_vars => [EndsPreflight /\ status'["preflight"] = "failed" =>
                               OutsideReason \/ (ours = "up" /\ ~Midlife)]_vars
  <2> SUFFICES ASSUME Inv, Next, EndsPreflight, status'["preflight"] = "failed"
               PROVE  OutsideReason \/ (ours = "up" /\ ~Midlife)
    BY DEF EndsPreflight, vars
  <2>0. /\ upsets \in Nat /\ (ours # "up" => held = {}) /\ (Upset => upsets' = upsets + 1)
        /\ status \in [Phases -> {"pending", "done", "failed"}] /\ "preflight" \in Phases
    BY FootprintAssumption DEF Inv, TypeOK, Upset, Phases
  <2>1. at = "preflight" /\ at' = "idle" /\ ~Upset
    BY <2>0 DEF EndsPreflight
  <2>2. Preflight
    BY <2>1 DEF Next, Advance, Provision, Replay, Clean, Pin, Files, Up, Down, Remove, Archive, Die,
                EditConfig, SiteChanges, TenantMoves, StackStops
  <2>3. ~PreflightPasses
    <3>1. Mark("preflight", "done") => status'["preflight"] = "done"
      BY <2>0 DEF Mark
    <3> QED
      BY <2>1, <2>2, <3>1 DEF Preflight
  <2>4. CASE \E a \in site.agents : ~(a.in /\ a.tun)
    BY <2>4 DEF OutsideReason
  <2>5. CASE site.tcpApi \/ ~site.dns \/ site.low
    BY <2>5 DEF OutsideReason
  <2>6. CASE ~PortsFree
    <3>1. PICK p \in Required : p \in held \cup Taken /\ p \notin Expected
      BY <2>6 DEF PortsFree
    <3>2. CASE p \in Taken
      BY <3>1, <3>2 DEF Taken, OutsideReason
    <3>3. CASE p \in held
      BY <2>0, <3>1, <3>3 DEF Expected, Required
    <3> QED
      BY <3>1, <3>2, <3>3
  <2>7. CASE Artifacts /\ ~Midlife
    BY <2>7 DEF Artifacts, OutsideReason
  <2> QED
    BY <2>3, <2>4, <2>5, <2>6, <2>7 DEF PreflightPasses, HostPasses
<1> QED
  BY <1>1, Invariance, PTL DEF Spec, BlockedOnlyByOthers

(* What a preflight that passed a fresh host has seen there. *)
SawClearHost ==
  checked.fresh =>
    /\ \A t \in checked.tenants : t.up => t.ports \cap (GerbilPorts \cup PgPort(checked.cfg)) = {}
    /\ checked.cfg.refuse => \A t \in checked.tenants : t.up => t.name = "none"

LEMMA SawStep == SawClearHost /\ [Next]_vars => SawClearHost'
<1> SUFFICES ASSUME SawClearHost, [Next]_vars PROVE SawClearHost'
  OBVIOUS
<1>1. UNCHANGED checked => SawClearHost'
  BY DEF SawClearHost
<1>2. CASE Preflight
  <2>1. CASE UNCHANGED checked
    BY <1>1, <2>1
  <2>2. CASE PreflightPasses /\ checked' = [tenants |-> tenants, cfg |-> cfg, fresh |-> ~Midlife]
    <3> SUFFICES ASSUME ~Midlife
                 PROVE  /\ \A t \in tenants : t.up => t.ports \cap (GerbilPorts \cup PgPort(cfg)) = {}
                        /\ cfg.refuse => \A t \in tenants : t.up => t.name = "none"
      BY <2>2 DEF SawClearHost
    <3>1. Required \cap Taken = {} /\ (cfg.refuse => ~Artifacts)
      BY <2>2 DEF PreflightPasses, HostPasses, PortsFree, Expected
    <3> QED
      BY <3>1 DEF Required, Taken, Live, Artifacts
  <2> QED
    BY <1>2, <2>1, <2>2 DEF Preflight
<1>3. CASE ~Preflight
  <2>1. UNCHANGED checked
    BY <1>3 DEF Next, Advance, Provision, Replay, Clean, Pin, Files, Up, Down, Remove, Archive, Die,
                EditConfig, SiteChanges, TenantMoves, StackStops, past, vars
  <2> QED
    BY <1>1, <2>1
<1> QED
  BY <1>2, <1>3

(* When the first `up` clashes with a host that preflight has let pass, it *)
(* is for something that preflight does not look at.                       *)
THEOREM ClashesAreFound == Spec => []PreflightFindsClashes
<1>1. Init => SawClearHost
  BY DEF Init, SawClearHost
<1>2. Inv /\ SawClearHost => PreflightFindsClashes
  <2> SUFFICES ASSUME Inv, SawClearHost, ~CanStart,
                      checked = [tenants |-> tenants, cfg |-> cfg, fresh |-> TRUE]
               PROVE  \/ \E t \in Live : t.ports \cap ({3001, 8091} \cup ApiPort(cfg)) # {}
                      \/ \E t \in tenants : t.name = "exact" /\ (~t.up \/ ~cfg.refuse)
                      \/ (PgPort(cfg) \cup ApiPort(cfg)) \cap {80, 443} # {}
    BY DEF PreflightFindsClashes
  <2>1. /\ \A t \in tenants : t.up => t.ports \cap (GerbilPorts \cup PgPort(cfg)) = {}
        /\ cfg.refuse => \A t \in tenants : t.up => t.name = "none"
    BY DEF SawClearHost
  <2>2. CASE Published(cfg) \cap Taken # {}
    <3>1. PICK t \in Live : t.ports \cap Published(cfg) # {}
      BY <2>2 DEF Taken
    <3>2. Published(cfg) \subseteq GerbilPorts \cup PgPort(cfg) \cup ({3001, 8091} \cup ApiPort(cfg))
      BY DEF Published, Public, Loopback, GerbilPorts, PangolinApi, Maintenance
    <3>3. PICK p \in Published(cfg) : p \in t.ports
      BY <3>1
    <3>4. t.up /\ t \in tenants
      BY DEF Live
    <3>5. p \notin GerbilPorts \cup PgPort(cfg)
      BY <2>1, <3>3, <3>4
    <3>6. p \in {3001, 8091} \cup ApiPort(cfg)
      BY <3>2, <3>5
    <3> QED
      BY <3>3, <3>6
  <2>3. CASE SelfClash(cfg)
    <3>1. cfg.pg \in Nat /\ cfg.api \in Nat
      BY FootprintAssumption DEF Inv, TypeOK, Config
    <3>2. \A p \in WireGuard : p \notin Nat
      BY DEF WireGuard, Udp
    <3>3. PICK p \in Public(cfg) : p \in ApiPort(cfg) \cup PgPort(cfg)
      BY <2>3 DEF SelfClash
    <3>5. p \in Nat
      BY <3>1, <3>3 DEF ApiPort, PgPort
    <3>6. p \in {80, 443}
      BY <3>2, <3>3, <3>5 DEF Public
    <3>7. p \in (PgPort(cfg) \cup ApiPort(cfg)) \cap {80, 443}
      BY <3>3, <3>6
    <3> QED
      BY <3>7
  <2>4. CASE \E t \in tenants : t.name = "exact"
    BY <2>1, <2>4
  <2> QED
    BY <2>2, <2>3, <2>4 DEF CanStart
<1> QED
  BY <1>1, <1>2, SawStep, Invariance, PTL DEF Spec


-----------------------------------------------------------------------------
(* ComesUp but for the fairness.  Assured is its precondition, carried      *)
(* through the command: nothing that CanStart and PreflightPasses look at   *)
(* changes before the containers start.                                     *)
Place(s) ==
  CASE s = "idle" -> 0 [] s = "preflight" -> 1 [] s = "pin" -> 2 [] s = "files" -> 3 [] s = "up" -> 4

Assured ==
  /\ upsets = MaxUpsets /\ CanStart /\ ~Midlife
  /\ at \in {"idle", "preflight", "pin", "files", "up"}
  /\ at = "idle" => Preauth /\ (status["preflight"] = "done" \/ PreflightPasses)
  /\ at = "preflight" => PreflightPasses

LEMMA AssuredStep ==
  TypeOK /\ Assured /\ Next => (Assured' /\ Place(at) < Place(at')) \/ Midlife'
<1> SUFFICES ASSUME TypeOK, Assured, Next
             PROVE  (Assured' /\ Place(at) < Place(at')) \/ Midlife'
  OBVIOUS
<1> USE DEF Assured
<1>u. ~Upset
  BY FootprintAssumption DEF Upset
<1>c. UNCHANGED <<cfg, tenants>> => UNCHANGED CanStart
  BY DEF CanStart, Published, Public, Loopback, ApiPort, PgPort, Taken, Live, SelfClash
<1>p. UNCHANGED <<cfg, site, tenants, status, held, ours>> => UNCHANGED PreflightPasses
  BY DEF PreflightPasses, HostPasses, PortsFree, Artifacts, Required, Expected, PgPort, Taken, Live, Midlife
<1>1. CASE Provision
  BY <1>1, <1>c, <1>p DEF Provision, Place, Midlife, file, stack
<1>2. CASE Preflight
  <2>1. at = "preflight" /\ at' = "pin" /\ status' = [status EXCEPT !["preflight"] = "done"]
        /\ UNCHANGED <<cfg, tenants, upsets>>
    BY <1>2, <1>u DEF Preflight, Mark
  <2>2. ~Midlife'
    BY <2>1 DEF Midlife
  <2> QED
    BY <1>c, <2>1, <2>2 DEF Place
<1>3. CASE Pin
  <2>1. at = "pin" /\ at' = "files" /\ UNCHANGED <<cfg, tenants, status, upsets>>
    BY <1>3 DEF Pin
  <2>2. ~Midlife'
    BY <2>1 DEF Midlife
  <2> QED
    BY <1>c, <2>1, <2>2 DEF Place
<1>4. CASE Files
  <2>1. at = "files" /\ at' = "up" /\ UNCHANGED <<cfg, tenants, status, upsets>>
    BY <1>4, <1>u DEF Files
  <2>2. ~Midlife'
    BY <2>1 DEF Midlife
  <2> QED
    BY <1>c, <2>1, <2>2 DEF Place
<1>5. CASE Up
  <2>1. status' = [status EXCEPT !["pangolin"] = "done"]
    BY <1>5, <1>u DEF Up, Mark
  <2>2. status'["pangolin"] = "done"
    BY <2>1 DEF TypeOK, Phases
  <2> QED
    BY <2>2 DEF Midlife
<1>6. CASE \/ Replay \/ Clean \/ Down \/ Remove \/ Archive \/ Die \/ EditConfig \/ SiteChanges
           \/ TenantMoves \/ StackStops
  BY <1>6, <1>u DEF Replay, Clean, Down, Remove, Archive, Die, EditConfig, SiteChanges, TenantMoves, StackStops
<1> QED
  BY <1>1, <1>2, <1>3, <1>4, <1>5, <1>6 DEF Next, Advance

(* Where ComesUp promises that the stack comes up, Assured holds until it   *)
(* does, and every step is one to a later step of the one command it takes. *)
THEOREM CloserToUp ==
  Spec => /\ [](at = "idle" /\ ~Midlife => (Assured <=> Unhindered))
          /\ [][Assured => (Assured' /\ Place(at) < Place(at')) \/ Midlife']_vars
<1>1. at = "idle" /\ ~Midlife => (Assured <=> Unhindered)
  BY DEF Assured, Unhindered
<1>2. TypeOK /\ [Next]_vars => [Assured => (Assured' /\ Place(at) < Place(at')) \/ Midlife']_vars
  BY AssuredStep
<1> QED
  BY <1>1, <1>2, TypeCorrect, PTL DEF Spec
=============================================================================

------------------------------ MODULE MCRestore ------------------------------
(* Restore on two exit nodes and two orgs, in a space of 32 addresses. *)
EXTENDS Restore

CONSTANT Broken  \* whether a dump with a failing statement is among the dumps

N(a, s) == [at |-> a, size |-> s]

BootstrappedDb ==
  [keys |-> <<"own", "none">>, nets |-> <<N(0, 8), N(0, 8)>>, subnets |-> <<{}, {}>>,
   util |-> <<{}, {}>>, tunnels |-> 0, breaks |-> FALSE]

(* A backup of this very host from a deployment with two exit nodes, where *)
(* it was the second; one org has a range next to its subnet, one has none. *)
OwnBackup ==
  [keys |-> <<"foreign", "own">>, nets |-> <<N(16, 16), N(0, 8)>>, subnets |-> <<{N(12, 4)}, {}>>,
   util |-> <<{N(10, 2)}, {}>>, tunnels |-> 5, breaks |-> FALSE]

(* Another deployment with two exit nodes; the first has room for three. *)
Foreign(tunnels, breaks) ==
  [keys |-> <<"foreign", "foreign">>, nets |-> <<N(8, 8), N(24, 4)>>, subnets |-> <<{N(16, 2)}, {}>>,
   util |-> <<{N(22, 2)}, {N(28, 2)}>>, tunnels |-> tunnels, breaks |-> breaks]

(* Another deployment whose first exit node has been removed. *)
Renumbered ==
  [keys |-> <<"none", "foreign">>, nets |-> <<N(8, 8), N(8, 8)>>, subnets |-> <<{}, {}>>,
   util |-> <<{N(22, 2)}, {N(18, 2)}>>, tunnels |-> 1, breaks |-> FALSE]

MCDumps == {OwnBackup, Foreign(3, FALSE), Foreign(4, FALSE), Renumbered}
             \cup (IF Broken THEN {Foreign(3, TRUE)} ELSE {})
MCGroup == N(0, 8)
MCIds == {1, 2}
MCOrgs == {1, 2}
=============================================================================

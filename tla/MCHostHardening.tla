---------------------------- MODULE MCHostHardening ----------------------------
EXTENDS HostHardening

(* Hosts that differ in one respect each from an ordinary one, and the two *)
(* in which an old drop-in or a value before the Include line counts.      *)
Ordinary == [ufw |-> FALSE, legacy |-> FALSE,
             own |-> [early |-> FALSE, cloud |-> TRUE, root |-> "yes"],
             sshd |-> "plain", docker |-> "compose", stub |-> FALSE]

MCMachines ==
  { Ordinary,
    [Ordinary EXCEPT !.ufw = TRUE, !.sshd = "activated"],
    [Ordinary EXCEPT !.ufw = TRUE, !.own.root = "no"],
    [Ordinary EXCEPT !.sshd = "conflict"],
    [Ordinary EXCEPT !.legacy = TRUE, !.own.cloud = FALSE],
    [Ordinary EXCEPT !.legacy = TRUE, !.own.early = TRUE],
    [Ordinary EXCEPT !.docker = "absent", !.stub = TRUE],
    [Ordinary EXCEPT !.docker = "engine", !.stub = TRUE] }

(* One address is part of the text of the others, as 10.0.0.1 of 10.0.0.10. *)
Short    == CHOOSE a \in Sources : TRUE
MCWithin == {Short} \X (Sources \ {Short})

MCUsers == {"root", "sudo"}
MCSudo == {"sudo"}
MCOrdinary == {Ordinary}
MCPorts == {22, 2222}
MCPort22 == {22}
=============================================================================

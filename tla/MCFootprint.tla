----------------------------- MODULE MCFootprint -----------------------------
(* Footprint on one host, with six configs and one tenant of each kind. *)
EXTENDS Footprint

Plain == [production |-> FALSE, refuse |-> TRUE, pg |-> 5432, api |-> 3003, apiOn |-> TRUE,
          tls |-> TRUE, acme |-> FALSE]

MCConfigs ==
  { Plain,
    [Plain EXCEPT !.production = TRUE, !.acme = TRUE, !.pg = 5433],
    [Plain EXCEPT !.refuse = FALSE, !.tls = FALSE, !.apiOn = FALSE, !.pg = 0],
    [Plain EXCEPT !.pg = 443],           \* accepted, and clashes with gerbil
    [Plain EXCEPT !.pg = 8091],          \* refused by load()
    [Plain EXCEPT !.pg = 3003, !.apiOn = FALSE] }  \* refused too

Good == [low |-> FALSE, tcpApi |-> FALSE, dns |-> TRUE, agents |-> {[in |-> TRUE, tun |-> TRUE]}]

MCSites == { Good, [Good EXCEPT !.low = TRUE], [Good EXCEPT !.tcpApi = TRUE, !.dns = FALSE],
             [Good EXCEPT !.agents = {[in |-> TRUE, tun |-> FALSE]}],
             [Good EXCEPT !.agents = {[in |-> FALSE, tun |-> TRUE]}] }

(* A host postgres, a VPN server with its web page, a process on the API's *)
(* port, a stopped container with one of the stack's names, and a          *)
(* stranger's Postgres.                                                    *)
MCTenants ==
  { [name |-> "none", up |-> TRUE, ports |-> {5432}],
    [name |-> "none", up |-> TRUE, ports |-> {80, Udp(51820)}],
    [name |-> "none", up |-> TRUE, ports |-> {3001}],
    [name |-> "exact", up |-> FALSE, ports |-> {}],
    [name |-> "cased", up |-> TRUE, ports |-> {}] }
=============================================================================

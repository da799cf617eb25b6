---------------------------- MODULE MCNodeSession ----------------------------
(* Small instances of NodeSession: two networks, nodes that share a client or *)
(* have their own.                                                            *)
EXTENDS NodeSession

CONSTANTS n1, n2, own1, own2, shared1

T(port) == [protocol |-> "tcp", parameters |-> [port |-> port]]
R(t, i) == [target |-> t, id |-> i]
Ask(c, t, i, start) == [client |-> c, target |-> t, id |-> i, start |-> start]

OwnOf == [n \in Nodes |-> IF n = n1 THEN own1 ELSE own2]

(* A robot in each network, with ids of their own; *)
Apart == {R(T(1), 1), R(T(2), 2)}
(* or with the same id, as two robots on two cables; *)
Alike == {R(T(1), 1), R(T(2), 1)}
(* or two in one network. *)
Together == {R(T(1), 1), R(T(1), 2)}

(* Each node has its client; both clients are connected to one network,    *)
(* and mirroring is started with connect, which resets the remote node.     *)
OwnAsks == [n \in Nodes |-> {Ask(None, T(1), IF n = n1 THEN 1 ELSE 2, TRUE)}]

(* The nodes share a client and a network. *)
SharedAsks == [n \in Nodes |-> {Ask(shared1, T(1), IF n = n1 THEN 1 ELSE 2, TRUE)}]

(* Mirroring is started later. *)
LaterAsks == [n \in Nodes |-> {Ask(None, T(1), IF n = n1 THEN 1 ELSE 2, FALSE)}]

(* The nodes share a client for two networks. *)
TwoNetworks == [n \in Nodes |->
  {Ask(shared1, IF n = n1 THEN T(1) ELSE T(2), AnyId, TRUE)}]

(* A client of its own first, then a shared one. *)
Changing == [n \in Nodes |-> {Ask(None, T(1), 1, TRUE), Ask(shared1, T(1), 1, TRUE)}]
=============================================================================

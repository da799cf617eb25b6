------------------------------ MODULE NodeSession ------------------------------
(***************************************************************************)
(* The life of pyaseba.client.Node (client/node/node.py) and NodeAsync     *)
(* (client/node/node_async.py): how they find their remote node through a  *)
(* client of their own or a shared one, mirror its events with a script,   *)
(* call the program's callbacks, and close.                                *)
(*                                                                         *)
(* A client has a connection per target (its index stands for the target)  *)
(* and knows the remote nodes it has discovered.  A remote node is a       *)
(* target and an id; it runs the script it was last sent.  The mirrored    *)
(* event has a name in the program (the name of a local event) and another *)
(* in messages (get_event_name: event_<name>); callbacks are registered    *)
(* under the one that set_callback finds at that moment, so that one set   *)
(* before mirroring starts (as examples/thymio/callbacks_sync.py does) has *)
(* the name that messages do not carry.                                    *)
(***************************************************************************)
EXTENDS Naturals, FiniteSets

CONSTANTS
  Nodes,         \* objects of class Node
  Async,         \* those of class NodeAsync
  Clients,       \* clients, one of its own for each node, and shared ones
  Own,           \* the client that a node creates when it is given none
  Asks,          \* per node, the arguments it may be connected with
  Remotes,       \* remote nodes: target and id
  None,          \* no client, no connection
  MaxConnects,   \* bound on the calls of connect of each node
  MaxDrops       \* bound on the connections that are lost

Targets == {r.target : r \in Remotes}
Ids == {r.id : r \in Remotes}
AnyId == 0 - 1
Names == {"local", "user"}

ASSUME BoundsAssumption == MaxConnects \in Nat /\ MaxDrops \in Nat
ASSUME RemotesAssumption == Ids \subseteq Nat /\ Remotes \subseteq [target : Targets, id : Ids]
ASSUME NoneAssumption == None \notin Clients /\ None \notin Nodes /\ None \notin Targets
ASSUME AsksAssumption ==
  /\ Async \subseteq Nodes
  /\ Asks \in [Nodes -> SUBSET [client : Clients \cup {None}, target : Targets,
                               id : Ids \cup {AnyId}, start : BOOLEAN]]

(* The client that a node creates is its own. *)
ASSUME OwnAssumption ==
  /\ Own \in [Nodes -> Clients]
  /\ \A m, n \in Nodes :
       /\ Own[m] = Own[n] => m = n
       /\ \A a \in Asks[m] : a.client # Own[n]

VARIABLES
  client, shared, conn, target, id, mirroring, callbacks,  \* fields of a node
  pc, ask, include, \* where its call is, and the arguments and connections of connect
  conns, known, \* per client, its connections and the remote nodes it knows
  hears,         \* per client, the nodes whose _event_cb is one of its callbacks
  script,        \* the node whose mirroring script a remote node has
  vm,            \* whether a remote node runs it, is paused or stopped
  wanted,        \* history: the nodes whose callback the program has set, and
                 \* not removed, while they mirrored
  leaked,        \* history: the nodes that lost an open client
  reached,       \* history: the remote nodes that each node has sent commands to
  connects, drops

session == <<client, shared, conn, target, id>>
mirror == <<mirroring, callbacks>>
call == <<pc, ask, include>>
network == <<conns, known, hears>>
remote == <<script, vm>>
history == <<wanted, leaked, reached>>
bounds == <<connects, drops>>
vars == <<session, mirror, call, network, remote, history, bounds>>

TypeOK ==
  /\ client \in [Nodes -> Clients \cup {None}] /\ shared \in [Nodes -> BOOLEAN]
  /\ conn \in [Nodes -> Targets \cup {None}] /\ target \in [Nodes -> Targets \cup {None}]
  /\ id \in [Nodes -> Ids \cup {AnyId}]
  /\ mirroring \in [Nodes -> BOOLEAN]
  /\ callbacks \in [Nodes -> SUBSET Names]
  /\ pc \in [Nodes -> {"free", "connecting", "finding", "awaiting"}]
  /\ \A n \in Nodes : ask[n] \in Asks[n] \cup {None}
  /\ include \in [Nodes -> SUBSET Targets]
  /\ conns \in [Clients -> SUBSET Targets]
  /\ known \in [Clients -> SUBSET Remotes]
  /\ \A c \in Clients : \A r \in known[c] : r.target \in conns[c]
  /\ \A n \in Nodes : pc[n] # "free" => client[n] # None
  /\ hears \in [Clients -> SUBSET Nodes]
  /\ script \in [Remotes -> Nodes \cup {None}]
  /\ vm \in [Remotes -> {"stopped", "running", "paused"}]
  /\ wanted \subseteq Nodes /\ leaked \subseteq Nodes /\ reached \in [Nodes -> SUBSET Remotes]
  /\ connects \in [Nodes -> 0..MaxConnects] /\ drops \in 0..MaxDrops

Init ==
  /\ client = [n \in Nodes |-> None] /\ shared = [n \in Nodes |-> FALSE]
  /\ conn = [n \in Nodes |-> None] /\ target = [n \in Nodes |-> None]
  /\ id = [n \in Nodes |-> AnyId]
  /\ mirroring = [n \in Nodes |-> FALSE]
  /\ callbacks = [n \in Nodes |-> {}]
  /\ pc = [n \in Nodes |-> "free"] /\ ask = [n \in Nodes |-> None]
  /\ include = [n \in Nodes |-> {}]
  /\ conns = [c \in Clients |-> {}] /\ known = [c \in Clients |-> {}]
  /\ hears = [c \in Clients |-> {}]
  /\ script = [r \in Remotes |-> None] /\ vm = [r \in Remotes |-> "stopped"]
  /\ wanted = {} /\ leaked = {} /\ reached = [n \in Nodes |-> {}]
  /\ connects = [n \in Nodes |-> 0] /\ drops = 0

-----------------------------------------------------------------------------
(* Targets have a protocol and parameters; they may be the same if the     *)
(* protocols are equal and so are the parameters that both have.           *)
Compatible(t, other) ==
  /\ t.protocol = other.protocol
  /\ \A key \in DOMAIN t.parameters \cap DOMAIN other.parameters :
       t.parameters[key] = other.parameters[key]

Of(n) == [target |-> conn[n], id |-> id[n]]
Connected(n) == client[n] # None /\ conn[n] # None /\ Of(n) \in known[client[n]]
Free(n) == pc[n] = "free"

(* The remote nodes that a command with an id reaches through the          *)
(* connections of a client: all of that id, unless a connection is given.  *)
Everywhere(ts, i) == {r \in Remotes : r.id = i /\ r.target \in ts}
OnConnection(n) == {r \in Remotes : client[n] # None /\ r = Of(n) /\ conn[n] \in conns[client[n]]}

EventNameLocal(n) ==  \* a mutated form: get_event_name is not asked
  "local"

EventName(n) == IF mirroring[n] THEN "user" ELSE "local"

(* Commands to remote nodes. *)
Command(rs, state) == vm' = [r \in Remotes |-> IF r \in rs THEN state ELSE vm[r]]

Reaches(n, rs) == reached' = [reached EXCEPT ![n] = @ \cup rs]

(* connect resets all the nodes of the id, if it is given one, as soon as  *)
(* there is a connection.                                                  *)
ResetBy(n, a, ts) ==
  LET rs == IF a.id >= 0 THEN Everywhere(ts, a.id) ELSE {}
  IN  Command(rs, "stopped") /\ Reaches(n, rs)

(* Mutated forms of what follows; never part of Next. *)
CloseOwnNever(n) ==  \* the client stays open
  UNCHANGED network

StopKeeps(n) ==  \* mirroring is not cleared
  /\ Free(n) /\ client[n] # None
  /\ Command(OnConnection(n), "stopped")
  /\ Reaches(n, OnConnection(n))
  /\ UNCHANGED <<session, mirror, call, network, script, wanted, leaked, bounds>>

-----------------------------------------------------------------------------
(* connect takes the client it has, or the one it is given, or a new one,  *)
(* which is when it registers _event_cb; and looks for a connection that   *)
(* may be the target's.                                                    *)
Connect(n, a) ==
  /\ Free(n) /\ n \notin Async /\ connects[n] < MaxConnects
  /\ connects' = [connects EXCEPT ![n] = @ + 1]
  /\ shared' = [shared EXCEPT ![n] = @ \/ a.client # None]
  /\ LET c == IF client[n] # None THEN client[n]
              ELSE IF a.client # None THEN a.client ELSE Own[n]
         some == {t \in conns[c] : Compatible(a.target, t)}
     IN  /\ client' = [client EXCEPT ![n] = c]
         /\ hears' = IF client[n] = None THEN [hears EXCEPT ![c] = @ \cup {n}] ELSE hears
         /\ include' = [include EXCEPT ![n] = some]
         /\ IF some = {}
            THEN /\ pc' = [pc EXCEPT ![n] = "connecting"]
                 /\ UNCHANGED <<vm, reached>>
            ELSE pc' = [pc EXCEPT ![n] = "finding"] /\ ResetBy(n, a, conns[c])
  /\ ask' = [ask EXCEPT ![n] = a]
  /\ UNCHANGED <<conn, target, id, mirror, conns, known, script, wanted, leaked, drops>>

(* NodeAsync takes the client it is given, or a new one, each time, with   *)
(* whatever connections it has, and registers no callback.                 *)
ConnectAsync(n, a) ==
  /\ Free(n) /\ n \in Async /\ connects[n] < MaxConnects
  /\ connects' = [connects EXCEPT ![n] = @ + 1]
  /\ shared' = [shared EXCEPT ![n] = @ \/ a.client # None]
  /\ LET c == IF a.client # None THEN a.client ELSE Own[n]
         new == a.client = None
     IN  /\ client' = [client EXCEPT ![n] = c]
         /\ leaked' = IF conns[Own[n]] # {} /\ new THEN leaked \cup {n} ELSE leaked
         /\ conns' = IF new THEN [conns EXCEPT ![c] = {}] ELSE conns
         /\ known' = IF new THEN [known EXCEPT ![c] = {}] ELSE known
         /\ IF new \/ conns[c] = {}
            THEN /\ pc' = [pc EXCEPT ![n] = "connecting"]
                 /\ UNCHANGED <<vm, reached>>
            ELSE pc' = [pc EXCEPT ![n] = "finding"] /\ ResetBy(n, a, conns[c])
  /\ include' = [include EXCEPT ![n] = {}]
  /\ ask' = [ask EXCEPT ![n] = a]
  /\ UNCHANGED <<conn, target, id, mirror, hears, script, wanted, drops>>

(* The client connects, after retries or at once. *)
ConnectionMade(n) ==
  /\ pc[n] = "connecting"
  /\ conns' = [conns EXCEPT ![client[n]] = @ \cup {ask[n].target}]
  /\ pc' = [pc EXCEPT ![n] = "finding"]
  /\ ResetBy(n, ask[n], conns'[client[n]])
  /\ UNCHANGED <<session, mirror, ask, include, known, hears, script, wanted, leaked,
                 bounds>>

(* Closing the client that a node has created. *)
CloseOwn(n) ==
  /\ conns' = [conns EXCEPT ![client[n]] = {}]
  /\ known' = [known EXCEPT ![client[n]] = {}]
  /\ hears' = [hears EXCEPT ![client[n]] = {}]

(* connect answers False if the client does not connect or no node is      *)
(* found in time.  A client that is not shared is closed; NodeAsync closes *)
(* it only if it is not connected.                                         *)
ConnectFails(n) ==
  /\ pc[n] \in {"connecting", "finding"}
  /\ pc' = [pc EXCEPT ![n] = "free"] /\ ask' = [ask EXCEPT ![n] = None]
  /\ include' = [include EXCEPT ![n] = {}]
  /\ IF shared[n] \/ (n \in Async /\ conns[client[n]] # {})
     THEN UNCHANGED <<client, network>>
     ELSE CloseOwn(n) /\ client' = [client EXCEPT ![n] = None]
  /\ UNCHANGED <<shared, conn, target, id, mirror, remote, history, bounds>>

(* The nodes that wait_node may give: of the connections in include, if    *)
(* there are any; of the id that is asked for, if it is positive.          *)
Found(n) ==
  {r \in known[client[n]] :
     /\ include[n] = {} \/ r.target \in include[n]
     /\ ask[n].id > 0 => r.id = ask[n].id}

(* start_mirroring: the script goes to all the nodes of that id, is run by *)
(* them, and mirroring has begun unless the compiler fails.                *)
Mirrors(n, i, compiles) ==
  LET rs == Everywhere(conns[client[n]], i)
  IN  /\ mirroring' = [mirroring EXCEPT ![n] = compiles]
      /\ IF compiles
         THEN /\ script' = [r \in Remotes |-> IF r \in rs THEN n ELSE script[r]]
              /\ Command(rs, "running") /\ Reaches(n, rs)
         ELSE UNCHANGED <<remote, reached>>

(* A node is found: the node takes its connection, and the target as       *)
(* asked, and may begin to mirror it.                                      *)
NodeFound(n, r, compiles) ==
  /\ pc[n] = "finding" /\ r \in Found(n)
  /\ pc' = [pc EXCEPT ![n] = "free"] /\ ask' = [ask EXCEPT ![n] = None]
  /\ include' = [include EXCEPT ![n] = {}]
  /\ conn' = [conn EXCEPT ![n] = r.target]
  /\ target' = [target EXCEPT ![n] = ask[n].target]
  /\ id' = [id EXCEPT ![n] = r.id]
  /\ IF ask[n].start THEN Mirrors(n, r.id, compiles)
     ELSE compiles /\ UNCHANGED <<mirroring, remote, reached>>
  /\ UNCHANGED <<client, shared, callbacks, network, wanted, leaked, bounds>>

-----------------------------------------------------------------------------
StartMirroring(n, compiles) ==
  /\ Free(n) /\ Connected(n)
  /\ Mirrors(n, id[n], compiles)
  /\ UNCHANGED <<session, callbacks, call, network, wanted, leaked, bounds>>

(* load_script with a script of the program, which does not emit events. *)
LoadScript(n) ==
  /\ Free(n) /\ Connected(n)
  /\ mirroring' = [mirroring EXCEPT ![n] = FALSE]
  /\ LET rs == Everywhere(conns[client[n]], id[n])
     IN  /\ script' = [r \in Remotes |-> IF r \in rs THEN None ELSE script[r]]
         /\ Command(rs, "stopped")
         /\ Reaches(n, rs)
  /\ UNCHANGED <<session, callbacks, call, network, wanted, leaked, bounds>>

(* set_callback registers under the name the event has at the moment,      *)
SetCallback(n) ==
  /\ Free(n)
  /\ callbacks' = [callbacks EXCEPT ![n] = @ \cup {EventName(n)}]
  /\ wanted' = IF mirroring[n] THEN wanted \cup {n} ELSE wanted
  /\ UNCHANGED <<session, mirroring, call, network, remote, leaked, reached, bounds>>

(* and removes the callback of that name. *)
ClearCallback(n) ==
  /\ Free(n)
  /\ EventName(n) \in callbacks[n]
  /\ callbacks' = [callbacks EXCEPT ![n] = @ \ {EventName(n)}]
  /\ wanted' = IF mirroring[n] THEN wanted \ {n} ELSE wanted
  /\ UNCHANGED <<session, mirroring, call, network, remote, leaked, reached, bounds>>

(* stop and reset, pause, run: commands to the node on its connection. *)
Stop(n) ==
  /\ Free(n) /\ client[n] # None
  /\ mirroring' = [mirroring EXCEPT ![n] = FALSE]
  /\ Command(OnConnection(n), "stopped")
  /\ Reaches(n, OnConnection(n))
  /\ UNCHANGED <<session, callbacks, call, network, script, wanted, leaked, bounds>>

Run(n) ==
  /\ Free(n) /\ client[n] # None
  /\ Command({r \in OnConnection(n) : script[r] # None}, "running")
  /\ Reaches(n, OnConnection(n))
  /\ UNCHANGED <<session, mirror, call, network, script, wanted, leaked, bounds>>

Pause(n) ==
  /\ Free(n) /\ client[n] # None
  /\ Command({r \in OnConnection(n) : vm[r] = "running"}, "paused")
  /\ Reaches(n, OnConnection(n))
  /\ UNCHANGED <<session, mirror, call, network, script, wanted, leaked, bounds>>

(* close: stops the node, and closes a client that is not shared.  Node    *)
(* forgets its connection and keeps its id, NodeAsync the other way round. *)
Close(n) ==
  /\ Free(n) /\ client[n] # None
  /\ mirroring' = [mirroring EXCEPT ![n] = FALSE]
  /\ Command(OnConnection(n), "stopped")
  /\ Reaches(n, OnConnection(n))
  /\ IF shared[n] THEN UNCHANGED <<client, network>>
     ELSE CloseOwn(n) /\ client' = [client EXCEPT ![n] = None]
  /\ IF n \in Async
     THEN id' = [id EXCEPT ![n] = AnyId] /\ UNCHANGED <<conn, target>>
     ELSE /\ conn' = [conn EXCEPT ![n] = None] /\ target' = [target EXCEPT ![n] = None]
          /\ UNCHANGED id
  /\ UNCHANGED <<shared, callbacks, call, script, wanted, leaked, bounds>>

(* wait: for the user event, which the description has if it is mirrored;  *)
(* else False at once.                                                     *)
Wait(n) ==
  /\ Free(n) /\ client[n] # None /\ EventName(n) = "user"
  /\ pc' = [pc EXCEPT ![n] = "awaiting"]
  /\ UNCHANGED <<session, mirror, ask, include, network, remote, history, bounds>>

WaitEnds(n) ==
  /\ pc[n] = "awaiting" /\ pc' = [pc EXCEPT ![n] = "free"]
  /\ UNCHANGED <<session, mirror, ask, include, network, remote, history, bounds>>

-----------------------------------------------------------------------------
(* _event_cb of the nodes registered with a client that hears the event:   *)
(* those of the same id, and of them those that have a callback for it.    *)
Hearing(r) ==
  {n \in Nodes : \E c \in Clients : n \in hears[c] /\ r.target \in conns[c] /\ id[n] = r.id}

Called(r) == {n \in Hearing(r) : "user" \in callbacks[n]}

Discover(c, r) ==
  /\ r.target \in conns[c] /\ r \notin known[c]
  /\ known' = [known EXCEPT ![c] = @ \cup {r}]
  /\ UNCHANGED <<session, mirror, call, conns, hears, remote, history, bounds>>

(* A connection is lost. *)
Drop(c, t) ==
  /\ t \in conns[c] /\ drops < MaxDrops
  /\ drops' = drops + 1
  /\ conns' = [conns EXCEPT ![c] = @ \ {t}]
  /\ known' = [known EXCEPT ![c] = {r \in @ : r.target # t}]
  /\ UNCHANGED <<session, mirror, call, hears, remote, history, connects>>

-----------------------------------------------------------------------------
Connecting(n) ==
  \/ \E a \in Asks[n] : Connect(n, a) \/ ConnectAsync(n, a)
  \/ ConnectionMade(n) \/ ConnectFails(n)
  \/ \E r \in Remotes, compiles \in BOOLEAN : NodeFound(n, r, compiles)

Using(n) ==
  \/ \E compiles \in BOOLEAN : StartMirroring(n, compiles)
  \/ LoadScript(n) \/ SetCallback(n) \/ ClearCallback(n)
  \/ Stop(n) \/ Pause(n) \/ Run(n) \/ Close(n) \/ Wait(n) \/ WaitEnds(n)

Next ==
  \/ \E n \in Nodes : Connecting(n) \/ Using(n)
  \/ \E c \in Clients, r \in Remotes : Discover(c, r)
  \/ \E c \in Clients, t \in Targets : Drop(c, t)

Spec == Init /\ [][Next]_vars
-----------------------------------------------------------------------------
(* The node's target is that of its connection (node.py 270: "The Dashel   *)
(* target of the remote Aseba network").                                   *)
TargetIsTrue ==
  \A n \in Nodes : conn[n] # None => Compatible(target[n], conn[n])

(* A node that is connected has its callbacks called only for the events   *)
(* of its remote node; _event_cb looks at the id alone (node.py 422), so   *)
(* that a remote node of the same id on another connection breaks it.      *)
OwnEvents ==
  \A r \in Remotes : vm[r] = "running" /\ script[r] # None =>
     \A n \in Called(r) : conn[n] = None \/ Of(n) = r

(* A node that says it mirrors, between the calls of connect, has its      *)
(* script in its remote node, and it is not stopped: its calls and waits   *)
(* are for events of that script (node.py 534, 605).  A NodeAsync that     *)
(* connects again may fail and keep its new client (node_async.py 69).     *)
MirrorsTruly(n) ==
  pc[n] \in {"free", "awaiting"} /\ mirroring[n] /\ Connected(n) =>
    script[Of(n)] = n /\ vm[Of(n)] # "stopped"

MirroringIsTrue ==
  \A n \in Nodes : (n \in Async => connects[n] <= 1) => MirrorsTruly(n)

MirroringIsTrueAgain == \A n \in Async : MirrorsTruly(n)

(* While its remote node runs the script that mirrors the event, the event *)
(* calls the callback of a Node that the program has set in mirroring, and *)
(* not removed in mirroring, whatever the node was connected to, stopped   *)
(* or closed in between; and no other: one set before mirroring is not     *)
(* called, and one removed after it still is (node.py 565, 530; only Node  *)
(* registers _event_cb with its client).                                   *)
Mirrored(n) ==
  /\ Connected(n) /\ mirroring[n]
  /\ vm[Of(n)] = "running" /\ script[Of(n)] = n

SyncCallbackIsCalled ==
  \A n \in Nodes \ Async : Mirrored(n) => (n \in Called(Of(n)) <=> n \in wanted)

(* Every callback that the program has set is called when the mirrored     *)
(* event is emitted (node.py 560: "Sets a callback for when a mirrored     *)
(* local event is emitted").                                               *)
CallbackIsCalled ==
  \A n \in Nodes : Mirrored(n) /\ callbacks[n] # {} => n \in Called(Of(n))

(* The clients that nodes create are closed with them (node.py 514: "and   *)
(* the client, if it was created by the node").                            *)
OwnClientCloses ==
  \A n \in Nodes \ Async : client[n] = None \/ shared[n] => conns[Own[n]] = {}

NothingLeaks == leaked = {}

(* Commands reach the node they are meant for, and no other (node.py       *)
(* 389, 464-467 and 342 give no connection).                               *)
CommandsStayHome == [][\A n \in Nodes :
  \A r \in reached'[n] \ reached[n] : conn'[n] = r.target \/ conn[n] = r.target]_vars
=============================================================================

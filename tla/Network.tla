-------------------------------- MODULE Network --------------------------------
(***************************************************************************)
(* A pyaseba.network.Network with one node, and the programs of            *)
(* examples/ping_pong/client_network that play with it: a client sends a   *)
(* pong, the node answers with a ping, the client's callback with a pong.  *)
(*                                                                         *)
(* The network runs in a thread: it ticks its nodes, lets the Dashel hub   *)
(* handle what has come in, and then closes the streams that it refuses,   *)
(* because it serves one client at a time.  The program starts and stops   *)
(* it; a method of a node that is written in Python needs the interpreter  *)
(* lock, which stop() keeps while it joins the thread.                     *)
(*                                                                         *)
(* A stream is named by its client, which connects once.  Scripts, names   *)
(* and payloads are reduced to the messages "describe" and "node" (the     *)
(* description), "load" (load_script and cmd_run), "pong" and "ping".      *)
(***************************************************************************)
EXTENDS Integers, Sequences, SequencesExt, FiniteSets

CONSTANTS
  Clients,   \* the programs that connect
  Async,     \* those of them with a ClientAsync
  Styles,    \* how the node may answer
  Modes,     \* how the network may be run
  None       \* no stream

ASSUME ClientsAssumption == Async \subseteq Clients /\ None \notin Clients
ASSUME StylesAssumption == Styles \subseteq {"event", "function", "variable"}
ASSUME ModesAssumption == Modes \subseteq {"start", "spin_async"}

VARIABLES
  style, mode,  \* the programs that are run
  main,      \* where the program that owns the network is
  net,       \* where the thread of the network is
  spinning,  \* Network::spinning
  due,       \* the time of the next tick has come
  ready,     \* the streams that the hub has found something on
  stream,    \* the client that is served
  toDisconnect, \* the streams to close after this step of the hub
  flag,      \* the variable recevied_pong of the node
  client,    \* per client, where it is
  link,      \* per client, its connection
  toNetwork, toClient, \* per client, the messages that are on their way
  asleep     \* per client, the callbacks that sleep on its event loop

program == <<style, mode, main>>
network == <<net, spinning, due, ready, stream, toDisconnect, flag>>
clients == <<client, link, toNetwork, toClient, asleep>>
vars == <<program, network, clients>>

(* make_network: nobody is connected, nothing runs. *)
Init ==
  /\ style \in Styles /\ mode \in Modes
  /\ main = "idle" /\ net = "off" /\ spinning = FALSE /\ due = FALSE
  /\ ready = {} /\ stream = None /\ toDisconnect = {} /\ flag = FALSE
  /\ client = [c \in Clients |-> "out"] /\ link = [c \in Clients |-> "none"]
  /\ toNetwork = [c \in Clients |-> <<>>] /\ toClient = [c \in Clients |-> <<>>]
  /\ asleep = [c \in Clients |-> 0]

(* The program holds the interpreter lock until stop() returns; it has     *)
(* other short uses of it, which delay who waits and nothing else.         *)
LockIsFree == main \notin {"stop", "join"}

Send(c, m) ==
  toClient' = IF c # None /\ client[c] # "gone" /\ link[c] = "open"
              THEN [toClient EXCEPT ![c] = Append(@, m)] ELSE toClient

-----------------------------------------------------------------------------
(* The program *)

(* network.start(): a thread that has not been joined is destroyed by the  *)
(* second one, which ends the program.                                     *)
Start ==
  /\ mode = "start" /\ main \in {"idle", "running"}
  /\ IF main = "idle"
     THEN main' = "running" /\ net' = "begun" /\ UNCHANGED <<spinning, link>>
     ELSE /\ main' = "aborted" /\ net' = "off" /\ spinning' = FALSE
          /\ link' = [c \in Clients |-> IF link[c] = "none" THEN "none" ELSE "shut"]
  /\ UNCHANGED <<style, mode, due, ready, stream, toDisconnect, flag,
                 client, toNetwork, toClient, asleep>>

(* network.stop() tells the thread to end, *)
Stop ==
  /\ main = "running" /\ main' = "stop"
  /\ UNCHANGED <<style, mode, network, clients>>

ClearSpinning ==
  /\ main = "stop" /\ main' = "join"
  /\ spinning' = FALSE
  /\ UNCHANGED <<style, mode, net, due, ready, stream, toDisconnect, flag, clients>>

(* and waits for it. *)
Join ==
  /\ main = "join" /\ net = "ended"
  /\ main' = "idle" /\ net' = "off"
  /\ UNCHANGED <<style, mode, spinning, due, ready, stream, toDisconnect, flag, clients>>

(* await network.spin_async(): in a thread that asyncio awaits. *)
SpinAsync ==
  /\ mode = "spin_async"
  /\ \/ /\ main = "idle" /\ main' = "awaiting"
        /\ net' = "begun"
     \/ /\ main = "awaiting" /\ net = "ended"
        /\ main' = "idle" /\ net' = "off"
  /\ UNCHANGED <<style, mode, spinning, due, ready, stream, toDisconnect, flag, clients>>

-----------------------------------------------------------------------------
(* The thread: Network::spin *)

Begin ==
  /\ net = "begun"
  /\ IF spinning THEN net' = "ended" ELSE net' = "test"
  /\ spinning' = TRUE
  /\ UNCHANGED <<program, due, ready, stream, toDisconnect, flag, clients>>

(* while (spinning), and while the duration is not over; a tick that is    *)
(* due comes before the hub.                                               *)
Test ==
  /\ net = "test"
  /\ net' = IF ~spinning THEN "ended" ELSE IF due THEN "tick" ELSE "poll"
  /\ UNCHANGED <<program, spinning, due, ready, stream, toDisconnect, flag, clients>>

DurationIsOver ==
  /\ net = "test" /\ net' = "ended"
  /\ spinning' = FALSE
  /\ UNCHANGED <<program, due, ready, stream, toDisconnect, flag, clients>>

TimePasses ==
  /\ ~due /\ net \notin {"off", "ended"}
  /\ due' = TRUE
  /\ UNCHANGED <<program, net, spinning, ready, stream, toDisconnect, flag, clients>>

(* Mutated forms of what follows; never part of Next. *)
TickForgets ==  \* the flag is cleared, and nothing emitted
  /\ net = "tick" /\ LockIsFree
  /\ flag' = FALSE
  /\ due' = FALSE /\ net' = "poll"
  /\ UNCHANGED <<program, spinning, ready, stream, toDisconnect, clients>>

ConnectionForgotten(c) ==  \* the stream that is refused is not remembered
  /\ net = "hub" /\ c \in ready /\ link[c] = "backlog"
  /\ link' = [link EXCEPT ![c] = "open"]
  /\ stream' = IF stream = None THEN c ELSE stream
  /\ ready' = ready \ {c}
  /\ UNCHANGED <<program, net, spinning, due, toDisconnect, flag, client, toNetwork, toClient, asleep>>

(* Node.tick, in Python: that of variable_sync.py answers. *)
Tick ==
  /\ net = "tick" /\ LockIsFree
  /\ IF style = "variable" /\ flag THEN flag' = FALSE /\ Send(stream, "ping")
     ELSE UNCHANGED <<flag, toClient>>
  /\ due' = FALSE /\ net' = "poll"
  /\ UNCHANGED <<program, spinning, ready, stream, toDisconnect,
                 client, link, toNetwork, asleep>>

(* One step of the hub handles the streams on which it finds something. *)
Poll ==
  /\ net = "poll" /\ net' = "hub"
  /\ ready' = {c \in Clients : \/ link[c] = "backlog"
                               \/ link[c] = "open" /\ (toNetwork[c] # <<>> \/ client[c] = "gone")}
  /\ UNCHANGED <<program, spinning, due, stream, toDisconnect, flag, clients>>

(* connectionCreated: the first is served, the others are closed soon. *)
ConnectionCreated(c) ==
  /\ net = "hub" /\ c \in ready /\ link[c] = "backlog"
  /\ link' = [link EXCEPT ![c] = "open"]
  /\ IF stream = None THEN stream' = c /\ UNCHANGED toDisconnect
     ELSE toDisconnect' = toDisconnect \cup {c} /\ UNCHANGED stream
  /\ ready' = ready \ {c}
  /\ UNCHANGED <<program, net, spinning, due, flag, client, toNetwork, toClient, asleep>>

(* connectionClosed: the next client may be served. *)
ConnectionClosed(c) ==
  /\ net = "hub" /\ c \in ready /\ link[c] = "open" /\ client[c] = "gone"
  /\ link' = [link EXCEPT ![c] = "shut"]
  /\ stream' = IF stream = c THEN None ELSE stream
  /\ toDisconnect' = toDisconnect \ {c}
  /\ ready' = ready \ {c}
  /\ UNCHANGED <<program, net, spinning, due, flag, client, toNetwork, toClient, asleep>>

(* incomingData: the virtual machine of the node handles the message; what *)
(* comes on a stream that is not served is left unread.                    *)
(* user_events_sync.py answers in the script; function_sync.py and the     *)
(* reset of the node after a load go through Python.                       *)
Incoming(c) ==
  /\ net = "hub" /\ c \in ready /\ link[c] = "open" /\ toNetwork[c] # <<>>
  /\ ready' = ready \ {c}
  /\ LET m == Head(toNetwork[c])
     IN  IF c # stream THEN UNCHANGED <<net, flag, toNetwork, toClient>>
         ELSE IF m = "load" \/ (m = "pong" /\ style = "function")
         THEN net' = "call" /\ UNCHANGED <<flag, toNetwork, toClient>>
         ELSE /\ toNetwork' = [toNetwork EXCEPT ![c] = Tail(@)]
              /\ CASE m = "describe" -> Send(c, "node") /\ UNCHANGED flag
                   [] m = "pong" /\ style = "event" -> Send(c, "ping") /\ UNCHANGED flag
                   [] m = "pong" /\ style = "variable" -> flag' = TRUE /\ UNCHANGED toClient
              /\ UNCHANGED net
  /\ UNCHANGED <<program, spinning, due, stream, toDisconnect, client, link, asleep>>

(* call_extra_function of RespondingNode.respond, and reset() *)
CallNode ==
  /\ net = "call" /\ LockIsFree
  /\ net' = "hub"
  /\ toNetwork' = [toNetwork EXCEPT ![stream] = Tail(@)]
  /\ IF Head(toNetwork[stream]) = "load" THEN flag' = FALSE /\ UNCHANGED toClient
     ELSE Send(stream, "ping") /\ UNCHANGED flag
  /\ UNCHANGED <<program, spinning, due, ready, stream, toDisconnect, client, link, asleep>>

(* spin_once, after the step of the hub *)
CloseRefused ==
  /\ net = "hub" /\ ready = {}
  /\ link' = [c \in Clients |-> IF c \in toDisconnect THEN "shut" ELSE link[c]]
  /\ toDisconnect' = {}
  /\ net' = "test"
  /\ UNCHANGED <<program, spinning, due, ready, stream, flag, client, toNetwork, toClient, asleep>>

-----------------------------------------------------------------------------
(* The clients: run_client of ping_pong_sync.py and ping_pong_async.py *)

Connect(c) ==
  /\ client[c] = "out" /\ main # "aborted"
  /\ client' = [client EXCEPT ![c] = "asking"]
  /\ link' = [link EXCEPT ![c] = "backlog"]
  /\ toNetwork' = [toNetwork EXCEPT ![c] = <<"describe">>]
  /\ UNCHANGED <<program, network, toClient, asleep>>

(* wait_node returns a connection; load_script and cmd_run *)
Load(c) ==
  /\ client[c] = "asking" /\ link[c] = "open"
  /\ toClient[c] # <<>> /\ Head(toClient[c]) = "node"
  /\ toClient' = [toClient EXCEPT ![c] = Tail(@)]
  /\ client' = [client EXCEPT ![c] = "loaded"]
  /\ toNetwork' = [toNetwork EXCEPT ![c] = Append(@, "load")]
  /\ UNCHANGED <<program, network, link, asleep>>

(* add_event_callback and the first pong *)
FirstPong(c) ==
  /\ client[c] = "loaded" /\ link[c] = "open"
  /\ client' = [client EXCEPT ![c] = "playing"]
  /\ toNetwork' = [toNetwork EXCEPT ![c] = Append(@, "pong")]
  /\ UNCHANGED <<program, network, link, toClient, asleep>>

(* A ping that comes before the callback is not heard. *)
Unheard(c) ==
  /\ client[c] \in {"asking", "loaded"} /\ toClient[c] # <<>> /\ Head(toClient[c]) = "ping"
  /\ toClient' = [toClient EXCEPT ![c] = Tail(@)]
  /\ UNCHANGED <<program, network, client, link, toNetwork, asleep>>

(* The callback of ping_pong_sync.py sleeps and sends a pong; *)
Bat(c) ==
  /\ c \notin Async /\ client[c] = "playing" /\ link[c] = "open" /\ toClient[c] # <<>>
  /\ LockIsFree
  /\ toClient' = [toClient EXCEPT ![c] = Tail(@)]
  /\ toNetwork' = [toNetwork EXCEPT ![c] = Append(@, "pong")]
  /\ UNCHANGED <<program, network, client, link, asleep>>

(* that of ping_pong_async.py is a coroutine, scheduled by wrap_callback, *)
Schedule(c) ==
  /\ c \in Async /\ client[c] = "playing" /\ toClient[c] # <<>>
  /\ LockIsFree
  /\ toClient' = [toClient EXCEPT ![c] = Tail(@)]
  /\ asleep' = [asleep EXCEPT ![c] = @ + 1]
  /\ UNCHANGED <<program, network, client, link, toNetwork>>

(* which sends when it has slept. *)
Awake(c) ==
  /\ asleep[c] > 0 /\ LockIsFree
  /\ asleep' = [asleep EXCEPT ![c] = @ - 1]
  /\ toNetwork' = IF client[c] = "playing" /\ link[c] = "open"
                  THEN [toNetwork EXCEPT ![c] = Append(@, "pong")] ELSE toNetwork
  /\ UNCHANGED <<program, network, client, link, toClient>>

(* Its time is over, or the network has closed the connection; the client  *)
(* is closed.                                                              *)
Leave(c) ==
  /\ client[c] \in {"asking", "loaded", "playing"}
  /\ client' = [client EXCEPT ![c] = "gone"]
  /\ toClient' = [toClient EXCEPT ![c] = <<>>]
  /\ link' = IF link[c] = "backlog" THEN [link EXCEPT ![c] = "shut"] ELSE link
  /\ ready' = IF link[c] = "backlog" THEN ready \ {c} ELSE ready
  /\ UNCHANGED <<program, net, spinning, due, stream, toDisconnect, flag, toNetwork, asleep>>

-----------------------------------------------------------------------------
Program == Start \/ Stop \/ ClearSpinning \/ Join \/ SpinAsync

Spin ==
  \/ Begin \/ Test \/ DurationIsOver \/ Tick \/ Poll \/ CallNode \/ CloseRefused
  \/ \E c \in Clients : ConnectionCreated(c) \/ ConnectionClosed(c) \/ Incoming(c)

Play(c) == Load(c) \/ FirstPong(c) \/ Unheard(c) \/ Bat(c) \/ Schedule(c) \/ Awake(c)

Next == Program \/ Spin \/ TimePasses \/ \E c \in Clients : Connect(c) \/ Play(c) \/ Leave(c)

(* The threads and the clients run, time passes, and stop() goes on once   *)
(* it is called; nobody has to start, to stop, to connect or to leave.     *)
Fairness ==
  /\ WF_vars(Spin) /\ WF_vars(TimePasses) /\ WF_vars(ClearSpinning) /\ WF_vars(Join)
  /\ \A c \in Clients : WF_vars(Play(c))

Spec == Init /\ [][Next]_vars /\ Fairness
-----------------------------------------------------------------------------
TypeOK ==
  /\ style \in Styles /\ mode \in Modes
  /\ main \in {"idle", "running", "stop", "join", "awaiting", "aborted"}
  /\ net \in {"off", "begun", "test", "tick", "poll", "hub", "call", "ended"}
  /\ spinning \in BOOLEAN /\ due \in BOOLEAN /\ flag \in BOOLEAN
  /\ ready \subseteq Clients /\ toDisconnect \subseteq Clients /\ stream \in Clients \cup {None}
  /\ client \in [Clients -> {"out", "asking", "loaded", "playing", "gone"}]
  /\ link \in [Clients -> {"none", "backlog", "open", "shut"}]
  /\ \A c \in Clients : /\ ToSet(toNetwork[c]) \subseteq {"describe", "load", "pong"}
                        /\ ToSet(toClient[c]) \subseteq {"node", "ping"}
  /\ asleep \in [Clients -> Nat]

Spins == main \in {"running", "awaiting"} /\ net \notin {"off", "begun", "ended"} /\ spinning

Serves(c) == Spins /\ stream = c /\ client[c] = "playing" /\ link[c] = "open"

(* A client that connects while the network spins is served or, when       *)
(* another one is, told so by the end of its connection (network.h 165-176 *)
(* and 281-286), however connections and goodbyes come together.           *)
EveryOpenIsSettled ==
  \A c \in Clients : (Spins /\ link[c] = "backlog")
                       ~> (stream = c \/ link[c] = "shut" \/ ~Spins)

(* The ball comes back: the pong of the client that is served reaches the  *)
(* node, by whichever way the node answers the ping reaches the client,    *)
(* and its callback answers with another pong (ping_pong_sync.py 12-16).   *)
BallComesBack ==
  \A c \in Clients :
    /\ (Serves(c) /\ "pong" \in ToSet(toNetwork[c])) ~> ("ping" \in ToSet(toClient[c]) \/ ~Serves(c))
    /\ (Serves(c) /\ "ping" \in ToSet(toClient[c])) ~> ("pong" \in ToSet(toNetwork[c]) \/ ~Serves(c))

(* stop() stops a network that spins (python.cpp 357: "Stops spinning"). *)
StopReturns == (main = "stop" /\ spinning) ~> main = "idle"

(* There is one ball: the client plays with its own. *)
OneBall ==
  \A c \in Clients : client[c] = "playing" =>
    Len(SelectSeq(toNetwork[c], LAMBDA m : m = "pong"))
      + Len(SelectSeq(toClient[c], LAMBDA m : m = "ping")) + asleep[c]
      + (IF stream = c /\ flag /\ "load" \notin ToSet(toNetwork[c]) THEN 1 ELSE 0) <= 1
=============================================================================

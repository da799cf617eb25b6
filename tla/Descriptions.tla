----------------------------- MODULE Descriptions -----------------------------
(***************************************************************************)
(* DescriptionManager of src/client/description_manager.h: how the client  *)
(* assembles the descriptions of remote nodes, decides which of them are   *)
(* connected, and tells so to the node callbacks.                          *)
(*                                                                         *)
(* Three threads share the table of nodes: the one that processes messages *)
(* (process_message), the pinging one (ping_network) and the hub's         *)
(* (disconnect, when a stream closes).  The first two change the table     *)
(* under the mutex and call the callbacks after releasing it; the third    *)
(* calls them with the mutex held.  A node is a pair <<target, id>>.       *)
(*                                                                         *)
(* Messages arrive here in any order and number; module Discovery puts the *)
(* table behind real queues and devices.                                   *)
(***************************************************************************)
EXTENDS Integers, Sequences, FiniteSets

CONSTANTS
  NTargets,      \* targets are numbered from 1, as StreamsManager does
  Ids,           \* node ids
  Kinds,         \* named variables, local events, native functions
  Shape,         \* fragments of each kind that a node's description announces
  Old,           \* nodes of protocol 4, which cannot be listed
  Query,         \* query: automatic_query
  Timeout,       \* check_disconnection_timeout
  OutMax         \* bound: requests waiting in out_msgs

Targets == 1..NTargets
Node == Targets \X Ids

ASSUME NTargetsAssumption == NTargets \in Nat
ASSUME IdsAssumption == Ids \subseteq Nat
ASSUME ShapeAssumption == Shape \in [Node -> [Kinds -> Nat]]
ASSUME OldAssumption == Old \subseteq Node
ASSUME FlagsAssumption ==
  Query \in BOOLEAN /\ Timeout \in BOOLEAN
ASSUME OutMaxAssumption == OutMax \in Nat

VARIABLES
  known,      \* the keys of target_nodes
  ignored,    \* ignored_target_nodes
  slots,      \* of a known node: the fragments stored so far, by kind
  connected,  \* the known nodes whose connected flag is set
  stale,      \* connected nodes whose lastSeen is older than the delay
  msgUp, msgDown,    \* node_connected / node_disconnected that the processing
                     \* thread still has to call
  pingPc,            \* where ping_network is
  pingDown,          \* node_disconnected that the ping still has to call
  pingLonely,        \* the ping's local !isAnyConnected
  hubAt,             \* the target being disconnected, mutex held; or NoTarget
  out,               \* requests put in out_msgs
  echo,              \* history: the call of msgDown is about a node that was
                     \* not connected, so that it reports no change
  score,             \* history: node_connected minus node_disconnected calls,
                     \* the ones that report a change
  told,              \* history: nodes whose last call was node_connected
  raced              \* history: nodes last changed by one thread while another
                     \* still had to make a call about them

table == <<known, ignored, slots, connected, stale>>
msgVars == <<msgUp, msgDown>>
pingVars == <<pingPc, pingDown, pingLonely>>
callbacks == <<echo, score, told, raced>>
vars == <<known, ignored, slots, connected, stale, msgUp, msgDown, pingPc,
          pingDown, pingLonely, hubAt, out, echo, score, told, raced>>

NoTarget == 0
Fragments == UNION {1..Shape[p][k] : p \in Node, k \in Kinds}
Msg ==
  [type : {"present", "bye", "other"}]
    \cup [type : {"description"}, supported : BOOLEAN]
    \cup [type : {"fragment"}, kind : Kinds, no : Fragments]
Request ==
  [what : {"list", "describe"}, to : SUBSET Targets]
    \cup [what : {"describeNode"}, id : Ids, to : SUBSET Targets]

TypeOK ==
  /\ known \subseteq Node /\ ignored \subseteq Node
  /\ slots \in [known -> [Kinds -> Seq(Nat)]]
  /\ connected \subseteq known /\ stale \subseteq connected
  /\ msgUp \subseteq Node /\ msgDown \subseteq Node /\ pingDown \subseteq Node
  /\ pingPc \in {"idle", "check", "notify"} /\ pingLonely \in BOOLEAN
  /\ hubAt \in Targets \cup {NoTarget}
  /\ out \in Seq(Request)
  /\ echo \in BOOLEAN /\ score \in [Node -> Int]
  /\ told \subseteq Node /\ raced \subseteq Node

Init ==
  /\ known = {} /\ ignored = {} /\ slots = [p \in {} |-> <<>>]
  /\ connected = {} /\ stale = {}
  /\ msgUp = {} /\ msgDown = {}
  /\ pingPc = "idle" /\ pingDown = {} /\ pingLonely = TRUE
  /\ hubAt = NoTarget /\ out = <<>>
  /\ echo = FALSE /\ score = [p \in Node |-> 0] /\ told = {} /\ raced = {}

-----------------------------------------------------------------------------
(* ClientNode::is_complete on what is stored for p. *)
Full(p, stored) == \A k \in Kinds : Len(stored[k]) = Shape[p][k]
Complete(p) == p \in known /\ Full(p, slots[p])

Empty == [k \in Kinds |-> <<>>]

(* send_message: to the open streams among the targets, if any. *)
Send(request, open) ==
  LET dest == request.to \cap open
  IN  out' = IF dest = {} \/ Len(out) >= OutMax THEN out
             ELSE Append(out, [request EXCEPT !.to = dest])

(* node_connected and node_disconnected: the callbacks run. *)
TellUp(p) == score' = [score EXCEPT ![p] = @ + 1] /\ told' = told \cup {p}
TellDown(p) == score' = [score EXCEPT ![p] = @ - 1] /\ told' = told \ {p}
TellEcho(p) == told' = told \ {p} /\ UNCHANGED score

(* The calls that the processing and the pinging thread still have to make *)
(* about nodes; which nodes a change of the table adds to raced.           *)
Owed == msgUp \cup msgDown \cup pingDown
Changes(nodes) == raced' = (raced \ nodes) \cup (nodes \cap Owed)

Unlocked == hubAt = NoTarget

-----------------------------------------------------------------------------
(* Mutated forms of the operations below, each with one plausible mistake; *)
(* they are never part of Next.                                            *)
MeetAgain(p, m) ==  \* nodes[id] = ClientNode(...) instead of emplace
  /\ p \in known \/ p \notin ignored
  /\ m.type = "description" /\ m.supported
  /\ known' = known \cup {p}
  /\ slots' = [q \in known' |-> IF q = p THEN Empty ELSE slots[q]]
  /\ connected' = connected \ {p} /\ stale' = stale \ {p}
  /\ UNCHANGED <<ignored, msgVars, out>>

SeeAgainAlways(p, m) ==  \* notifies although the node was connected
  /\ Complete(p) /\ m.type # "bye"
  /\ m.type = "description" => m.supported
  /\ stale' = stale \ {p}
  /\ connected' = connected \cup {p}
  /\ msgUp' = {p}
  /\ UNCHANGED <<known, ignored, slots, msgDown, out>>

AssembleUpTo(p, m, limit) ==
  /\ p \in known /\ ~Complete(p) /\ m.type # "bye"
  /\ m.type = "description" => m.supported
  /\ stale' = stale \ {p}
  /\ IF m.type = "fragment" /\ Len(slots[p][m.kind]) < limit[m.kind]
     THEN slots' = [slots EXCEPT ![p][m.kind] = Append(@, m.no)]
     ELSE UNCHANGED slots
  /\ IF Full(p, slots'[p])
     THEN connected' = connected \cup {p} /\ msgUp' = {p}
     ELSE UNCHANGED <<connected, msgUp>>
  /\ UNCHANGED <<known, ignored, msgDown, out>>

AssembleTooMany(p, m) == AssembleUpTo(p, m, [k \in Kinds |-> Shape[p][k] + 1])
AssembleTooFew(p, m) == AssembleUpTo(p, m, [k \in Kinds |-> Shape[p][k] - 1])

FarewellSilently(p, m) ==  \* returns without calling node_disconnected
  /\ p \in known /\ m.type = "bye"
  /\ known' = known \ {p}
  /\ slots' = [q \in known' |-> slots[q]]
  /\ connected' = connected \ {p} /\ stale' = stale \ {p}
  /\ UNCHANGED <<ignored, msgVars, out>>

ExpiredOldOnly == IF Timeout THEN {p \in connected \cap stale : p \in Old} ELSE {}

-----------------------------------------------------------------------------
(* process_message(m, p[1]) with m.source = p[2]: one operator per path of *)
(* the handler, all under the mutex; the processing thread takes the next  *)
(* message after its notifications.                                        *)

(* The node is unknown, or ignored, and the message says nothing about it. *)
Disregard(p, m) ==
  /\ p \notin known
  /\ p \in ignored \/ m.type \notin {"present", "description"}
  /\ UNCHANGED <<table, msgVars, out>>

(* A presence message of an unknown node: asks for its description.        *)
AskUnknown(p, m, open) ==
  /\ p \notin known \cup ignored
  /\ m.type = "present"
  /\ IF Query
     THEN Send([what |-> "describeNode", id |-> p[2], to |-> {p[1]}], open)
     ELSE UNCHANGED out
  /\ UNCHANGED <<table, msgVars>>

(* A description whose protocol version is out of range. *)
Reject(p, m) ==
  /\ p \in known \/ p \notin ignored
  /\ m.type = "description" /\ ~m.supported
  /\ ignored' = ignored \cup {p}
  /\ UNCHANGED <<known, slots, connected, stale, msgVars, out>>

(* The first description of a node; one that announces no fragment at all  *)
(* is complete at once.                                                    *)
Meet(p, m) ==
  /\ p \notin known \cup ignored
  /\ m.type = "description" /\ m.supported
  /\ known' = known \cup {p}
  /\ slots' = [q \in known' |-> IF q = p THEN Empty ELSE slots[q]]
  /\ stale' = stale \ {p}
  /\ IF Full(p, Empty)
     THEN connected' = connected \cup {p} /\ msgUp' = {p}
     ELSE UNCHANGED <<connected, msgUp>>
  /\ UNCHANGED <<ignored, msgDown, out>>

(* Disconnected: the node is erased, whatever its state, and reported,     *)
(* even if it was not connected or was reported already.                   *)
Farewell(p, m) ==
  /\ p \in known /\ m.type = "bye"
  /\ known' = known \ {p}
  /\ slots' = [q \in known' |-> slots[q]]
  /\ connected' = connected \ {p} /\ stale' = stale \ {p}
  /\ msgDown' = {p}
  /\ UNCHANGED <<ignored, msgUp, out>>

(* Any message of a node whose description is complete.                    *)
SeeAgain(p, m) ==
  /\ Complete(p) /\ m.type # "bye"
  /\ m.type = "description" => m.supported
  /\ stale' = stale \ {p}
  /\ connected' = connected \cup {p}
  /\ msgUp' = IF p \in connected THEN msgUp ELSE {p}
  /\ UNCHANGED <<known, ignored, slots, msgDown, out>>

(* Any message of a node whose description is not complete: a fragment is  *)
(* stored in the next free slot of its kind (ClientNode::update); a second *)
(* description changes nothing (emplace).                                  *)
Assemble(p, m) ==
  /\ p \in known /\ ~Complete(p) /\ m.type # "bye"
  /\ m.type = "description" => m.supported
  /\ stale' = stale \ {p}
  /\ IF m.type = "fragment" /\ Len(slots[p][m.kind]) < Shape[p][m.kind]
     THEN slots' = [slots EXCEPT ![p][m.kind] = Append(@, m.no)]
     ELSE UNCHANGED slots
  /\ IF Full(p, slots'[p])
     THEN connected' = connected \cup {p} /\ msgUp' = {p}
     ELSE UNCHANGED <<connected, msgUp>>
  /\ UNCHANGED <<known, ignored, msgDown, out>>

ProcessMessage(p, m, open) ==
  /\ Unlocked
  /\ msgUp = {} /\ msgDown = {}
  /\ \/ Disregard(p, m) \/ AskUnknown(p, m, open) \/ Reject(p, m)
     \/ Meet(p, m) \/ Farewell(p, m) \/ SeeAgain(p, m) \/ Assemble(p, m)
  /\ Changes(msgUp' \cup msgDown')
  /\ echo' = (p \in msgDown' /\ p \notin connected)
  /\ UNCHANGED <<pingVars, hubAt, score, told>>

(* The end of process_message, after lock.unlock(). *)
NotifyProcessed ==
  /\ \/ \E p \in msgUp : TellUp(p)
     \/ \E p \in msgDown : ~echo /\ TellDown(p)
     \/ \E p \in msgDown : echo /\ TellEcho(p)
  /\ msgUp' = {} /\ msgDown' = {} /\ echo' = FALSE
  /\ UNCHANGED <<table, pingVars, hubAt, out, raced>>

-----------------------------------------------------------------------------
(* ping_network(): first lists the nodes of all the open streams. *)
PingList(open) ==
  /\ pingPc = "idle"
  /\ Send([what |-> "list", to |-> Targets], open)
  /\ pingPc' = "check"
  /\ UNCHANGED <<table, msgVars, pingDown, pingLonely, hubAt, callbacks>>

(* then, under the mutex, expires the connected nodes not seen for long, *)
Expired == IF Timeout THEN {p \in connected \cap stale : p \notin Old} ELSE {}

PingCheck ==
  /\ pingPc = "check" /\ Unlocked
  /\ connected' = connected \ Expired
  /\ stale' = stale \ Expired
  /\ pingDown' = Expired
  /\ pingLonely' = (connected' = {})
  /\ pingPc' = "notify"
  /\ Changes(Expired)
  /\ UNCHANGED <<known, ignored, slots, msgVars, hubAt, out, echo, score, told>>

(* reports them, without the mutex, *)
PingNotify ==
  /\ pingPc = "notify"
  /\ \E p \in pingDown : TellDown(p) /\ pingDown' = pingDown \ {p}
  /\ UNCHANGED <<table, msgVars, pingPc, pingLonely, hubAt, out, echo, raced>>

(* and asks every node for its description if none was left connected.     *)
PingEnd(open) ==
  /\ pingPc = "notify" /\ pingDown = {}
  /\ IF pingLonely THEN Send([what |-> "describe", to |-> Targets], open)
     ELSE UNCHANGED out
  /\ pingPc' = "idle"
  /\ UNCHANGED <<table, msgVars, pingDown, pingLonely, hubAt, callbacks>>

-----------------------------------------------------------------------------
(* disconnect(t, true): the hub's thread keeps the mutex from its begin to *)
(* its end and reports the nodes one after the other, by id.               *)
DisconnectBegin(t) ==
  /\ Unlocked
  /\ hubAt' = t
  /\ UNCHANGED <<table, msgVars, pingVars, out, callbacks>>

ConnectedAt(t) == {i \in Ids : <<t, i>> \in connected}

DisconnectNode ==
  /\ hubAt # NoTarget
  /\ \E i \in ConnectedAt(hubAt) :
       /\ \A j \in ConnectedAt(hubAt) : i <= j
       /\ connected' = connected \ {<<hubAt, i>>}
       /\ stale' = stale \ {<<hubAt, i>>}
       /\ TellDown(<<hubAt, i>>) /\ Changes({<<hubAt, i>>})
  /\ UNCHANGED <<known, ignored, slots, msgVars, pingVars, hubAt, out, echo>>

DisconnectEnd ==
  /\ hubAt # NoTarget /\ ConnectedAt(hubAt) = {}
  /\ hubAt' = NoTarget
  /\ UNCHANGED <<table, msgVars, pingVars, out, callbacks>>

(* reset(), which Client::stop calls once the three threads have ended; it *)
(* reports nothing, and the history starts anew.                           *)
Reset ==
  /\ Unlocked /\ msgUp = {} /\ msgDown = {} /\ pingPc = "idle"
  /\ known' = {} /\ ignored' = {} /\ slots' = [p \in {} |-> <<>>]
  /\ connected' = {} /\ stale' = {}
  /\ score' = [p \in Node |-> 0] /\ told' = {} /\ raced' = {}
  /\ UNCHANGED <<msgVars, pingVars, hubAt, out, echo>>

(* Time: a connected node has been silent for the disconnection delay.     *)
Age(p) ==
  /\ p \in connected \ stale
  /\ stale' = stale \cup {p}
  /\ UNCHANGED <<known, ignored, slots, connected, msgVars, pingVars, hubAt,
                 out, callbacks>>

(* The hub sends a request: here it only leaves the queue. *)
Drain ==
  /\ out # <<>>
  /\ out' = Tail(out)
  /\ UNCHANGED <<table, msgVars, pingVars, hubAt, callbacks>>

Next ==
  \/ \E p \in Node, m \in Msg, open \in SUBSET Targets : ProcessMessage(p, m, open)
  \/ NotifyProcessed
  \/ \E open \in SUBSET Targets : PingList(open)
  \/ PingCheck
  \/ PingNotify
  \/ \E open \in SUBSET Targets : PingEnd(open)
  \/ \E t \in Targets : DisconnectBegin(t)
  \/ DisconnectNode
  \/ DisconnectEnd
  \/ Reset
  \/ \E p \in Node : Age(p)
  \/ Drain

Spec == Init /\ [][Next]_vars
-----------------------------------------------------------------------------
(* Only a node whose description is complete is ever connected, and no     *)
(* kind holds more fragments than the description announced, so that       *)
(* "complete" can be reached (ClientNode::update, process_message).        *)
ConnectedComplete ==
  /\ \A p \in connected : Complete(p)
  /\ \A p \in known, k \in Kinds : Len(slots[p][k]) <= Shape[p][k]

(* Every change of a node's connected flag is reported by one call, though *)
(* three threads change the flag and two of them call later, outside the   *)
(* mutex: the calls made and those under way add up to the flag.  Only a   *)
(* Disconnected of a known node that is not connected (the ping expired    *)
(* it, or its description is not complete) makes a call that reports no    *)
(* change: node_disconnected is then called once more                      *)
(* (description_manager.h 347-354).                                        *)
One(condition) == IF condition THEN 1 ELSE 0

Balance(p) ==
  score[p] + One(p \in msgUp) - One(p \in msgDown /\ ~echo) - One(p \in pingDown)

CallbacksBalance == \A p \in Node : Balance(p) = One(p \in connected)

(* When no call about a node is under way, the last one agrees with its    *)
(* flag (python.cpp 1335: "Adds a callback called called when a node is    *)
(* discovered.", and 1346), unless the flag last changed while another     *)
(* thread had a call about the node to make: the two calls may then come   *)
(* in the wrong order, until the next change that no call overlaps.        *)
LastCallIsTrue ==
  \A p \in Node \ (Owed \cup raced) : p \in told <=> p \in connected

Status(p) ==
  IF p \notin known THEN "unknown"
  ELSE IF p \in connected THEN "connected"
  ELSE IF Complete(p) THEN "silent" ELSE "partial"

Lifecycle ==
  {<<"unknown", "partial">>, <<"unknown", "connected">>,
   <<"partial", "connected">>, <<"partial", "unknown">>,
   <<"connected", "silent">>, <<"connected", "unknown">>,
   <<"silent", "connected">>, <<"silent", "unknown">>}

LifecycleStep ==
  \A p \in Node :
    Status(p)' = Status(p) \/ <<Status(p), Status(p)'>> \in Lifecycle

(* The life of a node: unknown, then partly described, then connected;     *)
(* from there silent and connected again.  No step of any thread moves a   *)
(* node otherwise: a connected node never falls back to partial, a partial *)
(* one is never silent (process_message, ping_network, disconnect).        *)
NodeLifecycle == [][LifecycleStep]_vars

(* A complete description does not change while the node stays known: the  *)
(* pointers and the node ids that users were given keep their meaning.     *)
CompleteIsFinal ==
  [][\A p \in Node : Complete(p) /\ p \in known' => slots'[p] = slots[p]]_vars

(* A node_disconnected under way for the processing thread concerns a node *)
(* that the callbacks were told is connected, or are about to be           *)
(* (python.cpp 1346: "Adds a callback called when a node is disconnected.")*)
DisconnectedWasConnected == msgDown # {} => ~echo

(* When no call is under way, the last call about a node agrees with its   *)
(* state, whatever calls overlapped before (python.cpp 1335 and 1346).     *)
Quiet == Unlocked /\ Owed = {}
LastCallIsAlwaysTrue == Quiet => told = connected
=============================================================================

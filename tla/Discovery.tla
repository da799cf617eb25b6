------------------------------- MODULE Discovery -------------------------------
(***************************************************************************)
(* The discovery of nodes from end to end: the table of Descriptions       *)
(* behind the client's queues (client.h in_msgs and out_msgs), its hub     *)
(* thread (incomingData, process_out_message, connectionClosed) and the    *)
(* devices at the other end of the streams, which answer the requests the  *)
(* client sends them.                                                      *)
(***************************************************************************)
EXTENDS Descriptions, SequencesExt

CONSTANTS
  Devices,      \* the nodes that exist at the other end, all of them supported
  KindOrder,    \* the order in which a device sends the fragments
  InboxMax,     \* the capacity of in_msgs
  Lossy,        \* TRUE: in_msgs drops what comes when it is full;
                \* FALSE (bound): it is never full
  TxMax,        \* bound: answers a device may still be sending when asked again
  MaxConnects   \* bound: calls of connect for each target

ASSUME DevicesAssumption == Devices \subseteq Node
ASSUME KindOrderAssumption ==
  KindOrder \in Seq(Kinds) /\ IsInjective(KindOrder) /\ Range(KindOrder) = Kinds
ASSUME LimitsAssumption ==
  InboxMax \in Nat /\ TxMax \in Nat /\ MaxConnects \in Nat /\ Lossy \in BOOLEAN

VARIABLES
  open,      \* targets with an open stream
  inbox,     \* in_msgs, with the processing thread taking from its head
  tx,        \* what each device has still to send on its stream
  connects   \* calls of connect so far, by target

env == <<open, inbox, tx, connects>>
allVars == <<vars, open, inbox, tx, connects>>

DTypeOK ==
  /\ TypeOK
  /\ open \subseteq Targets
  /\ inbox \in Seq([node : Devices, msg : Msg]) /\ Len(inbox) <= InboxMax
  /\ tx \in [Devices -> Seq(Msg)]
  /\ connects \in [Targets -> 0..MaxConnects]

DInit ==
  /\ Init
  /\ open = {} /\ inbox = <<>> /\ tx = [p \in Devices |-> <<>>]
  /\ connects = [t \in Targets |-> 0]

-----------------------------------------------------------------------------
(* Mutated forms of the operations below, each with one plausible mistake; *)
(* they are never part of DNext.                                           *)
TakeNewest ==  \* the newest message first
  /\ inbox # <<>>
  /\ ProcessMessage(Last(inbox).node, Last(inbox).msg, open)
  /\ inbox' = Front(inbox)
  /\ UNCHANGED <<open, tx, connects>>

-----------------------------------------------------------------------------
(* How a device answers: it can be listed and asked by id from protocol 5  *)
(* on, and sends its whole description in order.                           *)
Description(p) ==
  <<[type |-> "description", supported |-> TRUE]>> \o
  FlattenSeq([j \in DOMAIN KindOrder |->
                [n \in 1..Shape[p][KindOrder[j]] |->
                   [type |-> "fragment", kind |-> KindOrder[j], no |-> n]]])

Answer(p, request) ==
  CASE request.what = "list" -> IF p \in Old THEN <<>> ELSE <<[type |-> "present"]>>
    [] request.what = "describe" -> Description(p)
    [] request.what = "describeNode" ->
         IF p \in Old \/ request.id # p[2] THEN <<>> ELSE Description(p)

(* connect(): the stream of a target opens; connectionCreated.             *)
Connect(t) ==
  /\ t \notin open /\ connects[t] < MaxConnects
  /\ open' = open \cup {t} /\ connects' = [connects EXCEPT ![t] = @ + 1]
  /\ UNCHANGED <<vars, inbox, tx>>

(* run(): the hub's thread sends the next request on the streams that are  *)
(* still open (process_out_message), and the devices take note.            *)
HubSend ==
  /\ Unlocked /\ out # <<>>
  /\ LET request == Head(out)
         asked == {p \in Devices : p[1] \in request.to \cap open}
     IN  /\ \A p \in asked : Len(tx[p]) <= TxMax
         /\ tx' = [p \in Devices |->
                     IF p \in asked THEN tx[p] \o Answer(p, request) ELSE tx[p]]
  /\ out' = Tail(out)
  /\ UNCHANGED <<table, msgVars, pingVars, hubAt, callbacks, open, inbox, connects>>

(* incomingData(): a message arrives and is put in the queue. *)
HubReceive(p) ==
  /\ Unlocked /\ p[1] \in open /\ tx[p] # <<>>
  /\ Len(inbox) < InboxMax \/ Lossy
  /\ inbox' = IF Len(inbox) < InboxMax
              THEN Append(inbox, [node |-> p, msg |-> Head(tx[p])]) ELSE inbox
  /\ tx' = [tx EXCEPT ![p] = Tail(@)]
  /\ UNCHANGED <<vars, open, connects>>

(* connectionClosed(): disconnect(), then the stream is forgotten, with    *)
(* what it carried; messages already received stay in in_msgs, and the     *)
(* requests that name the closed stream go nowhere.                        *)
HubClose(t) ==
  /\ t \in open /\ DisconnectBegin(t)
  /\ UNCHANGED env

HubClosing ==
  /\ DisconnectNode
  /\ UNCHANGED env

HubClosed ==
  /\ hubAt # NoTarget /\ ConnectedAt(hubAt) = {}
  /\ hubAt' = NoTarget
  /\ open' = open \ {hubAt}
  /\ tx' = [p \in Devices |-> IF p[1] = hubAt THEN <<>> ELSE tx[p]]
  /\ out' = [j \in DOMAIN out |-> [out[j] EXCEPT !.to = @ \ {hubAt}]]
  /\ UNCHANGED <<table, msgVars, pingVars, callbacks, inbox, connects>>

(* Queue::process: the next message goes through process_message. *)
Take ==
  /\ inbox # <<>>
  /\ ProcessMessage(Head(inbox).node, Head(inbox).msg, open)
  /\ inbox' = Tail(inbox)
  /\ UNCHANGED <<open, tx, connects>>

Notify == NotifyProcessed /\ UNCHANGED env

(* run_ping(): a ping starts once the hub has sent what the previous one   *)
(* asked (bound: the period is longer than that).                          *)
PingStart == out = <<>> /\ PingList(open) /\ UNCHANGED env
PingRest == (PingCheck \/ PingNotify \/ PingEnd(open)) /\ UNCHANGED env

Silence(p) == Age(p) /\ UNCHANGED env

DNext ==
  \/ \E t \in Targets : Connect(t) \/ HubClose(t)
  \/ HubSend
  \/ \E p \in Devices : HubReceive(p) \/ Silence(p)
  \/ HubClosing
  \/ HubClosed
  \/ Take
  \/ Notify
  \/ PingStart
  \/ PingRest

(* The hub, processing and ping threads run; a stream delivers what was    *)
(* sent; time passes.  Nobody has to connect or to close a stream.         *)
DFairness ==
  /\ WF_allVars(HubSend) /\ WF_allVars(HubClosing \/ HubClosed)
  /\ WF_allVars(Take) /\ WF_allVars(Notify)
  /\ WF_allVars(PingStart) /\ WF_allVars(PingRest)
  /\ \A p \in Devices : WF_allVars(HubReceive(p)) /\ WF_allVars(Silence(p))

DSpec == DInit /\ [][DNext]_allVars /\ DFairness
-----------------------------------------------------------------------------
(* A description counted as complete is the one the device sent: every     *)
(* fragment, once, in its place (python.cpp 955: "Nodes are considered as  *)
(* discovered when their complete description is received.").              *)
WellAssembled ==
  \A p \in Devices \cap known : Complete(p) =>
    \A k \in Kinds : \A n \in 1..Shape[p][k] : slots[p][k][n] = n

(* A device on an open stream that stays open is discovered (the example   *)
(* 2_automatic_node_discovery.py 16-18: "The client regularly broadcasts a *)
(* discovery message. Remote nodes that answer are asked to send their     *)
(* description.").                                                         *)
Discovered ==
  \A p \in Devices : p[1] \in open ~> (p \in connected \/ p[1] \notin open)

(* The nodes of a target that stays closed are eventually not connected,   *)
(* although messages received before the closing may still reconnect them  *)
(* after it; only nodes that cannot be listed may linger.                  *)
ClosedIsLeft ==
  \A p \in Devices \ Old :
    p[1] \notin open ~> (p \notin connected \/ p[1] \in open)
=============================================================================

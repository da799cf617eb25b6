--------------------------------- MODULE Bridge ---------------------------------
(***************************************************************************)
(* The programs of examples/client/bridge: a client with several           *)
(* connections that sends each message it receives to all but the          *)
(* connection it came from.  bridge_callbacks.py does so in a callback;    *)
(* bridge_sync.py and bridge_async.py let the client process one message   *)
(* per call of get_message and send what it returns.  The latter begins    *)
(* without a pause, which its first call of next() makes.                  *)
(*                                                                         *)
(* The queue of incoming messages, its thread and its gate are those of    *)
(* MsgQueue, and what get_message awaits is an item of Awaited, reduced to *)
(* what the programs use of them.  A message is its source and a number.   *)
(***************************************************************************)
EXTENDS Integers, Sequences, SequencesExt

CONSTANTS
  Peers,       \* the connections of the bridge
  Bridges,     \* which of the programs is run
  None,        \* no message
  MaxSize,     \* the size of the queue
  MaxMessages  \* bound on the messages of each peer

ASSUME BridgesAssumption == Bridges \subseteq {"callbacks", "sync", "async"}
ASSUME MessagesAssumption == MaxSize \in Nat \ {0} /\ MaxMessages \in Nat

Messages == [source : Peers, number : 1..MaxMessages]

VARIABLES
  bridge,      \* which of the three programs
  paused, step, \* pause_processing and the token of next()
  queue, held, proc, \* the queue, the message its thread has, where that is
  pc,          \* where the program is
  waiting,     \* what get_message awaits is registered
  answer,      \* the message it has got
  out,         \* per peer, what has been sent to it
  sent,        \* per peer, how many messages it has sent
  taken        \* history: per peer, the messages that the queue has taken

client == <<paused, step, queue, held, proc>>
bVars == <<bridge, client, pc, waiting, answer, out, sent, taken>>

BInit ==
  /\ bridge \in Bridges
  /\ paused = (bridge = "sync") /\ step = FALSE
  /\ queue = <<>> /\ held = None /\ proc = "loop"
  /\ pc = IF bridge = "callbacks" THEN "asleep" ELSE "ask"
  /\ waiting = FALSE /\ answer = None
  /\ out = [p \in Peers |-> <<>>] /\ sent = [p \in Peers |-> 0]
  /\ taken = {}

-----------------------------------------------------------------------------
(* Mutated forms of what follows; never part of BNext. *)
SendBack(m) ==  \* exclude is forgotten
  out' = [p \in Peers |-> Append(out[p], m)]

ForwardOnce ==  \* the callback removes itself when it is called
  /\ bridge = "callbacks" /\ proc = "call"
  /\ IF \A p \in Peers : out[p] = <<>>
     THEN out' = [p \in Peers |-> IF p = held.source THEN out[p] ELSE Append(out[p], held)]
     ELSE UNCHANGED out
  /\ held' = None /\ proc' = "loop"
  /\ UNCHANGED <<bridge, paused, step, queue, pc, waiting, answer, sent, taken>>
-----------------------------------------------------------------------------
(* send_message(msg, exclude={conn}) *)
SendMessage(m) ==
  out' = [p \in Peers |-> IF p = m.source THEN out[p] ELSE Append(out[p], m)]

(* A peer sends; the hub thread puts the message in the queue, or drops it *)
(* when that is full.                                                      *)
Receive(p) ==
  /\ sent[p] < MaxMessages
  /\ sent' = [sent EXCEPT ![p] = @ + 1]
  /\ LET m == [source |-> p, number |-> sent[p] + 1]
     IN  IF Len(queue) < MaxSize THEN queue' = Append(queue, m) /\ taken' = taken \cup {m}
         ELSE UNCHANGED <<queue, taken>>
  /\ UNCHANGED <<bridge, paused, step, held, proc, pc, waiting, answer, out>>

(* The processing thread takes a message, *)
Take ==
  /\ proc = "loop" /\ queue # <<>>
  /\ held' = Head(queue) /\ queue' = Tail(queue)
  /\ proc' = "gate"
  /\ UNCHANGED <<bridge, paused, step, pc, waiting, answer, out, sent, taken>>

(* waits for a token if it is paused, *)
Pass ==
  /\ proc = "gate" /\ (~paused \/ step)
  /\ step' = IF paused THEN FALSE ELSE step
  /\ proc' = "call"
  /\ UNCHANGED <<bridge, paused, queue, held, pc, waiting, answer, out, sent, taken>>

(* and calls the callback of bridge_callbacks.py, *)
Forward ==
  /\ bridge = "callbacks" /\ proc = "call"
  /\ SendMessage(held)
  /\ held' = None /\ proc' = "loop"
  /\ UNCHANGED <<bridge, paused, step, queue, pc, waiting, answer, sent, taken>>

(* or looks for a get_message that waits. *)
Check ==
  /\ bridge # "callbacks" /\ proc = "call"
  /\ IF waiting THEN answer' = held /\ waiting' = FALSE
     ELSE UNCHANGED <<answer, waiting>>
  /\ held' = None /\ proc' = "loop"
  /\ UNCHANGED <<bridge, paused, step, queue, pc, out, sent, taken>>

(* get_message(pause=True) asks for one message first *)
AskMessage ==
  /\ pc = "ask" /\ pc' = "register"
  /\ paused' = TRUE /\ step' = TRUE
  /\ UNCHANGED <<bridge, queue, held, proc, waiting, answer, out, sent, taken>>

(* and registers for it then. *)
Register ==
  /\ pc = "register" /\ pc' = "wait"
  /\ waiting' = TRUE
  /\ UNCHANGED <<bridge, client, answer, out, sent, taken>>

(* It returns a message, which is sent on, *)
Return ==
  /\ pc = "wait" /\ answer # None
  /\ SendMessage(answer)
  /\ answer' = None /\ pc' = "ask"
  /\ UNCHANGED <<bridge, client, waiting, sent, taken>>

(* or none in time. *)
Timeout ==
  /\ pc = "wait" /\ waiting
  /\ waiting' = FALSE /\ pc' = "ask"
  /\ UNCHANGED <<bridge, client, answer, out, sent, taken>>

-----------------------------------------------------------------------------
Process == Take \/ Pass \/ Forward \/ Check
Run == AskMessage \/ Register \/ Return \/ Timeout

BNext == (\E p \in Peers : Receive(p)) \/ Process \/ Run

(* The threads run; a timeout is over at last. *)
BFairness == WF_bVars(Process) /\ WF_bVars(AskMessage) /\ WF_bVars(Register) /\ WF_bVars(Return)
              /\ WF_bVars(Timeout)

BSpec == BInit /\ [][BNext]_bVars /\ BFairness
-----------------------------------------------------------------------------
BTypeOK ==
  /\ bridge \in Bridges /\ paused \in BOOLEAN /\ step \in BOOLEAN /\ waiting \in BOOLEAN
  /\ queue \in Seq(Messages) /\ held \in Messages \cup {None} /\ answer \in Messages \cup {None}
  /\ Len(queue) <= MaxSize
  /\ proc \in {"loop", "gate", "call"} /\ pc \in {"asleep", "ask", "register", "wait"}
  /\ out \in [Peers -> Seq(Messages)] /\ sent \in [Peers -> 0..MaxMessages]
  /\ taken \subseteq Messages

(* Each peer gets the messages of the others, each at most once and in the *)
(* order in which they were sent, and none of its own, whichever program   *)
(* bridges (bridge_sync.py 28, bridge_async.py 27, bridge_callbacks.py 14). *)
ForwardsInOrder ==
  \A p \in Peers : \A k, l \in DOMAIN out[p] :
    /\ out[p][k].source # p
    /\ k < l /\ out[p][k].source = out[p][l].source => out[p][k].number < out[p][l].number

Reaches(m) == \A p \in Peers \ {m.source} : m \in ToSet(out[p])

(* The bridge that uses a callback loses no message that its queue has     *)
(* taken (bridge_callbacks.py 22).                                         *)
CallbacksForward ==
  \A m \in Messages : (bridge = "callbacks" /\ m \in taken) ~> Reaches(m)

(* The bridge that lets one message through per call loses none either     *)
(* (python.cpp 1787: "Whether incoming messages are processed or kept in   *)
(* the queue").                                                            *)
PausedForwards ==
  \A m \in Messages : (bridge = "sync" /\ m \in taken) ~> Reaches(m)

(* Nor does the asynchronous one. *)
AwaitsForward ==
  \A m \in Messages : (bridge = "async" /\ m \in taken) ~> Reaches(m)
=============================================================================
